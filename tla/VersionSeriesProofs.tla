-------------------------- MODULE VersionSeriesProofs --------------------------
(***************************************************************************)
(* Proofs about VersionSeries, for every number of documents, series and   *)
(* users.                                                                  *)
(***************************************************************************)
EXTENDS VersionSeries, TLAPS

USE VersionSeriesAssumptions

\* The four ways a call changes the stored documents, apart from their place:
\* it writes nothing, stores one new document, stores a version after a former
\* one, or flags a document again.
LEMMA RevisionTypes ==
  /\ \A s \in Series : Pwc(s) \in Revision
  /\ \A s \in Series, b \in BOOLEAN, l \in Nat \X Nat : Version(s, b, l) \in Revision
  /\ \A s \in Series, state \in VersioningState : FirstVersion(s, state) \in Revision
  /\ \A r \in Revision, b \in BOOLEAN :
       NextVersion(r, b) \in Revision /\ Superseded(r, b) \in Revision
<1>1. \A s \in Series : Pwc(s) \in Revision
  BY DEF Pwc, NoLabel, Revision
<1>2. \A s \in Series, b \in BOOLEAN, l \in Nat \X Nat : Version(s, b, l) \in Revision
  BY DEF Version, Revision
<1>3. \A s \in Series, state \in VersioningState : FirstVersion(s, state) \in Revision
  <2>1. TAKE s \in Series, state \in VersioningState
  <2>2. CASE state = "CHECKEDOUT"
    BY <1>1, <2>2 DEF FirstVersion
  <2>3. CASE state # "CHECKEDOUT"
    <3>1. (IF state = "MAJOR" THEN <<1, 0>> ELSE <<0, 1>>) \in Nat \X Nat
      OBVIOUS
    <3>2. QED  BY <1>2, <2>3, <3>1 DEF FirstVersion
  <2>4. QED  BY <2>2, <2>3
<1>4. ASSUME NEW r \in Revision, NEW b \in BOOLEAN
      PROVE  NextVersion(r, b) \in Revision
  <2>1. IncreasedVersionLabel(r.label, b) \in Nat \X Nat
    BY DEF IncreasedVersionLabel, Revision
  <2>2. r.vs \in Series
    BY DEF Revision
  <2>3. QED  BY <1>2, <2>1, <2>2 DEF NextVersion
<1>5. ASSUME NEW r \in Revision, NEW b \in BOOLEAN
      PROVE  Superseded(r, b) \in Revision
  BY DEF Superseded, Revision
<1>6. QED  BY <1>1, <1>2, <1>3, <1>4, <1>5

-----------------------------------------------------------------------------
(***************************************************************************)
(* Type correctness                                                        *)
(***************************************************************************)

LEMMA NodeTypes ==
  /\ CheckedIn \in SeriesNode
  /\ \A p \in Doc, u \in User : CheckedOut(p, u) \in SeriesNode
BY DEF CheckedIn, CheckedOut, SeriesNode

LEMMA CreatedRevision ==
  TypeOK => \A d \in Created : d \in Doc /\ rev[d] \in Revision /\ rev[d].vs \in Series
BY DEF TypeOK, Created, Revision

LEMMA TypeOKInit == Init => TypeOK
BY DEF Init, TypeOK, Created

\* Storing a first version, a PWC or a next version under a fresh id keeps the
\* types, and every created document stays created.
LEMMA StoreTypes ==
  ASSUME TypeOK, NEW n \in Doc, rev[n] = Absent, NEW r \in Revision,
         rev' = [rev EXCEPT ![n] = r]
  PROVE  /\ rev' \in [Doc -> Revision \cup {Absent}]
         /\ Created' = Created \cup {n}
         /\ \A d \in Created : rev'[d] = rev[d]
         /\ rev'[n] = r
BY DEF TypeOK, Created

LEMMA ReplaceTypes ==
  ASSUME TypeOK, NEW n \in Doc, rev[n] = Absent, NEW f \in Created,
         NEW b \in BOOLEAN,
         rev' = [rev EXCEPT ![n] = NextVersion(rev[f], b),
                            ![f] = Superseded(rev[f], b)]
  PROVE  /\ rev' \in [Doc -> Revision \cup {Absent}]
         /\ Created' = Created \cup {n}
         /\ rev'[f] = Superseded(rev[f], b)
         /\ \A d \in Created \ {f} : rev'[d] = rev[d]
         /\ \A d \in Created : rev'[d].vs = rev[d].vs
         /\ rev'[n] = NextVersion(rev[f], b)
         /\ rev'[n].vs = rev[f].vs
<1>1. f # n /\ f \in Doc /\ rev[f] \in Revision
  BY CreatedRevision DEF Created
<1>2. NextVersion(rev[f], b) \in Revision /\ Superseded(rev[f], b) \in Revision
  BY <1>1, RevisionTypes
<1>3. rev' \in [Doc -> Revision \cup {Absent}]
  BY <1>1, <1>2 DEF TypeOK
<1>4. /\ rev'[n] = NextVersion(rev[f], b)
      /\ \A d \in Doc \ {n} : rev'[d] = IF d = f THEN Superseded(rev[f], b) ELSE rev[d]
  BY <1>1 DEF TypeOK
<1>5. Created' = Created \cup {n}
  BY <1>1, <1>2, <1>4 DEF Created
<1>6. NextVersion(rev[f], b).vs = rev[f].vs /\ Superseded(rev[f], b).vs = rev[f].vs
  BY <1>1 DEF NextVersion, Version, Superseded, Revision
<1>7. n \notin Created
  BY DEF Created
<1>8. QED  BY <1>3, <1>4, <1>5, <1>6, <1>7 DEF Created

LEMMA MovedUpTypes ==
  ASSUME TypeOK, NEW l \in Created, rev' = MovedUp(l)
  PROVE  /\ rev' \in [Doc -> Revision \cup {Absent}]
         /\ Created' = Created
         /\ \A d \in Created : rev'[d].vs = rev[d].vs
<1>1. l \in Doc /\ rev[l] \in Revision
  BY CreatedRevision
<1> DEFINE r == [rev[l] EXCEPT !.latest = TRUE, !.latestMajor = rev[l].major]
<1>2. r \in Revision /\ r.vs = rev[l].vs
  BY <1>1 DEF Revision
<1>3. rev' = [rev EXCEPT ![l] = r]
  BY DEF MovedUp
<1> HIDE DEF r
<1>4. /\ rev' \in [Doc -> Revision \cup {Absent}]
      /\ \A d \in Doc : rev'[d] = IF d = l THEN r ELSE rev[d]
  BY <1>1, <1>2, <1>3 DEF TypeOK
<1>5. QED  BY <1>1, <1>2, <1>4 DEF Created

\* Type correctness follows from the types of what is written, as long as the
\* documents named by live' and archive' are stored and their series exist.
LEMMA TypeOKParts ==
  ASSUME TypeOK,
         rev' \in [Doc -> Revision \cup {Absent}],
         series' \in [Series -> SeriesNode \cup {Absent}],
         live' \subseteq Created', archive' \subseteq Created',
         \A d \in Created' : series'[rev'[d].vs] # Absent,
         Returns("ok") \/ Returns("failed")
  PROVE  TypeOK'
BY DEF TypeOK, Returns

\* Writing the node of a series keeps the other nodes.
LEMMA SeriesTypes ==
  ASSUME TypeOK, NEW s \in Series, NEW node \in SeriesNode,
         series' = [series EXCEPT ![s] = node]
  PROVE  /\ series' \in [Series -> SeriesNode \cup {Absent}]
         /\ series'[s] # Absent
         /\ \A t \in Series : series[t] # Absent => series'[t] # Absent
BY DEF TypeOK

LEMMA CreateDocumentTypes ==
  ASSUME TypeOK, NEW u \in User, NEW d \in Doc, NEW s \in Series,
         NEW state \in VersioningState, CreateDocument(u, d, s, state)
  PROVE  TypeOK'
<1>1. FirstVersion(s, state) \in Revision /\ FirstVersion(s, state).vs = s
  BY RevisionTypes DEF FirstVersion, Pwc, Version
<1>2. /\ rev' \in [Doc -> Revision \cup {Absent}]
      /\ Created' = Created \cup {d}
      /\ \A e \in Created : rev'[e] = rev[e]
      /\ rev'[d] = FirstVersion(s, state)
  BY <1>1, StoreTypes DEF CreateDocument, Fresh
<1>3. (IF state = "CHECKEDOUT" THEN CheckedOut(d, u) ELSE CheckedIn) \in SeriesNode
  BY NodeTypes
<1>4. /\ series' \in [Series -> SeriesNode \cup {Absent}]
      /\ series'[s] # Absent
      /\ \A t \in Series : series[t] # Absent => series'[t] # Absent
  BY <1>3, SeriesTypes DEF CreateDocument
<1>5. \A e \in Created' : series'[rev'[e].vs] # Absent
  BY <1>1, <1>2, <1>4, CreatedRevision DEF TypeOK
<1>6. live' \subseteq Created' /\ archive' \subseteq Created'
  BY <1>2 DEF CreateDocument, TypeOK
<1>7. QED  BY <1>2, <1>4, <1>5, <1>6, TypeOKParts DEF CreateDocument

LEMMA CheckOutTypes ==
  ASSUME TypeOK, NEW u \in User, NEW d \in Doc, NEW p \in Doc, CheckOut(u, d, p)
  PROVE  TypeOK'
<1> DEFINE s == rev[d].vs
<1>0. d \in Created /\ s \in Series
  BY CreatedRevision DEF CheckOut, TypeOK
<1> HIDE DEF s
<1>1. Pwc(s) \in Revision /\ Pwc(s).vs = s
  BY <1>0, RevisionTypes DEF Pwc
<1>2. /\ rev' \in [Doc -> Revision \cup {Absent}]
      /\ Created' = Created \cup {p}
      /\ \A e \in Created : rev'[e] = rev[e]
      /\ rev'[p] = Pwc(s)
  BY <1>1, StoreTypes DEF CheckOut, Fresh, s
<1>3. series' = [series EXCEPT ![s] = CheckedOut(p, u)]
  BY DEF CheckOut, s
<1>4. /\ series' \in [Series -> SeriesNode \cup {Absent}]
      /\ series'[s] # Absent
      /\ \A t \in Series : series[t] # Absent => series'[t] # Absent
  BY <1>0, <1>3, NodeTypes, SeriesTypes
<1>5. \A e \in Created' : series'[rev'[e].vs] # Absent
  BY <1>1, <1>2, <1>4, CreatedRevision DEF TypeOK
<1>6. live' \subseteq Created' /\ archive' \subseteq Created'
  BY <1>2 DEF CheckOut, TypeOK
<1>7. QED  BY <1>2, <1>4, <1>5, <1>6, TypeOKParts DEF CheckOut

\* cancelCheckOut, and a check-in that throws after it.
LEMMA ReturnTypes ==
  ASSUME TypeOK, NEW u \in User, NEW d \in Doc,
         CancelCheckOut(u, d) \/ CheckInFails(u, d)
  PROVE  TypeOK'
<1>1. d \in Created /\ rev[d].vs \in Series
  BY CreatedRevision DEF CancelCheckOut, CheckInFails, TypeOK
<1>2. /\ rev' = rev /\ archive' = archive /\ live' = live \ {d}
      /\ series' = [series EXCEPT ![rev[d].vs] = CheckedIn]
  BY DEF CancelCheckOut, CheckInFails
<1>3. /\ series' \in [Series -> SeriesNode \cup {Absent}]
      /\ \A t \in Series : series[t] # Absent => series'[t] # Absent
  BY <1>1, <1>2, NodeTypes, SeriesTypes
<1>4. Created' = Created
  BY <1>2 DEF Created
<1>5. \A e \in Created' : series'[rev'[e].vs] # Absent
  BY <1>2, <1>3, <1>4, CreatedRevision DEF TypeOK
<1>6. live' \subseteq Created' /\ archive' \subseteq Created'
  BY <1>2, <1>4 DEF TypeOK
<1>7. Returns("ok") \/ Returns("failed")
  BY DEF CancelCheckOut, CheckInFails
<1>8. rev' \in [Doc -> Revision \cup {Absent}]
  BY <1>2 DEF TypeOK
<1>9. QED  BY <1>3, <1>5, <1>6, <1>7, <1>8, TypeOKParts

LEMMA CheckInTypes ==
  ASSUME TypeOK, NEW u \in User, NEW d \in Doc, NEW n \in Doc,
         NEW b \in BOOLEAN, CheckIn(u, d, n, b)
  PROVE  TypeOK'
<1>1. d \in Created /\ rev[d].vs \in Series
  BY CreatedRevision DEF CheckIn, TypeOK
<1>2. PICK f \in LatestVersions(rev[d].vs) \ {d} :
        rev' = [rev EXCEPT ![n] = NextVersion(rev[f], b), ![f] = Superseded(rev[f], b)]
  BY DEF CheckIn
<1>3. f \in Created
  BY <1>2 DEF LatestVersions, Versions, TypeOK
<1>4. /\ rev' \in [Doc -> Revision \cup {Absent}]
      /\ Created' = Created \cup {n}
      /\ \A e \in Created : rev'[e].vs = rev[e].vs
      /\ rev'[n].vs = rev[f].vs
  BY <1>2, <1>3, ReplaceTypes DEF CheckIn, Fresh
<1>5. series' = [series EXCEPT ![rev[d].vs] = CheckedIn]
  BY DEF CheckIn
<1>6. /\ series' \in [Series -> SeriesNode \cup {Absent}]
      /\ \A t \in Series : series[t] # Absent => series'[t] # Absent
  BY <1>1, <1>5, NodeTypes, SeriesTypes
<1>7. \A e \in Created' : series'[rev'[e].vs] # Absent
  BY <1>3, <1>4, <1>6, CreatedRevision DEF TypeOK
<1>8. live' \subseteq Created' /\ archive' \subseteq Created'
  BY <1>4 DEF CheckIn, TypeOK
<1>9. QED  BY <1>4, <1>6, <1>7, <1>8, TypeOKParts DEF CheckIn

\* The two calls that add a version without a check-in.
LEMMA NewVersionTypes ==
  ASSUME TypeOK, NEW u \in User, NEW d \in Doc, NEW n \in Doc, NEW b \in BOOLEAN,
         \/ SetContentStream(u, d, n) /\ b = FALSE
         \/ UpdateWithoutCheckInOut(d, n, b)
  PROVE  TypeOK'
<1>1. d \in Created /\ rev[n] = Absent
  BY DEF SetContentStream, UpdateWithoutCheckInOut, TypeOK, Fresh
<1>2. /\ rev' = [rev EXCEPT ![n] = NextVersion(rev[d], b), ![d] = Superseded(rev[d], b)]
      /\ live' = live \cup {n}
      /\ UNCHANGED <<series, archive>>
      /\ Returns("ok")
  BY DEF SetContentStream, UpdateWithoutCheckInOut
<1>3. /\ rev' \in [Doc -> Revision \cup {Absent}]
      /\ Created' = Created \cup {n}
      /\ \A e \in Created : rev'[e].vs = rev[e].vs
      /\ rev'[n].vs = rev[d].vs
  BY <1>1, <1>2, ReplaceTypes
<1>4. \A e \in Created' : series'[rev'[e].vs] # Absent
  BY <1>1, <1>2, <1>3, CreatedRevision DEF TypeOK
<1>5. live' \subseteq Created' /\ archive' \subseteq Created'
  BY <1>2, <1>3 DEF TypeOK
<1>6. series' \in [Series -> SeriesNode \cup {Absent}]
  BY <1>2 DEF TypeOK
<1>7. QED  BY <1>2, <1>3, <1>4, <1>5, <1>6, TypeOKParts

LEMMA FromSourceTypes ==
  ASSUME TypeOK, NEW u \in User, NEW d \in Doc, NEW s \in Series,
         CreateDocumentFromSource(d, s)
  PROVE  TypeOK'
<1>1. /\ series' \in [Series -> SeriesNode \cup {Absent}]
      /\ \A t \in Series : series[t] # Absent => series'[t] # Absent
  BY NodeTypes, SeriesTypes DEF CreateDocumentFromSource
<1>2. UNCHANGED <<live, rev, archive>> /\ Returns("failed")
  BY DEF CreateDocumentFromSource
<1>3. \A e \in Created' : series'[rev'[e].vs] # Absent
  BY <1>1, <1>2, CreatedRevision DEF TypeOK, Created
<1>4. QED  BY <1>1, <1>2, <1>3, TypeOKParts DEF TypeOK, Created

LEMMA RemovalTypes ==
  ASSUME TypeOK, NEW u \in User, NEW d \in Doc, RemovalCall(u, d)
  PROVE  TypeOK'
<1>1. /\ series' = series
      /\ live' \subseteq Created /\ archive' \subseteq Created
      /\ Returns("ok")
  BY DEF RemovalCall, DeleteVersion, DeleteAllVersions, RestoreArchive,
         DestroyArchive, Versions, ArchivesOfVersionSeries, TypeOK
<1>2. /\ rev' \in [Doc -> Revision \cup {Absent}]
      /\ Created' = Created
      /\ \A e \in Created : rev'[e].vs = rev[e].vs
  <2>1. CASE rev' = rev
    BY <2>1 DEF TypeOK, Created
  <2>2. CASE rev' # rev
    <3>1. PICK l \in LatestVersions(rev[d].vs) \ {d} : rev' = MovedUp(l)
      BY <2>2 DEF RemovalCall, DeleteVersion, DeleteAllVersions, RestoreArchive,
                  DestroyArchive
    <3>2. l \in Created
      BY <3>1 DEF LatestVersions, Versions, TypeOK
    <3>3. QED  BY <3>1, <3>2, MovedUpTypes
  <2>3. QED  BY <2>1, <2>2
<1>3. \A e \in Created' : series'[rev'[e].vs] # Absent
  BY <1>1, <1>2 DEF TypeOK
<1>4. series' \in [Series -> SeriesNode \cup {Absent}]
  BY <1>1 DEF TypeOK
<1>5. QED  BY <1>1, <1>2, <1>3, <1>4, TypeOKParts

LEMMA TypeOKNext == TypeOK /\ [Next]_vars => TypeOK'
<1>1. SUFFICES ASSUME TypeOK, [Next]_vars PROVE TypeOK'
  OBVIOUS
<1>2. CASE UNCHANGED vars
  BY <1>1, <1>2 DEF TypeOK, Created, vars
<1>3. ASSUME NEW u \in User, Create(u) PROVE TypeOK'
  BY <1>1, <1>3, CreateDocumentTypes, FromSourceTypes DEF Create
<1>4. ASSUME NEW u \in User, NEW d \in Doc, VersioningCall(u, d) PROVE TypeOK'
  BY <1>1, <1>4, CheckOutTypes, ReturnTypes, CheckInTypes, NewVersionTypes
     DEF VersioningCall
<1>5. ASSUME NEW u \in User, NEW d \in Doc, RemovalCall(u, d) PROVE TypeOK'
  BY <1>1, <1>5, RemovalTypes
<1>6. QED  BY <1>1, <1>2, <1>3, <1>4, <1>5 DEF Next

\* Every node of the repository keeps its type; live and archived documents
\* are stored ones and their series exist.
THEOREM TypeCorrect == Spec => []TypeOK
<1>1. QED  BY TypeOKInit, TypeOKNext, PTL DEF Spec

-----------------------------------------------------------------------------
(***************************************************************************)
(* What a step writes                                                      *)
(*                                                                         *)
(* Whatever the call, the stored documents change in one of three ways.    *)
(* The argument needs two facts about flags, which no call breaks.         *)
(***************************************************************************)

\* A PWC is never flagged latest; a latest version is "latest major" exactly
\* when it is major.
FlagsOK ==
  \A d \in Created : /\ rev[d].pwc => ~rev[d].latest
                     /\ rev[d].latest => rev[d].latestMajor = rev[d].major

\* No caller can pass the version check on a superseded document.
Disciplined == Guided \/ Admin = {}

Keeps == rev' = rev /\ Kept' \subseteq Kept

\* A new PWC, or the first version of a new series.
Adds(n, r) ==
  /\ rev[n] = Absent
  /\ rev' = [rev EXCEPT ![n] = r]
  /\ Kept' \subseteq Kept \cup {n}
  /\ \/ r.pwc /\ ~r.latest
     \/ ~r.pwc /\ r.latest /\ r.latestMajor = r.major /\ series[r.vs] = Absent

\* A new version after a former one, which is the latest unless an
\* administrator set the content of a superseded one.
Succeeds(n, f, b) ==
  /\ rev[n] = Absent
  /\ f \in live
  /\ ~rev[f].pwc
  /\ rev[f].latest \/ (~b /\ ~Disciplined)
  /\ rev' = [rev EXCEPT ![n] = NextVersion(rev[f], b), ![f] = Superseded(rev[f], b)]
  /\ Kept' \subseteq Kept \cup {n}

Shaped ==
  \/ Keeps
  \/ \E n \in Doc, r \in Revision : Adds(n, r)
  \/ \E n \in Doc, f \in Doc, b \in BOOLEAN : Succeeds(n, f, b)

LEMMA CreateShape ==
  ASSUME TypeOK, NEW u \in User, Create(u)
  PROVE  Shaped
<1>1. ASSUME NEW d \in Doc, NEW s \in Series, NEW state \in VersioningState,
             CreateDocument(u, d, s, state)
      PROVE  Shaped
  <2>1. FirstVersion(s, state) \in Revision
    BY RevisionTypes
  <2>2. Adds(d, FirstVersion(s, state))
    BY <1>1 DEF CreateDocument, Fresh, Adds, FirstVersion, Pwc, Version, Kept
  <2>3. QED  BY <2>1, <2>2 DEF Shaped
<1>2. ASSUME NEW d \in Doc, NEW s \in Series, CreateDocumentFromSource(d, s)
      PROVE  Shaped
  BY <1>2 DEF CreateDocumentFromSource, Shaped, Keeps, Kept
<1>3. QED  BY <1>1, <1>2 DEF Create

LEMMA VersioningShape ==
  ASSUME TypeOK, FlagsOK, NEW u \in User, NEW d \in Doc, VersioningCall(u, d)
  PROVE  Shaped
<1>1. ASSUME NEW p \in Doc, CheckOut(u, d, p) PROVE Shaped
  <2>1. d \in Created
    BY <1>1 DEF CheckOut, TypeOK
  <2>2. Pwc(rev[d].vs) \in Revision
    BY <2>1, CreatedRevision, RevisionTypes
  <2>3. Adds(p, Pwc(rev[d].vs))
    BY <1>1 DEF CheckOut, Fresh, Adds, Pwc, Kept
  <2>4. QED  BY <2>2, <2>3 DEF Shaped
<1>2. CASE CancelCheckOut(u, d) \/ CheckInFails(u, d)
  BY <1>2 DEF CancelCheckOut, CheckInFails, Shaped, Keeps, Kept
<1>3. ASSUME NEW n \in Doc, NEW b \in BOOLEAN, CheckIn(u, d, n, b) PROVE Shaped
  <2>1. PICK f \in LatestVersions(rev[d].vs) \ {d} :
          rev' = [rev EXCEPT ![n] = NextVersion(rev[f], b), ![f] = Superseded(rev[f], b)]
    BY <1>3 DEF CheckIn
  <2>2. f \in live /\ f \in Created /\ f \in Doc /\ rev[f].latest
    BY <2>1 DEF LatestVersions, Versions, TypeOK, Created
  <2>3. ~rev[f].pwc
    BY <2>2 DEF FlagsOK
  <2>4. Succeeds(n, f, b)
    BY <1>3, <2>1, <2>2, <2>3 DEF CheckIn, Fresh, Succeeds, Kept
  <2>5. QED  BY <2>2, <2>4 DEF Shaped
<1>4. ASSUME NEW n \in Doc, SetContentStream(u, d, n) PROVE Shaped
  <2>1. Succeeds(n, d, FALSE)
    BY <1>4 DEF SetContentStream, Fresh, Succeeds, Kept, Disciplined, Current,
                AllowableChange
  <2>2. QED  BY <2>1 DEF Shaped
<1>5. ASSUME NEW n \in Doc, NEW b \in BOOLEAN, UpdateWithoutCheckInOut(d, n, b)
      PROVE  Shaped
  <2>1. ~rev[d].pwc
    BY <1>5 DEF UpdateWithoutCheckInOut, FlagsOK, TypeOK
  <2>2. Succeeds(n, d, b)
    BY <1>5, <2>1 DEF UpdateWithoutCheckInOut, Fresh, Succeeds, Kept
  <2>3. QED  BY <2>2 DEF Shaped
<1>6. QED  BY <1>1, <1>2, <1>3, <1>4, <1>5 DEF VersioningCall

\* Flagging again what the view latestVersions lists changes nothing.
LEMMA MovedUpIsStutter ==
  ASSUME TypeOK, FlagsOK, NEW l \in live, rev[l].latest
  PROVE  MovedUp(l) = rev
<1>1. l \in Created /\ l \in Doc /\ rev[l] \in Revision
  BY CreatedRevision DEF TypeOK
<1>2. [rev[l] EXCEPT !.latest = TRUE, !.latestMajor = rev[l].major] = rev[l]
  BY <1>1 DEF FlagsOK, Revision
<1>3. QED  BY <1>1, <1>2 DEF MovedUp, TypeOK

LEMMA RemovalShape ==
  ASSUME TypeOK, FlagsOK, NEW u \in User, NEW d \in Doc, RemovalCall(u, d)
  PROVE  Keeps
<1>1. CASE DeleteVersion(u, d)
  <2>1. rev' = rev
    <3>1. \A l \in LatestVersions(rev[d].vs) : MovedUp(l) = rev
      BY MovedUpIsStutter DEF LatestVersions, Versions
    <3>2. QED  BY <1>1, <3>1 DEF DeleteVersion
  <2>2. QED  BY <1>1, <2>1 DEF DeleteVersion, Keeps, Kept
<1>2. CASE DeleteAllVersions(u, d)
  BY <1>2 DEF DeleteAllVersions, Versions, Keeps, Kept
<1>3. CASE RestoreArchive(d)
  BY <1>3 DEF RestoreArchive, ArchivesOfVersionSeries, Keeps, Kept
<1>4. CASE DestroyArchive(d)
  BY <1>4 DEF DestroyArchive, Keeps, Kept
<1>5. QED  BY <1>1, <1>2, <1>3, <1>4 DEF RemovalCall

LEMMA StepShape ==
  ASSUME TypeOK, FlagsOK, [Next]_vars
  PROVE  Shaped
<1>1. CASE UNCHANGED vars
  BY <1>1 DEF vars, Shaped, Keeps, Kept
<1>2. CASE Next
  BY <1>2, CreateShape, VersioningShape, RemovalShape DEF Next, Shaped
<1>3. QED  BY <1>1, <1>2

-----------------------------------------------------------------------------
(***************************************************************************)
(* The flags, and what is never rewritten                                  *)
(***************************************************************************)

LEMMA FlagsOKInit == Init => FlagsOK
BY DEF Init, FlagsOK, Created

\* What a succession leaves of the stored documents.
LEMMA SuccessionTypes ==
  ASSUME TypeOK, NEW n \in Doc, NEW f \in Doc, NEW b \in BOOLEAN, Succeeds(n, f, b)
  PROVE  /\ f \in Created /\ rev[f] \in Revision
         /\ Created' = Created \cup {n}
         /\ rev'[f] = Superseded(rev[f], b)
         /\ \A d \in Created \ {f} : rev'[d] = rev[d]
         /\ \A d \in Created : rev'[d].vs = rev[d].vs
         /\ rev'[n] = NextVersion(rev[f], b)
         /\ rev'[n].vs = rev[f].vs
<1>1. f \in Created /\ rev[f] \in Revision
  BY CreatedRevision DEF Succeeds, TypeOK
<1>2. /\ rev[n] = Absent
      /\ rev' = [rev EXCEPT ![n] = NextVersion(rev[f], b), ![f] = Superseded(rev[f], b)]
  BY DEF Succeeds
<1>3. QED  BY <1>1, <1>2, ReplaceTypes

LEMMA FlagsOKNext ==
  ASSUME TypeOK, FlagsOK, [Next]_vars
  PROVE  FlagsOK'
<1>1. CASE Keeps
  BY <1>1 DEF Keeps, FlagsOK, Created
<1>2. ASSUME NEW n \in Doc, NEW r \in Revision, Adds(n, r) PROVE FlagsOK'
  <2>1. /\ Created' = Created \cup {n}
        /\ \A d \in Created : rev'[d] = rev[d]
        /\ rev'[n] = r
    BY <1>2, StoreTypes DEF Adds
  <2>2. QED  BY <1>2, <2>1 DEF Adds, FlagsOK
<1>3. ASSUME NEW n \in Doc, NEW f \in Doc, NEW b \in BOOLEAN, Succeeds(n, f, b)
      PROVE  FlagsOK'
  <2>1. f \in Created /\ rev[f] \in Revision
    BY <1>3, SuccessionTypes
  <2>2. /\ Created' = Created \cup {n}
        /\ rev'[f] = Superseded(rev[f], b)
        /\ \A d \in Created \ {f} : rev'[d] = rev[d]
        /\ rev'[n] = NextVersion(rev[f], b)
    BY <1>3, SuccessionTypes
  <2>3. ~Superseded(rev[f], b).latest
    BY <2>1 DEF Superseded, Revision
  <2>4. /\ ~NextVersion(rev[f], b).pwc
        /\ NextVersion(rev[f], b).latestMajor = NextVersion(rev[f], b).major
    BY DEF NextVersion, Version
  <2>5. QED  BY <2>2, <2>3, <2>4 DEF FlagsOK
<1>4. QED  BY <1>1, <1>2, <1>3, StepShape DEF Shaped

THEOREM FlagsCorrect == Spec => [](TypeOK /\ FlagsOK)
<1>1. TypeOK /\ FlagsOK /\ [Next]_vars => TypeOK' /\ FlagsOK'
  BY TypeOKNext, FlagsOKNext
<1>2. QED  BY <1>1, TypeOKInit, FlagsOKInit, PTL DEF Spec

LEMMA SupersededStep ==
  ASSUME TypeOK, FlagsOK, [Next]_vars
  PROVE  \A d \in Created : ~rev[d].latest => rev'[d] = rev[d]
<1>1. CASE Keeps
  BY <1>1 DEF Keeps
<1>2. ASSUME NEW n \in Doc, NEW r \in Revision, Adds(n, r)
      PROVE  \A d \in Created : rev'[d] = rev[d]
  BY <1>2, StoreTypes DEF Adds
<1>3. ASSUME NEW n \in Doc, NEW f \in Doc, NEW b \in BOOLEAN, Succeeds(n, f, b),
             NEW d \in Created, ~rev[d].latest
      PROVE  rev'[d] = rev[d]
  <2>1. f \in Created /\ rev[f] \in Revision
    BY <1>3, SuccessionTypes
  <2>2. /\ rev'[f] = Superseded(rev[f], b)
        /\ d # f => rev'[d] = rev[d]
    BY <1>3, SuccessionTypes
  <2>3. ~b /\ ~rev[f].latest => Superseded(rev[f], b) = rev[f]
    BY <2>1 DEF Superseded, Revision
  <2>4. QED  BY <1>3, <2>2, <2>3 DEF Succeeds
<1>4. QED  BY <1>1, <1>2, <1>3, StepShape DEF Shaped

\* The flags and the label of a superseded version, and of a PWC, are final.
THEOREM SupersededFinal == Spec => SupersededNeverRewritten
<1>1. TypeOK /\ FlagsOK /\ [Next]_vars
        => [\A d \in Created : ~rev[d].latest => rev'[d] = rev[d]]_vars
  BY SupersededStep
<1>2. QED  BY <1>1, FlagsCorrect, PTL DEF Spec, SupersededNeverRewritten

LEMMA RemovalStep ==
  ASSUME TypeOK, FlagsOK, [Next]_vars, live' # live, live' \subseteq live
  PROVE  rev' = rev
<1>1. ASSUME NEW u \in User, Create(u) PROVE FALSE
  BY <1>1 DEF Create, CreateDocument, CreateDocumentFromSource, Fresh, TypeOK, Created
<1>2. ASSUME NEW u \in User, NEW d \in Doc, VersioningCall(u, d) PROVE rev' = rev
  BY <1>2 DEF VersioningCall, CheckOut, CancelCheckOut, CheckIn, CheckInFails,
              SetContentStream, UpdateWithoutCheckInOut, Fresh, TypeOK, Created
<1>3. ASSUME NEW u \in User, NEW d \in Doc, RemovalCall(u, d) PROVE rev' = rev
  BY <1>3, RemovalShape DEF Keeps
<1>4. QED  BY <1>1, <1>2, <1>3 DEF Next, vars

\* Deleting a version never promotes another one.
THEOREM DeleteKeepsRevisions == Spec => DeletePromotesNothing
<1>1. TypeOK /\ FlagsOK /\ [Next]_vars
        => [live' # live /\ live' \subseteq live => rev' = rev]_vars
  BY RemovalStep
<1>2. QED  BY <1>1, FlagsCorrect, PTL DEF Spec, DeletePromotesNothing

-----------------------------------------------------------------------------
(***************************************************************************)
(* Labels, and the latest version                                          *)
(*                                                                         *)
(* The three invariants are inductive together: the successor of the       *)
(* latest version is greater than every other version because the latest   *)
(* one was, and it is alone because the latest one was.                    *)
(***************************************************************************)

Label == Nat \X Nat

LEMMA LessStrict ==
  \A l, m, k \in Label : /\ ~Less(l, l)
                         /\ Less(l, m) /\ Less(m, k) => Less(l, k)
BY DEF Less, Label

LEMMA IncreasedIsGreater ==
  \A l \in Label, b \in BOOLEAN :
    IncreasedVersionLabel(l, b) \in Label /\ Less(l, IncreasedVersionLabel(l, b))
BY DEF Less, Label, IncreasedVersionLabel

LEMMA KeptCreated == TypeOK => Kept \subseteq Created
BY DEF TypeOK, Kept

Lineage == AtMostOneLatest /\ LatestIsNewest /\ LabelsDistinct

LEMMA LineageInit == Init => Lineage
BY DEF Init, Lineage, AtMostOneLatest, LatestIsNewest, LabelsDistinct, Kept

LEMMA LineageKeeps ==
  ASSUME Lineage, Keeps
  PROVE  Lineage'
BY DEF Lineage, AtMostOneLatest, LatestIsNewest, LabelsDistinct, SameSeries, Keeps

LEMMA LineageAdds ==
  ASSUME TypeOK, Lineage, NEW n \in Doc, NEW r \in Revision, Adds(n, r)
  PROVE  Lineage'
<1>1. /\ \A d \in Created : rev'[d] = rev[d]
      /\ rev'[n] = r
  BY StoreTypes DEF Adds
<1>2. /\ Kept' \subseteq Kept \cup {n}
      /\ Kept \subseteq Created
      /\ n \notin Created
  BY KeptCreated DEF Adds, Created
<1>3. ASSUME NEW d \in Kept, ~r.pwc PROVE rev[d].vs # r.vs
  BY <1>2, <1>3 DEF Adds, TypeOK
<1>4. r.pwc => ~r.latest
  BY DEF Adds
<1> HIDE DEF Kept
<1>5. AtMostOneLatest'
  BY <1>1, <1>2, <1>3, <1>4 DEF Lineage, AtMostOneLatest, SameSeries
<1>6. LatestIsNewest'
  BY <1>1, <1>2, <1>3, <1>4 DEF Lineage, LatestIsNewest, SameSeries
<1>7. LabelsDistinct'
  BY <1>1, <1>2, <1>3, <1>4 DEF Lineage, LabelsDistinct, SameSeries
<1>8. QED  BY <1>5, <1>6, <1>7 DEF Lineage

LEMMA LineageSucceeds ==
  ASSUME TypeOK, Lineage, Disciplined,
         NEW n \in Doc, NEW f \in Doc, NEW b \in BOOLEAN, Succeeds(n, f, b)
  PROVE  Lineage'
<1>1. /\ f \in Kept /\ rev[f].latest /\ ~rev[f].pwc
      /\ Kept' \subseteq Kept \cup {n}
      /\ Kept \subseteq Created
      /\ n \notin Created
  BY KeptCreated DEF Succeeds, Created, Kept
<1>2. /\ rev'[f] = Superseded(rev[f], b)
      /\ \A d \in Created \ {f} : rev'[d] = rev[d]
      /\ \A d \in Created : rev'[d].vs = rev[d].vs
      /\ rev'[n] = NextVersion(rev[f], b)
      /\ rev'[n].vs = rev[f].vs
      /\ rev[f] \in Revision
  BY SuccessionTypes
<1>3. /\ ~rev'[f].latest
      /\ rev'[f].label = rev[f].label
      /\ rev'[f].pwc = rev[f].pwc
  BY <1>2 DEF Superseded, Revision
<1>4. /\ rev'[n].label = IncreasedVersionLabel(rev[f].label, b)
      /\ ~rev'[n].pwc
  BY <1>2 DEF NextVersion, Version
<1>5. \A d \in Kept : rev[d].label \in Label
  BY <1>1, CreatedRevision DEF Revision, Label
<1>6. Less(rev[f].label, rev'[n].label) /\ rev'[n].label \in Label
  BY <1>1, <1>4, <1>5, IncreasedIsGreater
<1> HIDE DEF Kept
<1>7. \A d \in Kept : /\ rev'[d].vs = rev[d].vs
                      /\ rev'[d].label = rev[d].label
                      /\ rev'[d].pwc = rev[d].pwc
                      /\ rev'[d].latest <=> rev[d].latest /\ d # f
  BY <1>1, <1>2, <1>3
\* The new version is greater than every version of its series.
<1>8. ASSUME NEW d \in Kept, ~rev[d].pwc, rev[d].vs = rev[f].vs
      PROVE  Less(rev[d].label, rev'[n].label)
  <2>1. CASE d = f
    BY <1>6, <2>1
  <2>2. CASE d # f
    <3>1. Less(rev[d].label, rev[f].label)
      BY <1>1, <1>8, <2>2 DEF Lineage, LatestIsNewest, SameSeries
    <3>2. QED  BY <1>1, <1>5, <1>6, <3>1, LessStrict
  <2>3. QED  BY <2>1, <2>2
\* No other version of its series is latest any more.
<1>9. ASSUME NEW d \in Kept, rev'[d].latest
      PROVE  rev[d].latest /\ rev[d].vs # rev[f].vs
  BY <1>1, <1>7, <1>9 DEF Lineage, AtMostOneLatest, SameSeries
<1>10. AtMostOneLatest'
  BY <1>1, <1>2, <1>7, <1>9 DEF Lineage, AtMostOneLatest, SameSeries
<1>11. LatestIsNewest'
  BY <1>1, <1>2, <1>7, <1>8, <1>9 DEF Lineage, LatestIsNewest, SameSeries
<1>12. LabelsDistinct'
  <2>1. ASSUME NEW d \in Kept, ~rev[d].pwc, rev[d].vs = rev[f].vs
        PROVE  rev[d].label # rev'[n].label
    BY <1>5, <1>6, <1>8, <2>1, LessStrict
  <2>2. QED  BY <1>1, <1>2, <1>7, <2>1 DEF Lineage, LabelsDistinct, SameSeries
<1>13. QED  BY <1>10, <1>11, <1>12 DEF Lineage

LEMMA LineageNext ==
  ASSUME TypeOK, FlagsOK, Disciplined => Lineage, [Next]_vars
  PROVE  Disciplined => Lineage'
BY StepShape, LineageKeeps, LineageAdds, LineageSucceeds DEF Shaped

\* With no administrator, or with clients that follow the allowable actions,
\* the latest version of a series is unique, its label is the greatest, and
\* labels are never reused, across deletions and restores.
THEOREM LineageCorrect == Spec => [](Disciplined => Lineage)
<1>1. TypeOK /\ FlagsOK /\ (Disciplined => Lineage) /\ [Next]_vars
        => (Disciplined => Lineage)'
  <2>1. Disciplined' = Disciplined
    BY DEF Disciplined
  <2>2. QED  BY <2>1, LineageNext
<1>2. QED  BY <1>1, LineageInit, FlagsCorrect, PTL DEF Spec

THEOREM OneLatest == Spec => [](Disciplined => AtMostOneLatest)
<1>1. (Disciplined => Lineage) => (Disciplined => AtMostOneLatest)
  BY DEF Lineage
<1>2. QED  BY <1>1, LineageCorrect, PTL

THEOREM NewestLatest == Spec => [](Disciplined => LatestIsNewest)
<1>1. (Disciplined => Lineage) => (Disciplined => LatestIsNewest)
  BY DEF Lineage
<1>2. QED  BY <1>1, LineageCorrect, PTL

THEOREM DistinctLabels == Spec => [](Disciplined => LabelsDistinct)
<1>1. (Disciplined => Lineage) => (Disciplined => LabelsDistinct)
  BY DEF Lineage
<1>2. QED  BY <1>1, LineageCorrect, PTL

-----------------------------------------------------------------------------
(***************************************************************************)
(* The archive                                                             *)
(***************************************************************************)

LEMMA LiveXorArchivedInit == Init => LiveXorArchived
BY DEF Init, LiveXorArchived

LEMMA LiveXorArchivedNext ==
  ASSUME TypeOK, LiveXorArchived, [Next]_vars
  PROVE  LiveXorArchived'
<1>1. \A n \in Doc : Fresh(n) => n \notin archive
  BY DEF TypeOK, Fresh, Created
<1>2. ASSUME NEW u \in User, Create(u) PROVE LiveXorArchived'
  BY <1>1, <1>2 DEF Create, CreateDocument, CreateDocumentFromSource, LiveXorArchived
<1>3. ASSUME NEW u \in User, NEW d \in Doc, VersioningCall(u, d) PROVE LiveXorArchived'
  BY <1>1, <1>3 DEF VersioningCall, CheckOut, CancelCheckOut, CheckIn, CheckInFails,
                    SetContentStream, UpdateWithoutCheckInOut, LiveXorArchived
<1>4. ASSUME NEW u \in User, NEW d \in Doc, RemovalCall(u, d) PROVE LiveXorArchived'
  BY <1>4 DEF RemovalCall, DeleteVersion, DeleteAllVersions, RestoreArchive,
              DestroyArchive, LiveXorArchived
<1>5. CASE UNCHANGED vars
  BY <1>5 DEF vars, LiveXorArchived
<1>6. QED  BY <1>2, <1>3, <1>4, <1>5 DEF Next

\* A document is in the repository or in the archive, never in both.
THEOREM LiveXorArchivedAlways == Spec => []LiveXorArchived
<1>1. QED  BY TypeCorrect, LiveXorArchivedInit, LiveXorArchivedNext, PTL DEF Spec

-----------------------------------------------------------------------------
(***************************************************************************)
(* The series node and its PWC                                             *)
(***************************************************************************)

\* Whatever is written, a stored document stays stored, in its series, and a
\* PWC stays a PWC.
LEMMA IdentityStep ==
  ASSUME TypeOK, FlagsOK, [Next]_vars
  PROVE  \A d \in Created : /\ d \in Created'
                            /\ rev'[d].vs = rev[d].vs
                            /\ rev'[d].pwc = rev[d].pwc
<1>1. CASE Keeps
  BY <1>1 DEF Keeps, Created
<1>2. ASSUME NEW n \in Doc, NEW r \in Revision, Adds(n, r), NEW d \in Created
      PROVE  d \in Created' /\ rev'[d] = rev[d]
  BY <1>2, StoreTypes DEF Adds
<1>3. ASSUME NEW n \in Doc, NEW f \in Doc, NEW b \in BOOLEAN, Succeeds(n, f, b),
             NEW d \in Created
      PROVE  d \in Created' /\ rev'[d].vs = rev[d].vs /\ rev'[d].pwc = rev[d].pwc
  <2>1. /\ Created' = Created \cup {n}
        /\ rev[f] \in Revision
        /\ rev'[f] = Superseded(rev[f], b)
        /\ \A e \in Created \ {f} : rev'[e] = rev[e]
        /\ \A e \in Created : rev'[e].vs = rev[e].vs
    BY <1>3, SuccessionTypes
  <2>2. Superseded(rev[f], b).pwc = rev[f].pwc
    BY <2>1 DEF Superseded, Revision
  <2>3. QED  BY <2>1, <2>2
<1>4. QED  BY <1>1, <1>2, <1>3, StepShape DEF Shaped

\* A step writes at most one series node: it checks the series in, or it names
\* a PWC it stores.
NodeWritten(s) ==
  \/ series'[s] = series[s]
  \/ series'[s] = CheckedIn
  \/ \E p \in Doc, u \in User :
       /\ series'[s] = CheckedOut(p, u)
       /\ p \in Created'
       /\ rev'[p] = Pwc(s)

LEMMA NodeStep ==
  ASSUME TypeOK, [Next]_vars, NEW s \in Series
  PROVE  NodeWritten(s)
<1>1. ASSUME NEW u \in User, NEW d \in Doc, NEW t \in Series,
             NEW state \in VersioningState, CreateDocument(u, d, t, state)
      PROVE  NodeWritten(s)
  <2>1. series' = [series EXCEPT ![t] = IF state = "CHECKEDOUT" THEN CheckedOut(d, u)
                                                               ELSE CheckedIn]
    BY <1>1 DEF CreateDocument
  <2>2. d \in Created' /\ rev'[d] = FirstVersion(t, state)
    BY <1>1, RevisionTypes, StoreTypes DEF CreateDocument, Fresh
  <2>3. CASE s = t /\ state = "CHECKEDOUT"
    <3>1. series'[s] = CheckedOut(d, u) /\ rev'[d] = Pwc(s)
      BY <2>1, <2>2, <2>3 DEF TypeOK, FirstVersion
    <3>2. QED  BY <2>2, <3>1 DEF NodeWritten
  <2>4. CASE ~(s = t /\ state = "CHECKEDOUT")
    BY <2>1, <2>4 DEF TypeOK, NodeWritten
  <2>5. QED  BY <2>3, <2>4
<1>2. ASSUME NEW u \in User, NEW d \in Doc, NEW p \in Doc, CheckOut(u, d, p)
      PROVE  NodeWritten(s)
  <2>1. rev[d].vs \in Series
    BY <1>2, CreatedRevision DEF CheckOut, TypeOK
  <2>2. /\ series' = [series EXCEPT ![rev[d].vs] = CheckedOut(p, u)]
        /\ rev' = [rev EXCEPT ![p] = Pwc(rev[d].vs)]
        /\ rev[p] = Absent
    BY <1>2 DEF CheckOut, Fresh
  <2>3. p \in Created' /\ rev'[p] = Pwc(rev[d].vs)
    <3>1. Pwc(rev[d].vs) \in Revision
      BY <2>1, RevisionTypes
    <3>2. QED  BY <2>2, <3>1, StoreTypes
  <2>4. CASE s = rev[d].vs
    <3>1. series'[s] = CheckedOut(p, u)
      BY <2>2, <2>4 DEF TypeOK
    <3>2. QED  BY <2>3, <2>4, <3>1 DEF NodeWritten
  <2>5. CASE s # rev[d].vs
    BY <2>2, <2>5 DEF TypeOK, NodeWritten
  <2>6. QED  BY <2>4, <2>5
<1>3. ASSUME NEW u \in User, NEW d \in Doc,
             \/ CancelCheckOut(u, d)
             \/ CheckInFails(u, d)
             \/ \E n \in Doc, b \in BOOLEAN : CheckIn(u, d, n, b)
      PROVE  NodeWritten(s)
  <2>1. series' = [series EXCEPT ![rev[d].vs] = CheckedIn]
    BY <1>3 DEF CancelCheckOut, CheckInFails, CheckIn
  <2>2. QED  BY <2>1 DEF TypeOK, NodeWritten
<1>4. ASSUME NEW u \in User, NEW t \in Series, NEW d \in Doc,
             CreateDocumentFromSource(d, t)
      PROVE  NodeWritten(s)
  BY <1>4 DEF CreateDocumentFromSource, TypeOK, NodeWritten
<1>5. ASSUME NEW u \in User, NEW d \in Doc,
             \/ \E n \in Doc : SetContentStream(u, d, n)
             \/ \E n \in Doc, b \in BOOLEAN : UpdateWithoutCheckInOut(d, n, b)
             \/ RemovalCall(u, d)
      PROVE  NodeWritten(s)
  <2>1. series' = series
    BY <1>5 DEF SetContentStream, UpdateWithoutCheckInOut, RemovalCall, DeleteVersion,
                DeleteAllVersions, RestoreArchive, DestroyArchive
  <2>2. QED  BY <2>1 DEF NodeWritten
<1>6. CASE UNCHANGED vars
  BY <1>6 DEF vars, NodeWritten
<1>7. ASSUME NEW u \in User, Create(u) PROVE NodeWritten(s)
  BY <1>1, <1>4, <1>7 DEF Create
<1>8. ASSUME NEW u \in User, NEW d \in Doc, VersioningCall(u, d) PROVE NodeWritten(s)
  BY <1>2, <1>3, <1>5, <1>8 DEF VersioningCall
<1>9. QED  BY <1>5, <1>6, <1>7, <1>8 DEF Next

LEMMA SeriesNamesPwcNext ==
  ASSUME TypeOK, FlagsOK, SeriesNamesPwc, [Next]_vars
  PROVE  SeriesNamesPwc'
<1> SUFFICES ASSUME NEW s \in Series, series'[s] # Absent, series'[s].out
             PROVE  /\ series'[s].id \in Created'
                    /\ rev'[series'[s].id].pwc
                    /\ rev'[series'[s].id].vs = s
  BY DEF SeriesNamesPwc
<1>1. CASE series'[s] = series[s]
  <2>1. /\ series[s].id \in Created
        /\ rev[series[s].id].pwc
        /\ rev[series[s].id].vs = s
    BY <1>1 DEF SeriesNamesPwc
  <2>2. QED  BY <1>1, <2>1, IdentityStep
<1>2. CASE series'[s] = CheckedIn
  BY <1>2 DEF CheckedIn
<1>3. ASSUME NEW p \in Doc, NEW u \in User, series'[s] = CheckedOut(p, u),
             p \in Created', rev'[p] = Pwc(s)
      PROVE  /\ series'[s].id \in Created'
             /\ rev'[series'[s].id].pwc
             /\ rev'[series'[s].id].vs = s
  BY <1>3 DEF CheckedOut, Pwc
<1>4. QED  BY <1>1, <1>2, <1>3, NodeStep DEF NodeWritten

\* A checked-out series names a PWC of its own, even when administrators check
\* out superseded versions and anyone deletes, restores and destroys.
THEOREM SeriesNamesPwcAlways == Spec => []SeriesNamesPwc
<1>1. Init => SeriesNamesPwc
  BY DEF Init, SeriesNamesPwc
<1>2. TypeOK /\ FlagsOK /\ SeriesNamesPwc /\ [Next]_vars => SeriesNamesPwc'
  BY SeriesNamesPwcNext
<1>3. QED  BY <1>1, <1>2, FlagsCorrect, PTL DEF Spec

-----------------------------------------------------------------------------
(***************************************************************************)
(* Clients that follow the allowable actions                               *)
(***************************************************************************)

\* Checking a series in takes its only PWC away.
LEMMA ReturnKeepsMatch ==
  ASSUME TypeOK, FlagsOK, LiveXorArchived, PwcMatchesSeries, [Next]_vars,
         NEW d \in live, rev[d].pwc,
         series' = [series EXCEPT ![rev[d].vs] = CheckedIn],
         \A e \in Kept' : rev'[e].pwc => e \in Kept \ {d} /\ e \in Created
  PROVE  PwcMatchesSeries'
<1> SUFFICES ASSUME NEW e \in Kept', rev'[e].pwc
             PROVE  series'[rev'[e].vs].out /\ series'[rev'[e].vs].id = e
  BY DEF PwcMatchesSeries
<1>1. e \in Kept \ {d} /\ e \in Created /\ rev'[e].vs = rev[e].vs /\ rev[e].pwc
  BY IdentityStep
<1>2. series[rev[e].vs].out /\ series[rev[e].vs].id = e /\ series[rev[d].vs].id = d
  BY <1>1 DEF PwcMatchesSeries, Kept
<1>3. rev[e].vs \in Series /\ rev[e].vs # rev[d].vs
  BY <1>1, <1>2, CreatedRevision
<1>4. series'[rev[e].vs] = series[rev[e].vs]
  BY <1>3 DEF TypeOK
<1>5. QED  BY <1>1, <1>2, <1>4

LEMMA PwcMatchesSeriesNext ==
  ASSUME Guided, TypeOK, FlagsOK, LiveXorArchived, PwcMatchesSeries, [Next]_vars
  PROVE  PwcMatchesSeries'
<1>0. Kept \subseteq Created
  BY KeptCreated
<1>1. ASSUME UNCHANGED series, \A e \in Kept' : rev'[e].pwc => e \in Kept
      PROVE  PwcMatchesSeries'
  BY <1>0, <1>1, IdentityStep DEF PwcMatchesSeries
<1>2. ASSUME NEW u \in User, Create(u) PROVE PwcMatchesSeries'
  <2>1. ASSUME NEW d \in Doc, NEW s \in Series, NEW state \in VersioningState,
               CreateDocument(u, d, s, state)
        PROVE  PwcMatchesSeries'
    <3>1. /\ \A e \in Created : rev'[e] = rev[e]
          /\ rev'[d] = FirstVersion(s, state)
      BY <2>1, RevisionTypes, StoreTypes DEF CreateDocument, Fresh
    <3>2. Kept' = Kept \cup {d}
      BY <2>1 DEF CreateDocument, Kept
    <3>3. \A e \in Kept : rev[e].vs \in Series /\ rev[e].vs # s
      BY <1>0, <2>1, CreatedRevision DEF CreateDocument, TypeOK
    <3>4. \A e \in Kept : series'[rev[e].vs] = series[rev[e].vs]
      BY <2>1, <3>3 DEF CreateDocument, TypeOK
    <3>5. rev'[d].pwc => state = "CHECKEDOUT" /\ rev'[d].vs = s
      BY <3>1 DEF FirstVersion, Pwc, Version
    <3>6. state = "CHECKEDOUT" => series'[s].out /\ series'[s].id = d
      BY <2>1 DEF CreateDocument, CheckedOut, TypeOK
    <3>7. QED  BY <1>0, <3>1, <3>2, <3>4, <3>5, <3>6 DEF PwcMatchesSeries
  <2>2. ASSUME NEW d \in Doc, NEW s \in Series, CreateDocumentFromSource(d, s)
        PROVE  PwcMatchesSeries'
    <3>1. UNCHANGED rev /\ Kept' = Kept
      BY <2>2 DEF CreateDocumentFromSource, Kept
    <3>2. \A e \in Kept : rev[e].vs \in Series /\ rev[e].vs # s
      BY <1>0, <2>2, CreatedRevision DEF CreateDocumentFromSource, TypeOK
    <3>3. \A e \in Kept : series'[rev[e].vs] = series[rev[e].vs]
      BY <2>2, <3>2 DEF CreateDocumentFromSource, TypeOK
    <3>4. QED  BY <3>1, <3>3 DEF PwcMatchesSeries
  <2>3. QED  BY <1>2, <2>1, <2>2 DEF Create
<1>3. ASSUME NEW u \in User, NEW d \in Doc, VersioningCall(u, d)
      PROVE  PwcMatchesSeries'
  <2>1. ASSUME NEW p \in Doc, CheckOut(u, d, p) PROVE PwcMatchesSeries'
    <3>1. d \in Created /\ rev[d].vs \in Series /\ ~series[rev[d].vs].out
      BY <2>1, CreatedRevision DEF CheckOut, AllowableCheckOut, TypeOK
    <3>2. Pwc(rev[d].vs) \in Revision
      BY <3>1, RevisionTypes
    <3>3. /\ \A e \in Created : rev'[e] = rev[e]
          /\ rev'[p] = Pwc(rev[d].vs)
      BY <2>1, <3>2, StoreTypes DEF CheckOut, Fresh
    <3>4. Kept' = Kept \cup {p}
      BY <2>1 DEF CheckOut, Kept
    <3>5. \A e \in Kept : rev[e].pwc => rev[e].vs # rev[d].vs
      BY <3>1 DEF PwcMatchesSeries
    <3>6. \A e \in Kept : rev[e].pwc => series'[rev[e].vs] = series[rev[e].vs]
      BY <1>0, <2>1, <3>5, CreatedRevision DEF CheckOut, TypeOK
    <3>7. rev'[p].vs = rev[d].vs
      BY <3>3 DEF Pwc
    <3>8. series'[rev[d].vs].out /\ series'[rev[d].vs].id = p
      BY <2>1, <3>1 DEF CheckOut, CheckedOut, TypeOK
    <3>9. QED  BY <1>0, <3>3, <3>4, <3>6, <3>7, <3>8 DEF PwcMatchesSeries
  <2>2. CASE CancelCheckOut(u, d) \/ CheckInFails(u, d)
    <3>1. /\ d \in live /\ rev[d].pwc /\ Kept' = Kept \ {d}
          /\ series' = [series EXCEPT ![rev[d].vs] = CheckedIn]
      BY <2>2 DEF CancelCheckOut, CheckInFails, AllowableReturn, Kept, LiveXorArchived
    <3>2. QED  BY <1>0, <3>1, ReturnKeepsMatch
  <2>3. ASSUME NEW n \in Doc, NEW b \in BOOLEAN, CheckIn(u, d, n, b)
        PROVE  PwcMatchesSeries'
    <3>1. /\ d \in live /\ rev[d].pwc /\ Kept' \subseteq (Kept \ {d}) \cup {n}
          /\ series' = [series EXCEPT ![rev[d].vs] = CheckedIn]
      BY <2>3 DEF CheckIn, AllowableReturn, Kept, LiveXorArchived
    <3>2. PICK f \in LatestVersions(rev[d].vs) \ {d} :
            rev' = [rev EXCEPT ![n] = NextVersion(rev[f], b), ![f] = Superseded(rev[f], b)]
      BY <2>3 DEF CheckIn
    <3>3. f \in Created /\ rev[n] = Absent
      BY <2>3, <3>2 DEF LatestVersions, Versions, TypeOK, CheckIn, Fresh
    <3>4. rev'[n] = NextVersion(rev[f], b)
      <4>1. n \in Doc /\ n # f /\ rev \in [Doc -> Revision \cup {Absent}]
        BY <2>3, <3>3 DEF Created, TypeOK
      <4>2. QED  BY <3>2, <4>1
    <3>5. ~rev'[n].pwc
      BY <3>4 DEF NextVersion, Version
    <3>6. \A e \in Kept' : rev'[e].pwc => e \in Kept \ {d} /\ e \in Created
      BY <1>0, <3>1, <3>5
    <3>7. QED  BY <3>1, <3>6, ReturnKeepsMatch
  <2>4. ASSUME NEW n \in Doc, SetContentStream(u, d, n) PROVE PwcMatchesSeries'
    <3>1. d \in Created /\ rev[n] = Absent /\ UNCHANGED series /\ Kept' = Kept \cup {n}
      BY <2>4 DEF SetContentStream, TypeOK, Fresh, Kept
    <3>2. rev' = [rev EXCEPT ![n] = NextVersion(rev[d], FALSE),
                             ![d] = Superseded(rev[d], FALSE)]
      BY <2>4 DEF SetContentStream
    <3>3. rev'[n] = NextVersion(rev[d], FALSE)
      BY <3>1, <3>2, ReplaceTypes
    <3>4. ~rev'[n].pwc
      BY <3>3 DEF NextVersion, Version
    <3>5. QED  BY <1>1, <3>1, <3>4
  <2>5. QED  BY <1>3, <2>1, <2>2, <2>3, <2>4 DEF VersioningCall, UpdateWithoutCheckInOut
<1>4. ASSUME NEW u \in User, NEW d \in Doc, RemovalCall(u, d)
      PROVE  PwcMatchesSeries'
  <2>1. UNCHANGED series
    BY <1>4 DEF RemovalCall, DeleteVersion, DeleteAllVersions, RestoreArchive, DestroyArchive
  <2>2. QED  BY <1>1, <1>4, <2>1, RemovalShape DEF Keeps
<1>5. CASE UNCHANGED vars
  BY <1>5 DEF vars, PwcMatchesSeries, Kept
<1>6. QED  BY <1>2, <1>3, <1>4, <1>5 DEF Next

\* With these clients a PWC that is live, or archived and may come back, is the
\* one its series names.
THEOREM PwcMatchesSeriesAlways == Spec => [](Guided => PwcMatchesSeries)
<1>1. Init => PwcMatchesSeries
  BY DEF Init, PwcMatchesSeries, Kept
<1>2. TypeOK /\ FlagsOK /\ LiveXorArchived /\ (Guided => PwcMatchesSeries) /\ [Next]_vars
        => (Guided => PwcMatchesSeries)'
  BY PwcMatchesSeriesNext
<1>3. QED  BY <1>1, <1>2, FlagsCorrect, LiveXorArchivedAlways, PTL DEF Spec

LEMMA LockedStep ==
  ASSUME Guided, TypeOK, FlagsOK, [Next]_vars,
         NEW s \in Series, series[s] # Absent, series[s].out, series'[s].out,
         NEW e \in Doc, rev'[e] # rev[e]
  PROVE  rev'[e].vs # s \/ rev'[e].pwc
<1>1. ASSUME NEW u \in User, Create(u) PROVE rev'[e].vs # s
  <2>1. PICK d \in Doc, t \in Series, state \in VersioningState :
          CreateDocument(u, d, t, state)
    BY <1>1 DEF Create, CreateDocumentFromSource
  <2>2. rev' = [rev EXCEPT ![d] = FirstVersion(t, state)] /\ series[t] = Absent
    BY <2>1 DEF CreateDocument
  <2>3. rev'[e] = FirstVersion(t, state)
    BY <2>2 DEF TypeOK
  <2>4. QED  BY <2>2, <2>3 DEF FirstVersion, Pwc, Version
<1>2. ASSUME NEW u \in User, NEW d \in Doc, VersioningCall(u, d)
      PROVE  rev'[e].vs # s \/ rev'[e].pwc
  <2>1. ASSUME NEW p \in Doc, CheckOut(u, d, p) PROVE rev'[e].pwc
    <3>1. rev'[e] = Pwc(rev[d].vs)
      BY <2>1 DEF CheckOut, TypeOK
    <3>2. QED  BY <3>1 DEF Pwc
  <2>2. CASE CancelCheckOut(u, d) \/ CheckInFails(u, d)
    BY <2>2 DEF CancelCheckOut, CheckInFails
  <2>3. ASSUME NEW n \in Doc, NEW b \in BOOLEAN, CheckIn(u, d, n, b)
        PROVE  rev'[e].vs # s
    <3>1. d \in Created /\ rev[d].vs \in Series
      BY <2>3, CreatedRevision DEF CheckIn, TypeOK
    <3>2. rev[d].vs # s
      BY <2>3, <3>1 DEF CheckIn, CheckedIn, TypeOK
    <3>3. PICK f \in LatestVersions(rev[d].vs) \ {d} :
            rev' = [rev EXCEPT ![n] = NextVersion(rev[f], b), ![f] = Superseded(rev[f], b)]
      BY <2>3 DEF CheckIn
    <3>4. f \in Created /\ f \in Doc /\ rev[f].vs = rev[d].vs /\ rev[n] = Absent
      BY <2>3, <3>3 DEF LatestVersions, Versions, TypeOK, CheckIn, Fresh, Created
    <3>5. rev'[f].vs = rev[f].vs /\ rev'[n].vs = rev[f].vs
      BY <3>3, <3>4, ReplaceTypes
    <3>6. e = n \/ e = f
      BY <3>3 DEF TypeOK
    <3>7. QED  BY <3>2, <3>4, <3>5, <3>6
  <2>4. ASSUME NEW n \in Doc, SetContentStream(u, d, n) PROVE rev'[e].vs # s
    <3>1. d \in Created /\ rev[n] = Absent
      BY <2>4 DEF SetContentStream, TypeOK, Fresh
    <3>2. rev[d].vs # s
      BY <2>4 DEF SetContentStream, AllowableChange
    <3>3. rev' = [rev EXCEPT ![n] = NextVersion(rev[d], FALSE),
                             ![d] = Superseded(rev[d], FALSE)]
      BY <2>4 DEF SetContentStream
    <3>4. rev'[d].vs = rev[d].vs /\ rev'[n].vs = rev[d].vs
      BY <3>1, <3>3, ReplaceTypes
    <3>5. e = n \/ e = d
      BY <3>3 DEF TypeOK
    <3>6. QED  BY <3>2, <3>4, <3>5
  <2>5. QED  BY <1>2, <2>1, <2>2, <2>3, <2>4 DEF VersioningCall, UpdateWithoutCheckInOut
<1>3. ASSUME NEW u \in User, NEW d \in Doc, RemovalCall(u, d) PROVE FALSE
  BY <1>3, RemovalShape DEF Keeps
<1>4. CASE UNCHANGED vars
  BY <1>4 DEF vars
<1>5. QED  BY <1>1, <1>2, <1>3, <1>4 DEF Next

\* With these clients a checked-out series changes in its PWC only.
THEOREM GuidedLock == Guided => (Spec => LockedWhileCheckedOut)
<1> SUFFICES ASSUME Guided PROVE Spec => LockedWhileCheckedOut
  OBVIOUS
<1>1. TypeOK /\ FlagsOK /\ [Next]_vars
        => [\A s \in Series :
              series[s] # Absent /\ series[s].out /\ series'[s].out =>
                \A d \in Doc : rev'[d] # rev[d] => rev'[d].vs # s \/ rev'[d].pwc]_vars
  BY LockedStep
<1>2. QED  BY <1>1, FlagsCorrect, PTL DEF Spec, LockedWhileCheckedOut

LEMMA LostPwcStep ==
  ASSUME Guided, TypeOK, PwcMatchesSeries, [Next]_vars,
         NEW s \in Series, series[s] # Absent, series[s].out, series[s].id \notin Kept
  PROVE  series'[s] = series[s]
<1>1. ASSUME NEW u \in User, Create(u) PROVE series'[s] = series[s]
  BY <1>1 DEF Create, CreateDocument, CreateDocumentFromSource, TypeOK
<1>2. ASSUME NEW u \in User, NEW d \in Doc, VersioningCall(u, d)
      PROVE  series'[s] = series[s]
  <2>1. d \in live => rev[d].vs \in Series
    BY CreatedRevision DEF TypeOK
  <2>2. ASSUME NEW p \in Doc, CheckOut(u, d, p) PROVE series'[s] = series[s]
    BY <2>1, <2>2 DEF CheckOut, AllowableCheckOut, TypeOK
  <2>3. ASSUME d \in live, rev[d].pwc, series' = [series EXCEPT ![rev[d].vs] = CheckedIn]
        PROVE  series'[s] = series[s]
    <3>1. series[rev[d].vs].id = d /\ d \in Kept
      BY <2>3 DEF PwcMatchesSeries, Kept
    <3>2. QED  BY <2>1, <2>3, <3>1 DEF TypeOK
  <2>4. QED  BY <1>2, <2>2, <2>3 DEF VersioningCall, CancelCheckOut, CheckInFails, CheckIn,
                 AllowableReturn, SetContentStream, UpdateWithoutCheckInOut
<1>3. ASSUME NEW u \in User, NEW d \in Doc, RemovalCall(u, d) PROVE series'[s] = series[s]
  BY <1>3 DEF RemovalCall, DeleteVersion, DeleteAllVersions, RestoreArchive, DestroyArchive
<1>4. QED  BY <1>1, <1>2, <1>3 DEF Next, vars

\* With these clients a series whose PWC is gone is checked out for good.
THEOREM LostPwcLocks == Guided => (Spec => LostPwcLocksSeries)
<1> SUFFICES ASSUME Guided PROVE Spec => LostPwcLocksSeries
  OBVIOUS
<1>1. TypeOK /\ (Guided => PwcMatchesSeries) /\ [Next]_vars
        => [\A s \in Series :
              series[s] # Absent /\ series[s].out /\ series[s].id \notin Kept
                => series'[s] = series[s]]_vars
  BY LostPwcStep
<1>2. QED  BY <1>1, FlagsCorrect, PwcMatchesSeriesAlways, PTL
           DEF Spec, LostPwcLocksSeries
=============================================================================
