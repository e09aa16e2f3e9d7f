---------------------------- MODULE VersionSeries ----------------------------
(***************************************************************************)
(* The version series of NemakiWare: the documents of a repository, the    *)
(* version-series node that says whether a series is checked out, and the  *)
(* archive database that deleted versions move to.                         *)
(*                                                                         *)
(* One action is one whole CMIS call (or one REST archive call): the       *)
(* guards of VersioningServiceImpl / ObjectServiceImpl followed by the     *)
(* body in ContentServiceImpl.  Calls are atomic here: the database steps  *)
(* of concurrent calls do not interleave.                                  *)
(*                                                                         *)
(* Abstractions: every user has cmis:write on every document, so that what *)
(* is left of a permission check is the private-working-copy rule; every   *)
(* document has a content stream; properties, renditions, policies,        *)
(* relationships and caches are left out.                                  *)
(***************************************************************************)
EXTENDS Integers

CONSTANTS
  Doc,      \* document ids the database may hand out
  Series,   \* version-series ids
  User,     \* callers
  Admin,    \* the callers whose UserItem.isAdmin() is true
  Guided,   \* TRUE: clients issue only the calls listed as allowable actions
  Absent,   \* no such node
  NoDoc,    \* the empty versionSeriesCheckedOutId
  Nobody    \* the empty versionSeriesCheckedOutBy

\* The four shapes of a stored document, by its version flags.
Revision == [vs: Series, latest: BOOLEAN, major: BOOLEAN,
             latestMajor: BOOLEAN, pwc: BOOLEAN, label: Nat \X Nat]

SeriesNode == [out: BOOLEAN, id: Doc \cup {NoDoc}, by: User \cup {Nobody}]

ASSUME VersionSeriesAssumptions ==
  /\ Admin \subseteq User
  /\ Guided \in BOOLEAN
  /\ Absent \notin Revision
  /\ Absent \notin SeriesNode
  /\ NoDoc \notin Doc
  /\ Nobody \notin User

VARIABLES
  live,     \* the ids present in the repository database
  rev,      \* the last revision written under each id; CouchDB keeps it after
            \* a deletion, and restoring an archive reads it back
  series,   \* the version-series nodes
  archive,  \* the ids of the documents in the archive database
  outcome   \* how the last call that wrote ended

vars == <<live, rev, series, archive, outcome>>

Created == {d \in Doc : rev[d] # Absent}

\* The view documentsByVersionSeriesId, PWC included.
Versions(s) == {d \in live : rev[d].vs = s}

\* A mistake the runs catch: the view forgets its filter on the flag.
AllVersionsListed(s) == Versions(s)

\* The view latestVersions: it emits only documents whose flag is set.
LatestVersions(s) == {d \in Versions(s) : rev[d].latest}

-----------------------------------------------------------------------------
(***************************************************************************)
(* Guards                                                                  *)
(***************************************************************************)

\* A private working copy accepts only its owner, or an administrator.
Permitted(u, d) ==
  u \in Admin \/ ~rev[d].pwc \/ series[rev[d].vs].by = u

\* A mistake the runs catch: the version check is not made.
CurrentUnchecked(u, d) == TRUE

\* ExceptionService.versioning: superseded versions are for administrators.
Current(u, d) == rev[d].latest \/ rev[d].pwc \/ u \in Admin

\* What getAllowableActions tells a client it may do.
AllowableCheckOut(d) == ~series[rev[d].vs].out /\ rev[d].latest

\* Mistakes the runs catch: the PWC test is dropped, the lock of a checked-out series is
\* dropped, the version flag is not looked at.
AllowableReturnOfAny(d) == series[rev[d].vs].out
AllowableChangeUnlocked(u, d) ==
  rev[d].latest \/ (rev[d].pwc /\ series[rev[d].vs].by = u)
AllowableChangeOfAny(u, d) ==
  IF rev[d].pwc THEN series[rev[d].vs].by = u ELSE ~series[rev[d].vs].out

AllowableReturn(d) == series[rev[d].vs].out /\ rev[d].pwc
AllowableChange(u, d) ==
  \/ rev[d].latest /\ ~series[rev[d].vs].out
  \/ ~rev[d].latest /\ rev[d].pwc /\ series[rev[d].vs].by = u

Fresh(d) == rev[d] = Absent

-----------------------------------------------------------------------------
(***************************************************************************)
(* What is written                                                         *)
(***************************************************************************)

\* A PWC carries no label; <<0, 0>> stands for the missing one.
NoLabel == <<0, 0>>

Pwc(s) == [vs |-> s, latest |-> FALSE, major |-> FALSE, latestMajor |-> FALSE,
           pwc |-> TRUE, label |-> NoLabel]

Version(s, isMajor, l) ==
  [vs |-> s, latest |-> TRUE, major |-> isMajor, latestMajor |-> isMajor,
   pwc |-> FALSE, label |-> l]

\* A mistake the runs catch: CHECKEDOUT falls through to the MINOR case.
FirstVersionFallsThrough(s, state) ==
  Version(s, state = "MAJOR", IF state = "MAJOR" THEN <<1, 0>> ELSE <<0, 1>>)

\* setVersionProperties: the first version of a new series.
FirstVersion(s, state) ==
  IF state = "CHECKEDOUT"
  THEN Pwc(s)
  ELSE Version(s, state = "MAJOR", IF state = "MAJOR" THEN <<1, 0>> ELSE <<0, 1>>)

\* Mistakes the runs catch: the minor number restarts; the major number is not increased.
LabelRestartingMinor(l, isMajor) ==
  IF isMajor THEN <<l[1] + 1, 0>> ELSE <<l[1], 1>>
LabelKeepingMajor(l, isMajor) ==
  IF isMajor THEN <<l[1], 0>> ELSE <<l[1], l[2] + 1>>

IncreasedVersionLabel(l, isMajor) ==
  IF isMajor THEN <<l[1] + 1, 0>> ELSE <<l[1], l[2] + 1>>

\* updateVersionProperties, the new document ...
NextVersion(former, isMajor) ==
  Version(former.vs, isMajor, IncreasedVersionLabel(former.label, isMajor))

\* ... and the former one, which a minor version leaves "latest major".
Superseded(former, isMajor) ==
  [former EXCEPT !.latest = FALSE,
                 !.latestMajor = IF isMajor THEN FALSE ELSE @]

\* A mistake the runs catch: the two fields are swapped.
CheckedOutSwapped(p, u) == [out |-> TRUE, id |-> u, by |-> p]

CheckedOut(p, u) == [out |-> TRUE, id |-> p, by |-> u]
CheckedIn        == [out |-> FALSE, id |-> NoDoc, by |-> Nobody]

Returns(how) == outcome' = how

-----------------------------------------------------------------------------
(***************************************************************************)
(* Operations                                                              *)
(***************************************************************************)

\* createDocument, with a new series node and, for CHECKEDOUT, its PWC fields.
CreateDocument(u, d, s, state) ==
  /\ Fresh(d)
  /\ series[s] = Absent
  /\ rev' = [rev EXCEPT ![d] = FirstVersion(s, state)]
  /\ live' = live \cup {d}
  /\ series' = [series EXCEPT ![s] =
                  IF state = "CHECKEDOUT" THEN CheckedOut(d, u) ELSE CheckedIn]
  /\ UNCHANGED archive
  /\ Returns("ok")

\* createDocumentFromSource makes the new series node, then "updates" the copy
\* before it is created: the update looks for a document without an id and
\* throws, so that only the series node is left.
CreateDocumentFromSource(src, s) ==
  /\ src \in live
  /\ series[s] = Absent
  /\ series' = [series EXCEPT ![s] = CheckedIn]
  /\ UNCHANGED <<live, rev, archive>>
  /\ Returns("failed")

\* constraintAlreadyCheckedOut lets a PWC through, so it can be checked out
\* itself.
CheckOut(u, d, p) ==
  LET s == rev[d].vs IN
  /\ d \in live
  /\ Guided => AllowableCheckOut(d)
  /\ Permitted(u, d)
  /\ series[s].out => rev[d].pwc
  /\ Current(u, d)
  /\ Fresh(p)
  /\ rev' = [rev EXCEPT ![p] = Pwc(s)]
  /\ live' = live \cup {p}
  /\ series' = [series EXCEPT ![s] = CheckedOut(p, u)]
  /\ UNCHANGED archive
  /\ Returns("ok")

\* Deletes the document it is given, PWC or not, without archiving it.
CancelCheckOut(u, d) ==
  /\ d \in live
  /\ Guided => AllowableReturn(d)
  /\ Permitted(u, d)
  /\ live' = live \ {d}
  /\ series' = [series EXCEPT ![rev[d].vs] = CheckedIn]
  /\ UNCHANGED <<rev, archive>>
  /\ Returns("ok")

\* checkIn reads the latest version, runs cancelCheckOut on the PWC, then
\* creates version n after the one it read.  The view may list several.
CheckIn(u, d, n, isMajor) ==
  /\ d \in live
  /\ Guided => AllowableReturn(d)
  /\ Permitted(u, d)
  /\ Fresh(n)
  /\ \E former \in LatestVersions(rev[d].vs) \ {d} :
       rev' = [rev EXCEPT ![n] = NextVersion(rev[former], isMajor),
                          ![former] = Superseded(rev[former], isMajor)]
  /\ live' = (live \ {d}) \cup {n}
  /\ series' = [series EXCEPT ![rev[d].vs] = CheckedIn]
  /\ UNCHANGED archive
  /\ Returns("ok")

\* When there is no latest version, or it is the document being checked in,
\* the call throws after cancelCheckOut has already deleted the document.
CheckInFails(u, d) ==
  /\ d \in live
  /\ Guided => AllowableReturn(d)
  /\ Permitted(u, d)
  /\ LatestVersions(rev[d].vs) = {} \/ rev[d].latest
  /\ live' = live \ {d}
  /\ series' = [series EXCEPT ![rev[d].vs] = CheckedIn]
  /\ UNCHANGED <<rev, archive>>
  /\ Returns("failed")

\* setContentStream on a version makes a minor version (on a PWC it replaces
\* the attachment, which is not part of this state).
SetContentStream(u, d, n) ==
  /\ d \in live
  /\ ~rev[d].pwc
  /\ Guided => AllowableChange(u, d)
  /\ Permitted(u, d)
  /\ Current(u, d)
  /\ Fresh(n)
  /\ rev' = [rev EXCEPT ![n] = NextVersion(rev[d], FALSE),
                        ![d] = Superseded(rev[d], FALSE)]
  /\ live' = live \cup {n}
  /\ UNCHANGED <<series, archive>>
  /\ Returns("ok")

\* saveAllVersions, a REST call that consults no allowable actions, adds a
\* version to a document it finds among the children of a folder: a latest one.
UpdateWithoutCheckInOut(d, n, isMajor) ==
  /\ d \in live
  /\ rev[d].latest
  /\ ~Guided
  /\ Fresh(n)
  /\ rev' = [rev EXCEPT ![n] = NextVersion(rev[d], isMajor),
                        ![d] = Superseded(rev[d], isMajor)]
  /\ live' = live \cup {n}
  /\ UNCHANGED <<series, archive>>
  /\ Returns("ok")

\* "Move up the latest version": whatever the view latestVersions still lists
\* in the series is flagged again.
MovedUp(l) == [rev EXCEPT ![l] = [@ EXCEPT !.latest = TRUE, !.latestMajor = rev[l].major]]

\* deleteObject with allVersions = false.
DeleteVersion(u, d) ==
  LET rest == LatestVersions(rev[d].vs) \ {d} IN
  /\ d \in live
  /\ Guided => AllowableChange(u, d)
  /\ Permitted(u, d)
  /\ live' = live \ {d}
  /\ archive' = archive \cup {d}
  /\ \/ rest = {} /\ UNCHANGED rev
     \/ \E l \in rest : rev' = MovedUp(l)
  /\ UNCHANGED series
  /\ Returns("ok")

\* deleteObject with allVersions = true: the whole series, PWC included.
DeleteAllVersions(u, d) ==
  LET versions == Versions(rev[d].vs) IN
  /\ d \in live
  /\ Guided => AllowableChange(u, d)
  /\ Permitted(u, d)
  /\ live' = live \ versions
  /\ archive' = archive \cup versions
  /\ UNCHANGED <<rev, series>>
  /\ Returns("ok")

\* The archives of a series are restored, and destroyed, together.
ArchivesOfVersionSeries(s) == {d \in archive : rev[d].vs = s}

\* A mistake the runs catch: the archives are not deleted after the restore.
RestoreKeepingArchive(d) ==
  /\ d \in archive
  /\ live' = live \cup ArchivesOfVersionSeries(rev[d].vs)
  /\ UNCHANGED <<rev, series, archive>>
  /\ Returns("ok")

RestoreArchive(d) ==
  LET versions == ArchivesOfVersionSeries(rev[d].vs) IN
  /\ d \in archive
  /\ live' = live \cup versions
  /\ archive' = archive \ versions
  /\ UNCHANGED <<rev, series>>
  /\ Returns("ok")

DestroyArchive(d) ==
  /\ d \in archive
  /\ archive' = archive \ ArchivesOfVersionSeries(rev[d].vs)
  /\ UNCHANGED <<live, rev, series>>
  /\ Returns("ok")

-----------------------------------------------------------------------------
VersioningState == {"MAJOR", "MINOR", "CHECKEDOUT"}

Init ==
  /\ live = {}
  /\ rev = [d \in Doc |-> Absent]
  /\ series = [s \in Series |-> Absent]
  /\ archive = {}
  /\ outcome = "ok"

Create(u) ==
  \E d \in Doc, s \in Series :
    \/ \E state \in VersioningState : CreateDocument(u, d, s, state)
    \/ CreateDocumentFromSource(d, s)

VersioningCall(u, d) ==
  \/ \E p \in Doc : CheckOut(u, d, p)
  \/ CancelCheckOut(u, d)
  \/ \E n \in Doc, isMajor \in BOOLEAN :
       CheckIn(u, d, n, isMajor) \/ UpdateWithoutCheckInOut(d, n, isMajor)
  \/ CheckInFails(u, d)
  \/ \E n \in Doc : SetContentStream(u, d, n)

RemovalCall(u, d) ==
  \/ DeleteVersion(u, d)
  \/ DeleteAllVersions(u, d)
  \/ RestoreArchive(d)
  \/ DestroyArchive(d)

Next == \E u \in User :
          \/ Create(u)
          \/ \E d \in Doc : VersioningCall(u, d) \/ RemovalCall(u, d)

Spec == Init /\ [][Next]_vars

-----------------------------------------------------------------------------
(***************************************************************************)
(* Properties                                                              *)
(***************************************************************************)

\* Every node has its type, and only stored documents are live or archived.
TypeOK ==
  /\ rev \in [Doc -> Revision \cup {Absent}]
  /\ series \in [Series -> SeriesNode \cup {Absent}]
  /\ live \subseteq Created
  /\ archive \subseteq Created
  /\ \A d \in Created : series[rev[d].vs] # Absent
  /\ outcome \in {"ok", "failed"}

\* What a restore may bring back counts as much as what is there.
Kept == live \cup archive

SameSeries(d, e) == rev[d].vs = rev[e].vs

Less(l, m) == l[1] < m[1] \/ (l[1] = m[1] /\ l[2] < m[2])

\* A document is never in the repository and in the archive at once, so that
\* restoring it never meets a live document of the same id.
LiveXorArchived == live \cap archive = {}

\* A series never has two latest versions, counting the ones a restore would
\* bring back (the DAO logs "The latest version of [..] is duplicate.").
AtMostOneLatest ==
  \A d, e \in Kept : SameSeries(d, e) /\ rev[d].latest /\ rev[e].latest => d = e

\* The latest version of a series carries a greater label than every other
\* version kept, over all interleavings of check-ins, new content streams,
\* deletions and restores.
LatestIsNewest ==
  \A d, e \in Kept :
    SameSeries(d, e) /\ ~rev[d].pwc /\ rev[e].latest /\ d # e
      => Less(rev[d].label, rev[e].label)

\* No two versions of a series share a label.
LabelsDistinct ==
  \A d, e \in Kept :
    SameSeries(d, e) /\ ~rev[d].pwc /\ ~rev[e].pwc /\ d # e
      => rev[d].label # rev[e].label

\* While a series is checked out its node names a PWC of that same series.
SeriesNamesPwc ==
  \A s \in Series : series[s] # Absent /\ series[s].out =>
    /\ series[s].id \in Created
    /\ rev[series[s].id].pwc
    /\ rev[series[s].id].vs = s

\* A version that has been superseded is never written again, whatever the
\* caller may do; a PWC is never turned into a version in place either.
SupersededNeverRewritten ==
  [][\A d \in Created : ~rev[d].latest => rev'[d] = rev[d]]_vars

\* The write at the end of deleteDocument that should "move up" a version
\* never changes a stored document: the view it asks lists only documents
\* whose flags are already what it writes.
DeletePromotesNothing ==
  [][live' # live /\ live' \subseteq live => rev' = rev]_vars

\* With clients that follow the allowable actions: a PWC that is kept is the
\* one its series names, and the series is checked out.
PwcMatchesSeries ==
  \A d \in Kept : rev[d].pwc => series[rev[d].vs].out /\ series[rev[d].vs].id = d

\* With the same clients: nothing but the PWC of a series changes, and no
\* version is added, as long as the series stays checked out
\* ("All versions except for PWC are locked when checked out.").
LockedWhileCheckedOut ==
  [][\A s \in Series :
       series[s] # Absent /\ series[s].out /\ series'[s].out =>
         \A d \in Doc : rev'[d] # rev[d] => rev'[d].vs # s \/ rev'[d].pwc]_vars

\* With the same clients: once the PWC of a checked-out series is neither live
\* nor archived (deleted, and its archive destroyed), the series stays checked
\* out for good: deleteDocument does not touch the series node.
LostPwcLocksSeries ==
  [][\A s \in Series :
       series[s] # Absent /\ series[s].out /\ series[s].id \notin Kept
         => series'[s] = series[s]]_vars

-----------------------------------------------------------------------------
(***************************************************************************)
(* What comments and messages of the code claim and the code does not keep *)
(***************************************************************************)

\* ContentServiceImpl.deleteDocument, "Move up the latest version": deleting the
\* latest version of a series makes one of the versions that are left the latest.
LatestMovesUp ==
  [][\A u \in User, d \in Doc, s \in Series :
       DeleteVersion(u, d) /\ rev[d].latest /\ rev[d].vs = s =>
         LatestVersions(s)' # {} \/ \A e \in Versions(s)' : rev'[e].pwc]_vars
=============================================================================
