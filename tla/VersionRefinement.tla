--------------------------- MODULE VersionRefinement ---------------------------
(***************************************************************************)
(* For a single caller, not guided and without failures, the steps of      *)
(* VersionThreads add up to the whole calls of VersionSeries.  What        *)
(* VersionSeries sees is the state between calls: it is remembered while a *)
(* call is in progress.                                                    *)
(***************************************************************************)
EXTENDS VersionThreads

VARIABLE seen  \* the state after the last call, and how that call ended

\* A call has ended; one that was refused has changed nothing.
Ended == \E u \in User : call[u] # Rest /\ call'[u] = Rest

Archived(rs) == {r.doc : r \in rs}

Remembers ==
  LET now(how) == [live |-> live', rev |-> rev', series |-> series',
                   archive |-> Archived(records'), outcome |-> how] IN
  seen' = IF ~Ended \/ now(seen.outcome) = seen THEN seen
          ELSE now(IF failed' = failed THEN "ok" ELSE "failed")

SeenInit ==
  /\ Init
  /\ seen = [live |-> live, rev |-> rev, series |-> series,
             archive |-> Archived(records), outcome |-> "ok"]

SeenNext == Next /\ Remembers

SeenSpec == SeenInit /\ [][SeenNext]_<<vars, seen>>

Whole == INSTANCE VersionSeries
           WITH live <- seen.live, rev <- seen.rev, series <- seen.series,
                archive <- seen.archive, outcome <- seen.outcome

\* Step by step, with every intermediate database state, a call has the effect
\* VersionSeries gives it in one step: all that it writes, or nothing, or what
\* is left when it throws half-way (checkIn).
RefinesWholeCalls == Whole!Spec
=============================================================================
