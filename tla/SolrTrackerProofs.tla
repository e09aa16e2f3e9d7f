--------------------------- MODULE SolrTrackerProofs ---------------------------
(***************************************************************************)
(* Proofs about SolrTracker, for every number of callers, contents and     *)
(* changes, every limit and every choice of failures: what the token and   *)
(* the index say, then that it implements ChangeFeed, and what follows for *)
(* a reader of the index.                                                  *)
(***************************************************************************)
EXTENDS SolrTracker, FiniteSetTheorems, TLAPS

-----------------------------------------------------------------------------
(***************************************************************************)
(* The order of the change log                                             *)
(***************************************************************************)

LEMMA BeforeOrder ==
  /\ \A d \in Change : ~Before(d, d)
  /\ \A d, e, f \in Change : Before(d, e) /\ Before(e, f) => Before(d, f)
  /\ \A d, e, f \in Change : ~Before(e, d) /\ Before(e, f) => Before(d, f)
  /\ \A d, e, f \in Change : Before(d, e) /\ ~Before(f, e) => Before(d, f)
  /\ \A d, e \in Change : Before(d, e) => ~Before(e, d)
<1>1. \A d \in Change : d.t \in Nat /\ d.id \in Nat
  BY SolrTrackerAssumptions DEF Change
<1>2. QED  BY <1>1 DEF Before

\* A finite set of changes has a last one: the changes after an element are
\* fewer than those after any element before it.
LEMMA LastExists ==
  ASSUME NEW S, S \subseteq Change, IsFiniteSet(S), S # {}
  PROVE  \E e \in S : \A d \in S : ~Before(e, d)
<1> DEFINE After(e) == {d \in S : Before(e, d)}
           Tails == {After(e) : e \in S}
<1>1. Tails \subseteq FiniteSubsetsOf(S)
  <2>1. ASSUME NEW e \in S  PROVE After(e) \in FiniteSubsetsOf(S)
    <3>1. After(e) \in SUBSET S
      OBVIOUS
    <3>2. IsFiniteSet(After(e))
      BY <3>1, FS_Subset
    <3>3. QED  BY <3>1, <3>2 DEF FiniteSubsetsOf
  <2>2. QED  BY <2>1
<1>2. Tails # {}
  <2>1. PICK e \in S : TRUE
    OBVIOUS
  <2>2. After(e) \in Tails
    OBVIOUS
  <2>3. QED  BY <2>2
<1>3. PICK T \in Tails : \A U \in Tails : <<U, T>> \notin StrictSubsetOrdering(S)
  BY <1>1, <1>2, WFMin, FS_StrictSubsetOrderingWellFounded
<1>4. PICK e \in S : T = After(e)
  BY <1>3
<1>5. SUFFICES ASSUME NEW d \in S, Before(e, d)
               PROVE  FALSE
  BY <1>4
<1>6. After(d) \in Tails
  OBVIOUS
<1>7. After(d) \subseteq After(e)
  BY <1>5, BeforeOrder
<1>8. d \in After(e) /\ d \notin After(d)
  BY <1>5, BeforeOrder
<1>9. After(d) \subseteq S /\ After(e) \subseteq S
  OBVIOUS
<1>10. <<After(d), After(e)>> \in StrictSubsetOrdering(S)
  <2> HIDE DEF After
  <2>1. After(d) # After(e)
    BY <1>8
  <2>2. QED  BY <1>7, <1>9, <2>1 DEF StrictSubsetOrdering
<1>11. QED  BY <1>3, <1>4, <1>6, <1>10

-----------------------------------------------------------------------------
(***************************************************************************)
(* Type correctness                                                        *)
(***************************************************************************)

\* The log is finite, and between two runs nothing is left of the last one.
Typed == TypeOK /\ IsFiniteSet(log) /\ (run.step = "idle" => run = Idle)

LEMMA RestTyped == Rest \in Op /\ Rest.step = "idle"
BY DEF Rest, Op

LEMMA TypedInit == Init => Typed
<1>1. SUFFICES ASSUME Init  PROVE Typed
  OBVIOUS
<1>2. Idle \in [step : {"idle", "ask", "index"}, full : BOOLEAN,
                by : Caller \cup {Nobody}, todo : SUBSET log,
                got : [obj : Obj, version : Nat] \cup {Nothing},
                next : log \cup {NoToken}]
  BY DEF Idle
<1>3. Idle.step = "idle" /\ \A c \in Caller : Idle.by # c
  BY SolrTrackerAssumptions DEF Idle
<1>4. op \in [Caller -> Op] /\ \A c \in Caller : op[c].step = "idle"
  BY <1>1, RestTyped DEF Init
<1>5. QED
  BY <1>1, <1>2, <1>3, <1>4, SolrTrackerAssumptions, FS_EmptySet DEF Init, Typed, TypeOK

\* The callers' own steps.
LEMMA BeginTyped ==
  ASSUME Typed, NEW c \in Caller, NEW o \in Obj, NEW k \in Kinds,
         NEW asks \in Indexing, Begin(c, o, k, asks)
  PROVE  Typed'
<1>1. op'[c] \in Op /\ op'[c].obj \in Obj /\ op'[c].kind \in Kinds
      /\ op'[c].step = "stamp"
  BY SolrTrackerAssumptions DEF Begin, Typed, TypeOK, Op
<1>2. op' \in [Caller -> Op] /\ \A b \in Caller \ {c} : op'[b] = op[b]
  BY <1>1 DEF Begin, Typed, TypeOK
<1>3. live' \subseteq Obj /\ version' \in [Obj -> Nat]
  BY DEF Begin, Typed, TypeOK
<1>4. run.by # c
  BY DEF Begin, Typed, TypeOK
<1>5. QED  BY <1>1, <1>2, <1>3, <1>4 DEF Begin, Typed, TypeOK, tracker

LEMMA StampTyped ==
  ASSUME Typed, NEW c \in Caller, Stamp(c)
  PROVE  Typed'
<1>1. op'[c] \in Op /\ op'[c].obj \in Obj /\ op'[c].kind \in Kinds
      /\ op'[c].step = "append"
  <2>1. /\ op[c] \in Op /\ op[c].obj \in Obj /\ op[c].kind \in Kinds /\ clock \in Nat
    BY DEF Stamp, Typed, TypeOK
  <2>2. op'[c] = [op[c] EXCEPT !.step = "append", !.t = clock]
    BY DEF Stamp, Typed, TypeOK
  <2>3. QED  BY <2>1, <2>2 DEF Op
<1>2. op' \in [Caller -> Op] /\ \A b \in Caller \ {c} : op'[b] = op[b]
  BY <1>1 DEF Stamp, Typed, TypeOK
<1>3. run.by # c
  BY DEF Stamp, Typed, TypeOK
<1>4. QED  BY <1>1, <1>2, <1>3 DEF Stamp, Typed, TypeOK, core, tracker

LEMMA ReturnsTyped ==
  ASSUME Typed, NEW c \in Caller, op[c].step # "idle"
  PROVE  /\ Returns(c) \in Op
         /\ Returns(c).step \in {"idle", "index"}
         /\ Returns(c).step # "idle" => Returns(c).obj \in Obj /\ Returns(c).kind \in Kinds
BY RestTyped DEF Returns, Typed, TypeOK, Op

LEMMA AppendTyped ==
  ASSUME Typed, NEW c \in Caller, Append(c)
  PROVE  Typed'
<1>1. op[c] \in Op /\ op[c].obj \in Obj /\ op[c].kind \in Kinds
  BY DEF Append, Typed, TypeOK
<1>2. PICK i \in Ids : log' = log \cup {[id |-> i, t |-> op[c].t, obj |-> op[c].obj,
                                         kind |-> op[c].kind]}
  BY DEF Append
<1>3. [id |-> i, t |-> op[c].t, obj |-> op[c].obj, kind |-> op[c].kind] \in Change
  BY <1>1 DEF Change, Op
<1>4. log' \subseteq Change /\ log \subseteq log' /\ IsFiniteSet(log')
  <2> DEFINE added == [id |-> i, t |-> op[c].t, obj |-> op[c].obj, kind |-> op[c].kind]
  <2>1. added \in Change /\ log' = log \cup {added}
    BY <1>2, <1>3
  <2> HIDE DEF added
  <2>2. IsFiniteSet(log \cup {added})
    BY FS_AddElement DEF Typed
  <2>3. QED  BY <2>1, <2>2 DEF Typed, TypeOK
<1>5. /\ op'[c] \in Op /\ op'[c].step \in {"remove", "idle", "index"}
      /\ op'[c].step # "idle" => op'[c].obj \in Obj /\ op'[c].kind \in Kinds
  BY <1>1, ReturnsTyped DEF Append, Typed, TypeOK, Op
<1>6. op' \in [Caller -> Op] /\ \A b \in Caller \ {c} : op'[b] = op[b]
  BY <1>5 DEF Append, Typed, TypeOK
<1>7. run.by # c
  BY DEF Append, Typed, TypeOK
<1>8. ordered' \in BOOLEAN
  BY DEF Append, Typed, TypeOK
<1>9. QED  BY <1>4, <1>5, <1>6, <1>7, <1>8 DEF Append, Typed, TypeOK, tracker

LEMMA RemoveTyped ==
  ASSUME Typed, NEW c \in Caller, Remove(c)
  PROVE  Typed'
<1>1. /\ op'[c] \in Op /\ op'[c].step \in {"idle", "index"}
      /\ op'[c].step # "idle" => op'[c].obj \in Obj /\ op'[c].kind \in Kinds
  BY ReturnsTyped DEF Remove, Typed, TypeOK
<1>2. op' \in [Caller -> Op] /\ \A b \in Caller \ {c} : op'[b] = op[b]
  BY <1>1 DEF Remove, Typed, TypeOK
<1>3. run.by # c /\ live' \subseteq Obj
  BY DEF Remove, Typed, TypeOK
<1>4. QED  BY <1>1, <1>2, <1>3 DEF Remove, Typed, TypeOK, tracker

\* A run, as TypeOK describes it.
Run == [step : {"idle", "ask", "index"}, full : BOOLEAN,
        by : Caller \cup {Nobody}, todo : SUBSET log,
        got : [obj : Obj, version : Nat] \cup {Nothing}, next : log \cup {NoToken}]

LEMMA IdleTyped == Idle \in Run /\ Idle.step = "idle" /\ Idle.by = Nobody
BY DEF Idle, Run

LEMMA CallIndexingTyped ==
  ASSUME Typed, NEW c \in Caller, CallIndexing(c)
  PROVE  Typed'
<1>1. run' \in Run /\ run'.by = c /\ run'.step = "ask"
  BY IdleTyped DEF CallIndexing, Run
<1>2. /\ op'[c] \in Op /\ op'[c].step = "wait" /\ op'[c].obj \in Obj
      /\ op'[c].kind \in Kinds
  BY DEF CallIndexing, Typed, TypeOK, Op
<1>3. op' \in [Caller -> Op] /\ \A b \in Caller \ {c} : op'[b] = op[b]
  BY <1>2 DEF CallIndexing, Typed, TypeOK
<1>4. \A b \in Caller : op[b].step # "wait"
  BY IdleTyped, SolrTrackerAssumptions DEF CallIndexing, Typed, TypeOK
<1>5. QED  BY <1>1, <1>2, <1>3, <1>4 DEF CallIndexing, Typed, TypeOK, core, Run

\* A run that nobody asked for starts.
LEMMA StartsTyped ==
  ASSUME Typed, run.step = "idle", run' \in Run, run'.by = Nobody, run'.step = "ask",
         fullDue' \in BOOLEAN, UNCHANGED <<core, op, index, token, given, budget>>
  PROVE  Typed'
BY IdleTyped DEF Typed, TypeOK, core, Run

LEMMA ScheduleTyped == Typed /\ Schedule => Typed'
<1>1. SUFFICES ASSUME Typed, Schedule  PROVE Typed'
  OBVIOUS
<1>2. run' \in Run /\ run'.by = Nobody /\ run'.step = "ask"
  BY <1>1 DEF Schedule, Run, Idle
<1>3. QED  BY <1>1, <1>2, StartsTyped DEF Schedule, Typed, TypeOK

LEMMA StartFullTyped == Typed /\ StartFull => Typed'
<1>1. SUFFICES ASSUME Typed, StartFull  PROVE Typed'
  OBVIOUS
<1>2. run' \in Run /\ run'.by = Nobody /\ run'.step = "ask"
  BY <1>1 DEF StartFull, Run, Idle
<1>3. QED  BY <1>1, <1>2, StartsTyped DEF StartFull, Typed, TypeOK

LEMMA InitCoreTyped == ASSUME Typed, NEW action, InitCore(action)  PROVE Typed'
<1>1. index' \in [Obj -> Nat] /\ token' \in log \cup {NoToken}
  BY DEF InitCore, Typed, TypeOK
<1>2. budget' \in Nat /\ fullDue' \in BOOLEAN
  BY DEF InitCore, Typed, TypeOK
<1>3. QED  BY <1>1, <1>2 DEF InitCore, Typed, TypeOK, core

\* The run in progress ends, and the caller that asked for it goes on.
LEMMA RunEndsTyped ==
  ASSUME Typed, RunEnds
  PROVE  /\ run' = Idle
         /\ op' \in [Caller -> Op]
         /\ \A c \in Caller : op'[c].step # "wait"
         /\ \A c \in Caller : op'[c].step # "idle" => op'[c].obj \in Obj /\ op'[c].kind \in Kinds
<1>1. CASE run.by = Nobody
  BY <1>1, SolrTrackerAssumptions DEF RunEnds, Typed, TypeOK
<1>2. CASE run.by # Nobody
  <2>1. run.by \in Caller /\ op[run.by].step = "wait"
    BY <1>2 DEF Typed, TypeOK
  <2>2. /\ op'[run.by] \in Op /\ op'[run.by].step \in {"remove", "idle"}
        /\ op'[run.by].step # "idle" => op'[run.by].obj \in Obj /\ op'[run.by].kind \in Kinds
    BY <1>2, <2>1, RestTyped DEF RunEnds, Resume, Typed, TypeOK, Op
  <2>3. op' \in [Caller -> Op] /\ \A b \in Caller \ {run.by} : op'[b] = op[b]
    BY <1>2, <2>1, <2>2 DEF RunEnds, Resume, Typed, TypeOK
  <2>4. QED  BY <2>1, <2>2, <2>3 DEF RunEnds, Typed, TypeOK
<1>3. QED  BY <1>1, <1>2

\* A fault spends the budget only if there is some left.
LEMMA SpendsTyped ==
  ASSUME Typed, NEW fault, NEW failed \in Outcome(fault), Spends(failed)
  PROVE  budget' \in Nat
<1>1. failed => budget > 0
  BY DEF Outcome, Occurs
<1>2. budget \in Nat
  BY DEF Typed, TypeOK
<1>3. QED  BY <1>1, <1>2 DEF Spends

\* Two reads may fail for the price of one.
LEMMA SpendsTwiceTyped ==
  ASSUME Typed, NEW fault, NEW failed1 \in Outcome(fault), NEW failed2 \in Outcome(fault),
         Spends(failed1 \/ failed2)
  PROVE  budget' \in Nat
<1>1. failed1 \/ failed2 => budget > 0
  BY DEF Outcome, Occurs
<1>2. budget \in Nat
  BY DEF Typed, TypeOK
<1>3. CASE failed1 \/ failed2
  BY <1>1, <1>2, <1>3 DEF Spends
<1>4. CASE ~(failed1 \/ failed2)
  BY <1>2, <1>4 DEF Spends
<1>5. QED  BY <1>3, <1>4

LEMMA KeptTokenTyped ==
  ASSUME Typed, NEW failed1, NEW failed2
  PROVE  KeptToken(failed1, failed2) \in log \cup {NoToken}
BY DEF KeptToken, Typed, TypeOK

LEMMA EventsFound ==
  \A failed1, failed2 :
    /\ Received(failed1) \subseteq log
    /\ NewEvents(failed1, failed2) \subseteq Received(failed1)
    /\ ExtractChangeEvent(NewEvents(failed1, failed2)) \subseteq NewEvents(failed1, failed2)
BY DEF Received, Answer, NewEvents, Events, ExtractChangeEvent

LEMMA AskNothingNewTyped ==
  ASSUME Typed, NEW failed1 \in Outcome("read"), NEW failed2 \in Outcome("read"),
         AskNothingNew(failed1, failed2)
  PROVE  Typed'
<1>1. token' \in log \cup {NoToken} /\ budget' \in Nat
  BY KeptTokenTyped, SpendsTwiceTyped DEF AskNothingNew
<1>2. RunEnds
  BY DEF AskNothingNew
<1>3. QED
  BY <1>1, <1>2, RunEndsTyped, IdleTyped, SolrTrackerAssumptions
  DEF AskNothingNew, Typed, TypeOK, core, Run

LEMMA AskChangesTyped ==
  ASSUME Typed, NEW failed1 \in Outcome("read"), NEW failed2 \in Outcome("read"),
         AskChanges(failed1, failed2)
  PROVE  Typed'
<1>1. token' \in log \cup {NoToken} /\ budget' \in Nat
  BY KeptTokenTyped, SpendsTwiceTyped DEF AskChanges
<1>2. PICK last \in Received(failed1) :
        run' = [run EXCEPT !.step = "index", !.next = last,
                  !.todo = ExtractChangeEvent(NewEvents(failed1, failed2))]
  BY DEF AskChanges
<1>3. run' \in Run /\ run'.by = run.by /\ run'.step = "index" /\ run'.next \in log
  BY <1>2, EventsFound DEF Typed, TypeOK, Run
<1>4. given' \subseteq log
  BY EventsFound DEF AskChanges, Typed, TypeOK
<1>5. QED  BY <1>1, <1>3, <1>4 DEF AskChanges, Typed, TypeOK, core, Run

\* The steps that index the events of a run.
LEMMA IndexesTyped ==
  ASSUME Typed, run.step = "index", run' \in Run, run'.by = run.by,
         run'.step = "index", run'.next = run.next,
         index' \in [Obj -> Nat], budget' \in Nat,
         UNCHANGED <<core, op, token, fullDue, given>>
  PROVE  Typed'
BY DEF Typed, TypeOK, core, Run

LEMMA RegistersTyped == Typed /\ Registers => Typed'
<1>1. SUFFICES ASSUME Typed, NEW e \in run.todo,
                      \/ TimeOut(e) \/ ReadContent(e) \/ SkipContent(e) \/ IgnoreChange(e)
                      \/ \E failed \in Outcome("request") : RemoveEntry(e, failed)
               PROVE  Typed'
  BY DEF Registers
<1>2. e \in log /\ e.obj \in Obj /\ run \in Run
  BY <1>1 DEF Typed, TypeOK, Change, Run
<1>3. ASSUME Handled(e)
      PROVE  run' \in Run /\ run'.by = run.by /\ run'.step = run.step /\ run'.next = run.next
  BY <1>2, <1>3 DEF Handled, Run
<1>4. CASE TimeOut(e)
  <2>1. budget' \in Nat
    BY <1>1, <1>4 DEF TimeOut, Occurs, Typed, TypeOK
  <2>2. PICK left : run' = [run EXCEPT !.todo = @ \ ({e} \cup left)]
    BY <1>4 DEF TimeOut
  <2>3. run' \in Run /\ run'.by = run.by /\ run'.step = run.step /\ run'.next = run.next
    BY <1>2, <2>2 DEF Run
  <2>4. QED  BY <1>1, <1>4, <2>1, <2>3, IndexesTyped DEF TimeOut, Current, Typed, TypeOK
<1>5. CASE ReadContent(e)
  <2>1. version[e.obj] \in Nat
    BY <1>1, <1>2 DEF Typed, TypeOK
  <2>2. run' \in Run /\ run'.by = run.by /\ run'.step = run.step /\ run'.next = run.next
    BY <1>2, <1>5, <2>1 DEF ReadContent, Run
  <2>3. QED  BY <1>1, <1>5, <2>2, IndexesTyped DEF ReadContent, Current, Typed, TypeOK
<1>6. CASE SkipContent(e)
  BY <1>1, <1>3, <1>6, IndexesTyped DEF SkipContent, Current, Typed, TypeOK
<1>7. CASE IgnoreChange(e)
  BY <1>1, <1>3, <1>7, IndexesTyped DEF IgnoreChange, Current, Typed, TypeOK
<1>8. ASSUME NEW failed \in Outcome("request"), RemoveEntry(e, failed)
      PROVE  Typed'
  <2>1. index' \in [Obj -> Nat]
    BY <1>1, <1>8 DEF RemoveEntry, Typed, TypeOK
  <2>2. budget' \in Nat
    BY <1>1, <1>8, SpendsTyped DEF RemoveEntry
  <2>3. QED  BY <1>1, <1>3, <1>8, <2>1, <2>2, IndexesTyped DEF RemoveEntry, Current
<1>9. QED  BY <1>1, <1>4, <1>5, <1>6, <1>7, <1>8

LEMMA SendUpdateTyped ==
  ASSUME Typed, NEW failed \in Outcome("request"), SendUpdate(failed)
  PROVE  Typed'
<1>1. run.got.obj \in Obj /\ run.got.version \in Nat /\ run \in Run
  BY DEF SendUpdate, Typed, TypeOK, Run
<1>2. index' \in [Obj -> Nat]
  BY <1>1 DEF SendUpdate, Typed, TypeOK
<1>3. run' \in Run /\ run'.by = run.by /\ run'.step = "index" /\ run'.next = run.next
  BY <1>1 DEF SendUpdate, Run
<1>4. budget' \in Nat
  BY SpendsTyped DEF SendUpdate
<1>5. QED  BY <1>2, <1>3, <1>4, IndexesTyped DEF SendUpdate

LEMMA StoreTokenTyped ==
  ASSUME Typed, NEW failed \in Outcome("store"), StoreToken(failed)
  PROVE  Typed'
<1>1. budget' \in Nat
  BY SpendsTyped DEF StoreToken
<1>2. token' \in log \cup {NoToken}
  BY DEF StoreToken, Typed, TypeOK
<1>3. CASE run.full
  <2>1. run \in Run /\ run' = [run EXCEPT !.step = "ask", !.next = NoToken]
    BY <1>3 DEF StoreToken, Typed, TypeOK, Run
  <2>2. run' \in Run /\ run'.by = run.by /\ run'.step = "ask"
    BY <2>1 DEF Run
  <2>3. UNCHANGED <<core, op, index, fullDue, given>>
    BY <1>3 DEF StoreToken
  <2>4. QED  BY <1>1, <1>2, <2>2, <2>3 DEF Typed, TypeOK, core, Run
<1>4. CASE ~run.full
  <2>1. RunEnds
    BY <1>4 DEF StoreToken
  <2>2. QED
    BY <1>1, <1>2, <2>1, RunEndsTyped, IdleTyped, SolrTrackerAssumptions
    DEF StoreToken, Typed, TypeOK, core, Run
<1>5. QED  BY <1>3, <1>4

LEMMA CrashTyped == Typed /\ Crash => Typed'
<1>1. SUFFICES ASSUME Typed, Crash  PROVE Typed'
  OBVIOUS
<1>2. budget' \in Nat
  BY <1>1 DEF Crash, Occurs, Typed, TypeOK
<1>3. /\ op' \in [Caller -> Op]
      /\ \A c \in Caller : op'[c].step # "wait"
      /\ \A c \in Caller : op'[c].step # "idle" => op'[c].obj \in Obj /\ op'[c].kind \in Kinds
  <2>1. CASE run.by = Nobody
    BY <1>1, <2>1, SolrTrackerAssumptions DEF Crash, Typed, TypeOK
  <2>2. CASE run.by # Nobody
    BY <1>1, <2>2, RestTyped DEF Crash, Typed, TypeOK
  <2>3. QED  BY <2>1, <2>2
<1>4. run' = Idle /\ fullDue' = FALSE /\ UNCHANGED <<core, index, token, given>>
  BY <1>1 DEF Crash
<1>5. run' \in Run' /\ run'.by = Nobody /\ run'.step = "idle"
  BY <1>4, IdleTyped DEF Run, core
<1>6. \A c \in Caller : op'[c].step = "wait" <=> run'.by = c
  BY <1>3, <1>5, SolrTrackerAssumptions
<1>7. TypeOK'
  <2>1. UNCHANGED <<clock, live, version, log, ordered, index, token, given>>
    BY <1>4 DEF core
  <2>2. QED  BY <1>1, <1>2, <1>3, <1>4, <1>5, <1>6, <2>1 DEF Typed, TypeOK, Run
<1>8. QED  BY <1>1, <1>4, <1>7 DEF Typed, core

LEMMA TypedNext == Typed /\ [Next]_vars => Typed'
<1>1. SUFFICES ASSUME Typed, [Next]_vars  PROVE Typed'
  OBVIOUS
<1>2. CASE Calls
  <2>1. CASE Tick
    BY <1>1, <2>1 DEF Tick, Typed, TypeOK, tracker
  <2>2. QED
    BY <1>1, <1>2, <2>1, BeginTyped, StampTyped, AppendTyped, RemoveTyped, CallIndexingTyped
    DEF Calls
<1>3. CASE Advances
  BY <1>1, <1>3, AskNothingNewTyped, AskChangesTyped, RegistersTyped, SendUpdateTyped,
     StoreTokenTyped DEF Advances, Asks
<1>4. CASE UNCHANGED vars
  BY <1>1, <1>4 DEF vars, Typed, TypeOK
<1>5. QED
  BY <1>1, <1>2, <1>3, <1>4, ScheduleTyped, StartFullTyped, InitCoreTyped, CrashTyped DEF Next

LEMMA TypedAlways == Spec => []Typed
BY TypedInit, TypedNext, PTL DEF Spec

\* Every variable of the tracker and of the calls keeps its type, and the caller
\* marked as waiting is always the one that started the run in progress.
THEOREM TypeCorrect == Spec => []TypeOK
<1>1. Typed => TypeOK
  BY DEF Typed
<1>2. QED  BY <1>1, TypedAlways, PTL

-----------------------------------------------------------------------------
(***************************************************************************)
(* The token never goes past a change that was not given to a run          *)
(***************************************************************************)

\* With a change, the answer holds every earlier one that the view offers.
LEMMA AnswerPrefix ==
  ASSUME Typed, NEW tok, NEW n \in Nat, NEW last \in Answer(tok, n), NEW e \in log,
         tok = NoToken \/ e.t >= tok.t, e = last \/ Before(e, last)
  PROVE  e \in Answer(tok, n)
<1> DEFINE from == {d \in log : tok = NoToken \/ d.t >= tok.t}
           Below(x) == {d \in from : Before(d, x)}
<1>1. last \in from /\ Cardinality(Below(last)) < n /\ e \in from
  BY DEF Answer
<1>2. Below(e) \subseteq Below(last)
  BY BeforeOrder, <1>1 DEF Typed, TypeOK
<1>3. IsFiniteSet(Below(last))
  <2>1. Below(last) \subseteq log
    OBVIOUS
  <2>2. QED  BY <2>1, FS_Subset DEF Typed
<1> HIDE DEF from, Below
<1>4. Cardinality(Below(e)) <= Cardinality(Below(last)) /\ IsFiniteSet(Below(e))
  BY <1>2, <1>3, FS_Subset
<1>5. Cardinality(Below(e)) \in Nat /\ Cardinality(Below(last)) \in Nat
  BY <1>3, <1>4, FS_CardinalityType
<1>6. Cardinality(Below(e)) < n
  BY <1>1, <1>4, <1>5
<1>7. QED  BY <1>1, <1>6 DEF Answer, from, Below

\* Changes stored in order bear different times.
DistinctTimes == \A d, e \in log : d.t = e.t => d = e

\* Everything up to a change was given to a run.
GivenUpTo(last) == \A e \in log : ~Before(last, e) => e \in given

\* The strengthening of Delivered: the change that a run is about to store as the
\* token has everything before it given as well.
Delivery ==
  ordered => /\ DistinctTimes
             /\ token # NoToken => GivenUpTo(token)
             /\ run.step = "index" => GivenUpTo(run.next)

\* A run is given every change after the token, up to the last one it is given.
LEMMA AskCovers ==
  ASSUME Typed, DistinctTimes, NEW failed1, NEW failed2, NEW last \in Received(failed1),
         NEW e \in log, ~Before(last, e), token = NoToken \/ Before(token, e)
  PROVE  e \in NewEvents(failed1, failed2)
<1> DEFINE tok == IF failed1 THEN NoToken ELSE token
<1>1. Limit \in Nat
  BY SolrTrackerAssumptions DEF Limit
<1>2. last \in log /\ last \in Answer(tok, Limit) /\ Received(failed1) = Answer(tok, Limit)
  BY EventsFound DEF Received
<1>3. \A d \in log : d.t \in Nat /\ d.id \in Nat
  <2>1. log \subseteq Change
    BY DEF Typed, TypeOK
  <2>2. QED  BY <2>1, SolrTrackerAssumptions DEF Change
<1>4. e = last \/ Before(e, last)
  BY <1>2, <1>3 DEF Before, DistinctTimes
<1>5. token # NoToken => token \in log /\ Before(token, e) /\ e.t >= token.t
  BY <1>3 DEF Before, Typed, TypeOK
<1>6. e \in Received(failed1)
  <2>1. tok = NoToken \/ e.t >= tok.t
    BY <1>5
  <2> HIDE DEF tok
  <2>2. QED  BY <1>1, <1>2, <1>4, <2>1, AnswerPrefix
<1>7. CASE KeptToken(failed1, failed2) = NoToken
  BY <1>6, <1>7 DEF NewEvents, Events
<1>8. CASE KeptToken(failed1, failed2) # NoToken
  <2>1. token # NoToken /\ tok = token /\ KeptToken(failed1, failed2) = token
    BY <1>8 DEF KeptToken
  <2>2. Before(token, last)
    BY <1>2, <1>4, <1>5, <2>1, BeforeOrder DEF Typed, TypeOK
  <2>3. token \in Received(failed1)
    BY <1>1, <1>2, <1>3, <1>5, <2>1, <2>2, AnswerPrefix
  <2>4. QED  BY <1>5, <1>6, <2>1, <2>3 DEF NewEvents, Events
<1>9. QED  BY <1>7, <1>8

\* Whatever the run was given, up to its last change everything was given.
LEMMA AskChangesDelivery ==
  ASSUME Typed, Delivery, ordered, NEW failed1, NEW failed2, NEW last \in Received(failed1)
  PROVE  \A e \in log : ~Before(last, e) => e \in given \cup NewEvents(failed1, failed2)
<1>1. SUFFICES ASSUME NEW e \in log, ~Before(last, e), e \notin given
               PROVE  e \in NewEvents(failed1, failed2)
  OBVIOUS
<1>2. \A d \in log : d.t \in Nat /\ d.id \in Nat
  <2>1. log \subseteq Change
    BY DEF Typed, TypeOK
  <2>2. QED  BY <2>1, SolrTrackerAssumptions DEF Change
<1>3. token = NoToken \/ Before(token, e)
  BY <1>1, <1>2 DEF Delivery, GivenUpTo, Before, Typed, TypeOK
<1>4. QED  BY <1>1, <1>3, AskCovers DEF Delivery

\* The steps that store no change, start no indexing and move the token, if at
\* all, to a place up to which everything was given.
LEMMA DeliveryKept ==
  ASSUME Typed, Delivery, log' = log, ordered' = ordered, given \subseteq given',
         token' \in {token, NoToken} \/ (run.step = "index" /\ token' = run.next),
         run'.step = "index" => run.step = "index" /\ run'.next = run.next
  PROVE  Delivery'
BY DEF Delivery, DistinctTimes, GivenUpTo, Before, Typed, TypeOK

LEMMA AppendDelivery ==
  ASSUME Typed, Delivery, NEW c \in Caller, Append(c)
  PROVE  Delivery'
<1>1. SUFFICES ASSUME ordered'  PROVE Delivery'
  BY DEF Delivery
<1>2. ordered /\ \A e \in log : e.t < op[c].t
  BY <1>1 DEF Append, Typed, TypeOK
<1>3. PICK added : log' = log \cup {added} /\ added.t = op[c].t
  <2>1. PICK i : log' = log \cup {[id |-> i, t |-> op[c].t, obj |-> op[c].obj,
                                   kind |-> op[c].kind]}
    BY DEF Append
  <2>2. [id |-> i, t |-> op[c].t, obj |-> op[c].obj, kind |-> op[c].kind].t = op[c].t
    OBVIOUS
  <2>3. QED  BY <2>1, <2>2
<1>4. op[c].t \in Nat /\ \A e \in log : e.t \in Nat
  BY DEF Typed, TypeOK, Op, Change
<1>5. \A e \in log : Before(e, added)
  BY <1>2, <1>3 DEF Before
<1>6. DistinctTimes'
  BY <1>2, <1>3, <1>4 DEF Delivery, DistinctTimes
<1>7. ASSUME NEW last \in log, GivenUpTo(last)
      PROVE  \A e \in log' : ~Before(last, e) => e \in given
  BY <1>3, <1>5, <1>7 DEF GivenUpTo
<1>8. token \in log \cup {NoToken} /\ (run.step = "index" => run.next \in log)
  BY DEF Typed, TypeOK
<1>9. token' = token /\ run' = run /\ given' = given
  BY DEF Append, tracker
<1>10. QED
  BY <1>2, <1>6, <1>7, <1>8, <1>9 DEF Delivery, GivenUpTo, Before

LEMMA DeliveryNext == Typed /\ Delivery /\ [Next]_vars => Delivery'
<1>1. SUFFICES ASSUME Typed, Delivery, [Next]_vars  PROVE Delivery'
  OBVIOUS
<1>2. CASE Calls
  <2>1. ASSUME NEW c \in Caller, Append(c)  PROVE Delivery'
    BY <1>1, <2>1, AppendDelivery
  <2>2. CASE UNCHANGED <<log, ordered, tracker>>
    BY <1>1, <2>2, DeliveryKept DEF tracker
  <2>3. ASSUME NEW c \in Caller, NEW o \in Obj, NEW k \in Kinds, NEW asks \in Indexing,
               Begin(c, o, k, asks)
        PROVE  Delivery'
    BY <2>2, <2>3 DEF Begin
  <2>4. ASSUME NEW c \in Caller, Stamp(c) \/ Remove(c) \/ Tick  PROVE Delivery'
    BY <2>2, <2>4 DEF Stamp, Remove, Tick, core
  <2>5. ASSUME NEW c \in Caller, CallIndexing(c)  PROVE Delivery'
    <3>1. run'.step = "ask"
      BY <1>1, <2>5 DEF CallIndexing, Idle
    <3>2. QED  BY <1>1, <2>5, <3>1, DeliveryKept DEF CallIndexing, core
  <2>6. CASE Tick
    BY <2>2, <2>6 DEF Tick
  <2>7. QED  BY <1>2, <2>1, <2>3, <2>4, <2>5, <2>6 DEF Calls
<1>3. CASE Schedule \/ StartFull
  <2>1. run'.step = "ask"
    BY <1>3 DEF Schedule, StartFull, Idle
  <2>2. QED  BY <1>1, <1>3, <2>1, DeliveryKept DEF Schedule, StartFull, core
<1>4. ASSUME NEW action, InitCore(action)  PROVE Delivery'
  BY <1>1, <1>4, DeliveryKept DEF InitCore, core
<1>5. CASE Crash
  <2>1. run'.step = "idle"
    BY <1>5 DEF Crash, Idle
  <2>2. QED  BY <1>1, <1>5, <2>1, DeliveryKept DEF Crash, core
<1>6. ASSUME NEW failed1, NEW failed2, AskNothingNew(failed1, failed2)  PROVE Delivery'
  <2>1. run'.step = "idle" /\ token' \in {token, NoToken}
    BY <1>6 DEF AskNothingNew, RunEnds, Idle, KeptToken
  <2>2. QED  BY <1>1, <1>6, <2>1, DeliveryKept DEF AskNothingNew, core
<1>7. ASSUME NEW failed1, NEW failed2, AskChanges(failed1, failed2)  PROVE Delivery'
  <2>1. SUFFICES ASSUME ordered'  PROVE Delivery'
    BY DEF Delivery
  <2>2. ordered /\ log' = log /\ token' \in {token, NoToken}
    BY <1>7, <2>1 DEF AskChanges, core, KeptToken
  <2>3. PICK last \in Received(failed1) :
          /\ \A e \in Received(failed1) : ~Before(last, e)
          /\ run' = [run EXCEPT !.step = "index", !.next = last,
                       !.todo = ExtractChangeEvent(NewEvents(failed1, failed2))]
    BY <1>7 DEF AskChanges
  <2>4. run'.next = last
    BY <1>1, <2>3 DEF Typed, TypeOK
  <2>5. given' = given \cup NewEvents(failed1, failed2)
    BY <1>7 DEF AskChanges
  <2>6. \A e \in log : ~Before(last, e) => e \in given'
    BY <1>1, <2>2, <2>3, <2>5, AskChangesDelivery
  <2>7. GivenUpTo(run.next)'
    BY <2>2, <2>4, <2>6 DEF GivenUpTo, Before
  <2>8. (token # NoToken => GivenUpTo(token))' /\ DistinctTimes'
    BY <1>1, <2>2, <2>5 DEF Delivery, DistinctTimes, GivenUpTo, Before
  <2>9. QED  BY <2>7, <2>8 DEF Delivery
<1>8. CASE Registers
  <2>1. PICK e \in run.todo :
          \/ TimeOut(e) \/ ReadContent(e) \/ SkipContent(e) \/ IgnoreChange(e)
          \/ \E failed \in Outcome("request") : RemoveEntry(e, failed)
    BY <1>8 DEF Registers
  <2>2. /\ log' = log /\ ordered' = ordered /\ given' = given /\ token' = token
        /\ run.step = "index"
    BY <2>1 DEF TimeOut, ReadContent, SkipContent, RemoveEntry, IgnoreChange, Current, core
  <2>3. run'.next = run.next
    BY <1>1, <2>1 DEF TimeOut, ReadContent, SkipContent, RemoveEntry, IgnoreChange, Handled,
       Typed, TypeOK
  <2>4. QED  BY <1>1, <2>2, <2>3, DeliveryKept
<1>9. ASSUME NEW failed, SendUpdate(failed)  PROVE Delivery'
  <2>1. /\ log' = log /\ ordered' = ordered /\ given' = given /\ token' = token
        /\ run.step = "index" /\ run'.next = run.next
    BY <1>1, <1>9 DEF SendUpdate, core, Typed, TypeOK
  <2>2. QED  BY <1>1, <2>1, DeliveryKept
<1>10. ASSUME NEW failed, StoreToken(failed)  PROVE Delivery'
  <2>1. run'.step # "index"
    <3>1. CASE run.full
      <4>1. run' = [run EXCEPT !.step = "ask", !.next = NoToken]
        BY <1>10, <3>1 DEF StoreToken
      <4>2. run \in Run
        BY <1>1 DEF Typed, TypeOK, Run
      <4>3. QED  BY <4>1, <4>2 DEF Run
    <3>2. CASE ~run.full
      BY <1>10, <3>2 DEF StoreToken, RunEnds, Idle
    <3>3. QED  BY <3>1, <3>2
  <2>2. QED  BY <1>1, <1>10, <2>1, DeliveryKept DEF StoreToken, core
<1>11. CASE UNCHANGED vars
  BY <1>1, <1>11, DeliveryKept DEF vars
<1>12. QED
  BY <1>1, <1>2, <1>3, <1>4, <1>5, <1>6, <1>7, <1>8, <1>9, <1>10, <1>11
  DEF Next, Advances, Asks

\* The token never goes past a change that no run was given, as long as the
\* changes are stored in the order of their times: crashes, failed reads and
\* writes of the token, full indexings and short deltas notwithstanding
\* (CoreTracker.index).
THEOREM DeliveredAlways == Spec => []Delivered
<1>1. Init => Delivery
  BY DEF Init, Delivery, DistinctTimes, Idle
<1>2. Delivery => Delivered
  BY DEF Delivery, Delivered, GivenUpTo, Past
<1>3. QED  BY <1>1, <1>2, TypedAlways, DeliveryNext, PTL DEF Spec

-----------------------------------------------------------------------------
(***************************************************************************)
(* The index follows the log up to the token                               *)
(*                                                                         *)
(* What may be lost on the way is excluded: with forced indexing no caller *)
(* keeps a lock the tracker waits for, no change hides another one, and    *)
(* only crashes and failed reads of the token occur.                       *)
(***************************************************************************)

Lossless == Forced /\ "SECURITY" \notin Kinds /\ Faults \subseteq {"crash", "read"}

Busy(c) == op[c].step \in {"stamp", "append", "remove"}

\* The content was written and its change is not stored yet.
Writing(o) == \E c \in Caller : op[c].obj = o /\ op[c].step \in {"stamp", "append"}

\* The content is removed, or about to be: its deletion is in the log.
Gone(o) == o \notin live \/ \E c \in Caller : op[c].obj = o /\ op[c].step = "remove"

\* The log holds a change of the content after x.
AheadOf(o, x) == \E e \in log : e.obj = o /\ (x = NoToken \/ Before(x, e))

\* The index is right but for the content's own removal.
Settled(o) == index[o] = IF Gone(o) THEN 0 ELSE version[o]

Caught(o, x) == Writing(o) \/ AheadOf(o, x) \/ Settled(o)

\* Calls on one content exclude each other, and a deletion removes what is there.
OneCall ==
  \A c \in Caller : Busy(c) =>
    /\ op[c].obj \in live
    /\ op[c].step = "remove" => op[c].kind = "DELETED"
    /\ \A b \in Caller \ {c} : Busy(b) => op[b].obj # op[c].obj

\* The last event of a content tells whether the content is there.
Tells(e) == e.kind = "DELETED" <=> Gone(e.obj)
LastTells ==
  \A e \in log : (\A f \in log : f.obj = e.obj => ~Before(e, f)) => Writing(e.obj) \/ Tells(e)

\* A content has an event, or will have one.
HasEvent == \A o \in live : Writing(o) \/ \E e \in log : e.obj = o

Chain == OneCall /\ (ordered => LastTells /\ HasEvent)

\* What a run knows while it indexes: it will not set the token back; the event
\* it keeps of a content tells of it, unless more is to come after the run; a
\* content that is out of step is still in the run's hands.
Indexes ==
  /\ token # NoToken => ~Before(run.next, token)
  /\ \A e \in run.todo : Writing(e.obj) \/ AheadOf(e.obj, run.next) \/ Tells(e)
  /\ run.got # Nothing =>
       \/ Writing(run.got.obj) \/ AheadOf(run.got.obj, run.next)
       \/ ~Gone(run.got.obj) /\ run.got.version = version[run.got.obj]
  /\ \A o \in Obj :
       \/ Caught(o, run.next)
       \/ \E e \in run.todo : e.obj = o
       \/ run.got # Nothing /\ run.got.obj = o

Tracking ==
  ordered => /\ \A o \in Obj : Caught(o, token)
             /\ IF run.step = "index" THEN Indexes ELSE run.got = Nothing

\* What a step of a call does to one content: either its change is on the way, or
\* nothing that the tracker goes by is lost.
Kept(o) ==
  \/ \A x \in log \cup {NoToken} : Writing(o)' \/ AheadOf(o, x)'
  \/ /\ Writing(o) => Writing(o)'
     /\ Gone(o)' <=> Gone(o)
     /\ Gone(o) \/ version'[o] = version[o]
     /\ \A x : AheadOf(o, x) => AheadOf(o, x)'

LEMMA CallTracking ==
  ASSUME Typed, Tracking, ordered' => ordered, UNCHANGED <<index, token, run>>,
         \A o \in Obj : Kept(o)
  PROVE  Tracking'
<1>1. SUFFICES ASSUME ordered, ordered'  PROVE Tracking'
  BY DEF Tracking
<1>2. index' = index /\ token' = token /\ run' = run
  OBVIOUS
<1>3. token \in log \cup {NoToken} /\ run \in Run /\ log \subseteq Change
      /\ (run.step = "index" => run.next \in log)
  BY DEF Typed, TypeOK, Run
<1>4. ASSUME NEW o \in Obj, NEW x \in log \cup {NoToken}, Caught(o, x)
      PROVE  Writing(o)' \/ AheadOf(o, x)' \/ Settled(o)'
  BY <1>2, <1>4 DEF Kept, Caught, Settled
<1>5. ASSUME NEW o \in Obj  PROVE Caught(o, token)'
  <2>1. Caught(o, token)
    BY <1>1 DEF Tracking
  <2>2. Writing(o)' \/ AheadOf(o, token)' \/ Settled(o)'
    BY <1>2, <1>3, <1>4, <2>1 DEF AheadOf
  <2>3. QED  BY <2>2 DEF Caught
<1>6. ASSUME run.step = "index"  PROVE Indexes'
  <2>1. Indexes /\ run.next \in log
    BY <1>1, <1>3, <1>6 DEF Tracking
  <2>2. token' # NoToken => ~Before(run'.next, token')
    BY <1>2, <2>1 DEF Indexes
  <2>3. ASSUME NEW e \in run.todo
        PROVE  Writing(e.obj)' \/ AheadOf(e.obj, run.next)' \/ Tells(e)'
    <3>1. e.obj \in Obj
      BY <1>3, <2>3 DEF Run, Change
    <3>2. Writing(e.obj) \/ AheadOf(e.obj, run.next) \/ Tells(e)
      BY <2>1, <2>3 DEF Indexes
    <3>3. Kept(e.obj)
      BY <3>1
    <3>4. QED  BY <2>1, <3>2, <3>3, <1>2 DEF Kept, Tells, AheadOf
  <2>4. ASSUME run.got # Nothing
        PROVE  \/ Writing(run.got.obj)' \/ AheadOf(run.got.obj, run.next)'
               \/ ~Gone(run.got.obj)' /\ run.got.version = version'[run.got.obj]
    <3>1. run.got.obj \in Obj
      BY <1>3, <2>4 DEF Run
    <3>2. \/ Writing(run.got.obj) \/ AheadOf(run.got.obj, run.next)
          \/ ~Gone(run.got.obj) /\ run.got.version = version[run.got.obj]
      BY <2>1, <2>4 DEF Indexes
    <3>3. Kept(run.got.obj)
      BY <3>1
    <3>4. QED  BY <2>1, <3>2, <3>3, <1>2 DEF Kept, Gone, AheadOf, Writing
  <2>5. ASSUME NEW o \in Obj
        PROVE  \/ Caught(o, run.next)'
               \/ \E e \in run.todo : e.obj = o
               \/ run.got # Nothing /\ run.got.obj = o
    <3>1. CASE Caught(o, run.next)
      <4>1. Writing(o)' \/ AheadOf(o, run.next)' \/ Settled(o)'
        BY <1>2, <1>4, <2>1, <3>1 DEF AheadOf
      <4>2. QED  BY <4>1 DEF Caught
    <3>2. QED  BY <2>1, <3>1 DEF Indexes
  <2>6. QED  BY <1>2, <2>2, <2>3, <2>4, <2>5 DEF Indexes
<1>7. run.step # "index" => run.got = Nothing
  BY <1>1 DEF Tracking
<1>8. QED  BY <1>2, <1>5, <1>6, <1>7 DEF Tracking

\* The steps that leave the calls that write, and the log, alone.
CallsUntouched ==
  /\ UNCHANGED <<live, version, log, ordered>>
  /\ \A c \in Caller : Busy(c) \/ Busy(c)' => op'[c] = op[c]

LEMMA UntouchedSame ==
  ASSUME CallsUntouched, NEW o
  PROVE  (Writing(o)' <=> Writing(o)) /\ (Gone(o)' <=> Gone(o))
<1>1. ASSUME NEW c \in Caller, NEW s \in {"stamp", "append", "remove"}
      PROVE  op'[c].obj = o /\ op'[c].step = s <=> op[c].obj = o /\ op[c].step = s
  BY DEF CallsUntouched, Busy
<1>2. Writing(o)' <=> Writing(o)
  BY <1>1 DEF Writing
<1>3. Gone(o)' <=> Gone(o)
  BY <1>1 DEF Gone, CallsUntouched
<1>4. QED  BY <1>2, <1>3

LEMMA UntouchedChain ==
  ASSUME CallsUntouched, Chain
  PROVE  Chain'
<1>1. UNCHANGED <<live, version, log, ordered>>
  BY DEF CallsUntouched
<1>2. OneCall'
  <2>1. \A c \in Caller : Busy(c)' => Busy(c) /\ op'[c] = op[c]
    BY DEF CallsUntouched, Busy
  <2>2. QED  BY <1>1, <2>1 DEF Chain, OneCall
<1>3. LastTells' <=> LastTells
  BY <1>1, UntouchedSame DEF LastTells, Tells
<1>4. HasEvent' <=> HasEvent
  BY <1>1, UntouchedSame DEF HasEvent
<1>5. QED  BY <1>1, <1>2, <1>3, <1>4 DEF Chain

LEMMA UntouchedKept ==
  ASSUME CallsUntouched, NEW o
  PROVE  Kept(o)
<1>1. version' = version /\ \A x : AheadOf(o, x) => AheadOf(o, x)'
  BY DEF CallsUntouched, AheadOf
<1>2. QED  BY <1>1, UntouchedSame DEF Kept

\* A content gets a call, and its change is on the way.
LEMMA BeginKeeps ==
  ASSUME Typed, Chain, NEW c \in Caller, NEW o \in Obj, NEW k \in Kinds,
         NEW asks \in Indexing, Begin(c, o, k, asks)
  PROVE  Chain' /\ \A p \in Obj : Kept(p)
<1>1. /\ op'[c].step = "stamp" /\ op'[c].obj = o
      /\ \A b \in Caller \ {c} : op'[b] = op[b]
      /\ op[c].step = "idle" /\ ~InFlight(o)
      /\ live' = live \cup {o} /\ log' = log /\ ordered' = ordered
  BY DEF Begin, Typed, TypeOK
<1>2. \A p \in Obj \ {o} : version'[p] = version[p]
  BY DEF Begin, Typed, TypeOK
<1>3. Writing(o)'
  BY <1>1 DEF Writing
<1>4. ASSUME NEW p, p # o
      PROVE  (Writing(p)' <=> Writing(p)) /\ (Gone(p)' <=> Gone(p))
  <2>1. ASSUME NEW b \in Caller, NEW s \in {"stamp", "append", "remove"}
        PROVE  op'[b].obj = p /\ op'[b].step = s <=> op[b].obj = p /\ op[b].step = s
    BY <1>1, <1>4
  <2>2. Writing(p)' <=> Writing(p)
    BY <2>1 DEF Writing
  <2>3. Gone(p)' <=> Gone(p)
    BY <1>1, <1>4, <2>1 DEF Gone
  <2>4. QED  BY <2>2, <2>3
<1>5. OneCall'
  <2>1. \A b \in Caller \ {c} : Busy(b)' => Busy(b) /\ op'[b] = op[b] /\ op[b].obj # o
    BY <1>1 DEF Busy, InFlight
  <2>2. QED  BY <1>1, <2>1 DEF Chain, OneCall
<1>6. ASSUME ordered'  PROVE LastTells' /\ HasEvent'
  <2>1. LastTells /\ HasEvent
    BY <1>1, <1>6 DEF Chain
  <2>2. LastTells'
    BY <1>1, <1>3, <1>4, <2>1 DEF LastTells, Tells
  <2>3. HasEvent'
    BY <1>1, <1>3, <1>4, <2>1 DEF HasEvent
  <2>4. QED  BY <2>2, <2>3
<1>7. ASSUME NEW p \in Obj  PROVE Kept(p)
  <2>1. \A x : AheadOf(p, x) => AheadOf(p, x)'
    BY <1>1 DEF AheadOf
  <2>2. CASE p = o
    BY <1>3, <2>2 DEF Kept
  <2>3. CASE p # o
    BY <1>2, <1>4, <2>1, <2>3 DEF Kept
  <2>4. QED  BY <2>2, <2>3
<1>8. QED  BY <1>5, <1>6, <1>7 DEF Chain

LEMMA StampKeeps ==
  ASSUME Typed, Chain, NEW c \in Caller, Stamp(c)
  PROVE  Chain' /\ \A p \in Obj : Kept(p)
<1>1. /\ op[c].step = "stamp" /\ op'[c].step = "append" /\ op'[c].obj = op[c].obj
      /\ \A b \in Caller \ {c} : op'[b] = op[b]
      /\ UNCHANGED <<live, version, log, ordered>>
  BY DEF Stamp, Typed, TypeOK, Op, core
<1>2. ASSUME NEW p
      PROVE  (Writing(p)' <=> Writing(p)) /\ (Gone(p)' <=> Gone(p))
  <2>1. ASSUME NEW b \in Caller
        PROVE  /\ (op'[b].obj = p /\ op'[b].step \in {"stamp", "append"})
                    <=> (op[b].obj = p /\ op[b].step \in {"stamp", "append"})
               /\ (op'[b].obj = p /\ op'[b].step = "remove")
                    <=> (op[b].obj = p /\ op[b].step = "remove")
    BY <1>1
  <2>2. QED  BY <1>1, <2>1 DEF Writing, Gone
<1>3. OneCall'
  <2>1. \A b \in Caller : (Busy(b)' <=> Busy(b)) /\ op'[b].obj = op[b].obj
    BY <1>1 DEF Busy
  <2>2. \A b \in Caller : op'[b].step = "remove" => op'[b] = op[b]
    BY <1>1
  <2>3. ASSUME NEW b \in Caller, Busy(b)'
        PROVE  /\ op'[b].obj \in live'
               /\ op'[b].step = "remove" => op'[b].kind = "DELETED"
               /\ \A a \in Caller \ {b} : Busy(a)' => op'[a].obj # op'[b].obj
    BY <1>1, <2>1, <2>2, <2>3 DEF Chain, OneCall
  <2>4. QED  BY <2>3 DEF OneCall, Busy
<1>4. ordered' => LastTells' /\ HasEvent'
  BY <1>1, <1>2 DEF Chain, LastTells, HasEvent, Tells
<1>5. ASSUME NEW p \in Obj  PROVE Kept(p)
  <2>1. \A x : AheadOf(p, x) => AheadOf(p, x)'
    BY <1>1 DEF AheadOf
  <2>2. QED  BY <1>1, <1>2, <2>1 DEF Kept
<1>6. QED  BY <1>3, <1>4, <1>5 DEF Chain

\* Storing a change leaves the content to the call that stores it.
LEMMA AppendOneCall ==
  ASSUME Forced, Typed, Chain, NEW c \in Caller, Append(c)
  PROVE  OneCall'
<1>1. /\ \A b \in Caller \ {c} : op'[b] = op[b]
      /\ live' = live /\ op[c] \in Op /\ op[c].step = "append"
      /\ op'[c] = IF op[c].kind = "DELETED" THEN [op[c] EXCEPT !.step = "remove"]
                  ELSE Returns(c)
  BY DEF Append, Typed, TypeOK
<1>2. /\ op'[c].step \notin {"stamp", "append"}
      /\ op'[c].step = "remove" => op'[c].obj = op[c].obj /\ op'[c].kind = "DELETED"
  BY <1>1 DEF Returns, Op, Rest
<1>3. \A b \in Caller : Busy(b)' => Busy(b) /\ op'[b].obj = op[b].obj
  BY <1>1, <1>2 DEF Busy
<1>4. \A b \in Caller : op'[b].step = "remove" => op'[b] = op[b] \/ op'[b].kind = "DELETED"
  BY <1>1, <1>2
<1>5. ASSUME NEW b \in Caller, Busy(b)'
      PROVE  /\ op'[b].obj \in live'
             /\ op'[b].step = "remove" => op'[b].kind = "DELETED"
             /\ \A a \in Caller \ {b} : Busy(a)' => op'[a].obj # op'[b].obj
  BY <1>1, <1>3, <1>4, <1>5 DEF Chain, OneCall
<1>6. QED  BY <1>5 DEF OneCall, Busy

\* A stored change is the last one of its content; of a content that is being
\* removed it is the deletion.
LEMMA AppendKeeps ==
  ASSUME Forced, Typed, Chain, ordered', NEW c \in Caller, Append(c)
  PROVE  Chain' /\ \A p \in Obj : Kept(p)
<1>0. PICK o \in Obj : o = op[c].obj
  BY DEF Append, Remove, Typed, TypeOK
<1>1. /\ op[c].step = "append" /\ o \in live
      /\ \A b \in Caller \ {c} : op'[b] = op[b]
      /\ ordered /\ live' = live /\ version' = version
      /\ \A e \in log : e.t < op[c].t
  <2>1. op[c].step = "append" /\ live' = live /\ version' = version
    BY DEF Append
  <2>2. ordered /\ \A e \in log : e.t < op[c].t
    BY DEF Append, Typed, TypeOK
  <2>3. \A b \in Caller \ {c} : op'[b] = op[b]
    BY DEF Append, Typed, TypeOK
  <2>4. QED  BY <1>0, <2>1, <2>2, <2>3 DEF Chain, OneCall, Busy
<1>2. op'[c] = IF op[c].kind = "DELETED" THEN [op[c] EXCEPT !.step = "remove"] ELSE Returns(c)
  BY DEF Append, Typed, TypeOK
<1>3. /\ op'[c].step \notin {"stamp", "append"}
      /\ op'[c].step = "remove" <=> op[c].kind = "DELETED"
      /\ op'[c].step = "remove" => op'[c].obj = o /\ op'[c].kind = "DELETED"
  <2>1. op[c] \in Op
    BY DEF Typed, TypeOK
  <2>2. Returns(c).step \in {"index", "idle"}
    BY <2>1 DEF Returns, Op, Rest
  <2>3. [op[c] EXCEPT !.step = "remove"].step = "remove"
        /\ [op[c] EXCEPT !.step = "remove"].obj = o
        /\ [op[c] EXCEPT !.step = "remove"].kind = op[c].kind
    BY <1>0, <2>1 DEF Op
  <2>4. CASE op[c].kind = "DELETED"
    <3>1. op'[c] = [op[c] EXCEPT !.step = "remove"]
      BY <1>2, <2>4
    <3>2. QED  BY <1>0, <2>3, <2>4, <3>1
  <2>5. CASE op[c].kind # "DELETED"
    <3>1. op'[c] = Returns(c)
      BY <1>2, <2>5
    <3>2. QED  BY <2>2, <2>5, <3>1
  <2>6. QED  BY <2>4, <2>5
<1>4. PICK new : log' = log \cup {new} /\ new.t = op[c].t /\ new.obj = o /\ new.kind = op[c].kind
  <2>1. PICK i : log' = log \cup {[id |-> i, t |-> op[c].t, obj |-> op[c].obj,
                                   kind |-> op[c].kind]}
    BY DEF Append
  <2>2. /\ [id |-> i, t |-> op[c].t, obj |-> op[c].obj, kind |-> op[c].kind].t = op[c].t
        /\ [id |-> i, t |-> op[c].t, obj |-> op[c].obj, kind |-> op[c].kind].obj = op[c].obj
        /\ [id |-> i, t |-> op[c].t, obj |-> op[c].obj, kind |-> op[c].kind].kind = op[c].kind
    OBVIOUS
  <2>3. QED  BY <1>0, <2>1, <2>2
<1>5. \A e \in log : Before(e, new)
  BY <1>0, <1>1, <1>4 DEF Before
<1>6. \A p, x : AheadOf(p, x) => AheadOf(p, x)'
  BY <1>4 DEF AheadOf
<1>7. \A x \in log \cup {NoToken} : AheadOf(o, x)'
  BY <1>4, <1>5 DEF AheadOf
<1>8. \A b \in Caller \ {c} : Busy(b) => op[b].obj # o
  BY <1>0, <1>1 DEF Chain, OneCall, Busy
<1>9. ASSUME NEW p, p # o
      PROVE  (Writing(p)' <=> Writing(p)) /\ (Gone(p)' <=> Gone(p))
  <2>1. ASSUME NEW b \in Caller
        PROVE  /\ (op'[b].obj = p /\ op'[b].step \in {"stamp", "append"})
                    <=> (op[b].obj = p /\ op[b].step \in {"stamp", "append"})
               /\ (op'[b].obj = p /\ op'[b].step = "remove")
                    <=> (op[b].obj = p /\ op[b].step = "remove")
    BY <1>0, <1>1, <1>3, <1>9
  <2>2. QED  BY <1>0, <1>1, <2>1 DEF Writing, Gone
<1>10. Gone(o)' <=> op[c].kind = "DELETED"
  BY <1>0, <1>1, <1>3, <1>8 DEF Gone, Busy
<1>11. OneCall'
  BY AppendOneCall
<1>12. LastTells'
  <2>1. SUFFICES ASSUME NEW e \in log', \A f \in log' : f.obj = e.obj => ~Before(e, f)
                 PROVE  Writing(e.obj)' \/ Tells(e)'
    BY DEF LastTells
  <2>2. CASE e = new
    BY <1>4, <1>10, <2>2 DEF Tells
  <2>3. CASE e # new
    <3>1. e \in log /\ e.obj # o
      BY <1>4, <1>5, <2>1, <2>3
    <3>2. Writing(e.obj) \/ Tells(e)
      BY <1>0, <1>1, <1>4, <2>1, <3>1 DEF Chain, LastTells
    <3>3. QED  BY <1>9, <3>1, <3>2 DEF Tells
  <2>4. QED  BY <2>2, <2>3
<1>13. HasEvent'
  BY <1>0, <1>1, <1>4, <1>9 DEF Chain, HasEvent
<1>14. ASSUME NEW p \in Obj  PROVE Kept(p)
  <2>1. CASE p = o
    BY <1>7, <2>1 DEF Kept
  <2>2. CASE p # o
    BY <1>0, <1>1, <1>6, <1>9, <2>2 DEF Kept
  <2>3. QED  BY <2>1, <2>2
<1>15. QED  BY <1>11, <1>12, <1>13, <1>14 DEF Chain

LEMMA RemoveKeeps ==
  ASSUME Forced, Typed, Chain, NEW c \in Caller, Remove(c)
  PROVE  Chain' /\ \A p \in Obj : Kept(p)
<1>0. PICK o \in Obj : o = op[c].obj
  BY DEF Append, Remove, Typed, TypeOK
<1>1. /\ op[c].step = "remove" /\ o \in live
      /\ \A b \in Caller \ {c} : op'[b] = op[b]
      /\ live' = live \ {o} /\ UNCHANGED <<version, log, ordered>>
  BY <1>0 DEF Remove, Typed, TypeOK, Chain, OneCall, Busy
<1>2. op'[c].step \in {"index", "idle"}
  <2>1. op[c] \in Op /\ op'[c] = Returns(c)
    BY DEF Remove, Typed, TypeOK
  <2>2. QED  BY <2>1 DEF Returns, Op, Rest
<1>3. \A b \in Caller \ {c} : Busy(b) => op[b].obj # o
  BY <1>0, <1>1 DEF Chain, OneCall, Busy
<1>4. ASSUME NEW p  PROVE Writing(p)' <=> Writing(p)
  BY <1>0, <1>1, <1>2 DEF Writing
<1>5. ASSUME NEW p  PROVE Gone(p)' <=> Gone(p)
  <2>1. CASE p = o
    <3>1. Gone(p)
      BY <1>0, <1>1, <2>1 DEF Gone
    <3>2. QED  BY <1>0, <1>1, <2>1, <3>1 DEF Gone
  <2>2. CASE p # o
    <3>1. \A b \in Caller : (op'[b].obj = p /\ op'[b].step = "remove")
                              <=> (op[b].obj = p /\ op[b].step = "remove")
      BY <1>0, <1>1, <1>2, <2>2
    <3>2. QED  BY <1>0, <1>1, <2>2, <3>1 DEF Gone
  <2>3. QED  BY <2>1, <2>2
<1>6. OneCall'
  <2>1. \A b \in Caller : Busy(b)' => Busy(b) /\ op'[b] = op[b] /\ op[b].obj # o
    BY <1>0, <1>1, <1>2, <1>3 DEF Busy
  <2>2. QED  BY <1>0, <1>1, <2>1 DEF Chain, OneCall
<1>7. ordered' => LastTells' /\ HasEvent'
  BY <1>0, <1>1, <1>4, <1>5 DEF Chain, LastTells, HasEvent, Tells
<1>8. ASSUME NEW p \in Obj  PROVE Kept(p)
  <2>1. \A x : AheadOf(p, x) => AheadOf(p, x)'
    BY <1>0, <1>1 DEF AheadOf
  <2>2. QED  BY <1>0, <1>1, <1>4, <1>5, <2>1 DEF Kept
<1>9. QED  BY <1>6, <1>7, <1>8 DEF Chain

LEMMA CallsTracking ==
  ASSUME Forced, Typed, Chain, Tracking, Calls
  PROVE  Chain' /\ Tracking'
<1>1. ASSUME NEW c \in Caller, NEW o \in Obj, NEW k \in Kinds, NEW asks \in Indexing,
             Begin(c, o, k, asks)
      PROVE  Chain' /\ Tracking'
  <2>1. ordered' = ordered /\ UNCHANGED <<index, token, run>>
    BY <1>1 DEF Begin, tracker
  <2>2. QED  BY <1>1, <2>1, BeginKeeps, CallTracking
<1>2. ASSUME NEW c \in Caller, Stamp(c)  PROVE Chain' /\ Tracking'
  <2>1. ordered' = ordered /\ UNCHANGED <<index, token, run>>
    BY <1>2 DEF Stamp, tracker, core
  <2>2. QED  BY <1>2, <2>1, StampKeeps, CallTracking
<1>3. ASSUME NEW c \in Caller, Append(c)  PROVE Chain' /\ Tracking'
  <2>1. (ordered' => ordered) /\ UNCHANGED <<index, token, run>>
    BY <1>3 DEF Append, tracker, Typed, TypeOK
  <2>2. CASE ordered'
    BY <1>3, <2>1, <2>2, AppendKeeps, CallTracking
  <2>3. CASE ~ordered'
    <3>1. OneCall'
      BY <1>3, AppendOneCall
    <3>2. QED  BY <2>3, <3>1 DEF Chain, Tracking
  <2>4. QED  BY <2>2, <2>3
<1>4. ASSUME NEW c \in Caller, Remove(c)  PROVE Chain' /\ Tracking'
  <2>1. ordered' = ordered /\ UNCHANGED <<index, token, run>>
    BY <1>4 DEF Remove, tracker
  <2>2. QED  BY <1>4, <2>1, RemoveKeeps, CallTracking
<1>5. CASE Tick
  <2>1. CallsUntouched /\ UNCHANGED <<ordered, index, token, run>>
    BY <1>5 DEF Tick, tracker, CallsUntouched
  <2>2. QED  BY <1>5, <2>1, UntouchedChain, UntouchedKept, CallTracking
<1>6. ASSUME NEW c \in Caller, CallIndexing(c)  PROVE Chain' /\ Tracking'
  <2>1. CallsUntouched
    BY <1>6 DEF CallIndexing, CallsUntouched, Busy, core, Typed, TypeOK, Op
  <2>2. index' = index /\ token' = token /\ run'.step = "ask" /\ run'.got = Nothing
    BY <1>6 DEF CallIndexing, Idle
  <2>3. ASSUME ordered', NEW o \in Obj  PROVE Caught(o, token)'
    <3>1. Caught(o, token) /\ version' = version /\ log' = log
      BY <2>1, <2>3 DEF Tracking, CallsUntouched
    <3>2. QED  BY <2>1, <2>2, <3>1, UntouchedSame DEF Caught, Settled, AheadOf
  <2>4. QED  BY <1>6, <2>1, <2>2, <2>3, UntouchedChain DEF Tracking
<1>7. QED  BY <1>1, <1>2, <1>3, <1>4, <1>5, <1>6 DEF Calls

\* The steps of the tracker and of the administrator leave the calls that write
\* alone: with forced indexing a caller that waited for a run has nothing left to do.
LEMMA TrackerUntouched ==
  ASSUME Forced, Typed, UNCHANGED <<live, version, log, ordered>>,
         \/ op' = op \/ RunEnds
         \/ run.by \in Caller /\ op' = [op EXCEPT ![run.by] = Rest]
  PROVE  CallsUntouched
<1>1. CASE op' = op
  BY <1>1 DEF CallsUntouched
<1>2. CASE run.by \in Caller /\ op' = [op EXCEPT ![run.by] = Rest]
  <2>1. op[run.by].step = "wait" /\ op'[run.by].step = "idle"
    BY <1>2, RestTyped DEF Typed, TypeOK
  <2>2. \A c \in Caller : c # run.by => op'[c] = op[c]
    BY <1>2 DEF Typed, TypeOK
  <2>3. QED  BY <2>1, <2>2 DEF CallsUntouched, Busy
<1>3. CASE RunEnds
  <2>1. CASE run.by = Nobody
    BY <1>1, <1>3, <2>1 DEF RunEnds
  <2>2. CASE run.by # Nobody
    <3>1. run.by \in Caller /\ Resume(run.by)
      BY <1>3, <2>2 DEF RunEnds, Typed, TypeOK
    <3>2. op' = [op EXCEPT ![run.by] = Rest]
      BY <3>1 DEF Resume
    <3>3. QED  BY <1>2, <3>1, <3>2
  <2>3. QED  BY <2>1, <2>2
<1>4. QED  BY <1>1, <1>2, <1>3

\* Between two crawls of a run, and between two runs, nothing but the token
\* matters, and it may be forgotten.
LEMMA NotIndexing ==
  ASSUME Tracking, CallsUntouched, index' = index, token' \in {token, NoToken},
         run'.step # "index", run'.got = Nothing
  PROVE  Tracking'
<1>1. version' = version /\ log' = log /\ ordered' = ordered
  BY DEF CallsUntouched
<1>2. ASSUME ordered, NEW o \in Obj  PROVE Caught(o, token)'
  <2>1. Caught(o, token)
    BY <1>2 DEF Tracking
  <2>2. AheadOf(o, token) => AheadOf(o, token)'
    BY <1>1 DEF AheadOf
  <2>3. QED  BY <1>1, <2>1, <2>2, UntouchedSame DEF Caught, Settled
<1>3. QED  BY <1>1, <1>2 DEF Tracking

\* The index and the token are emptied: all that is there has a change to come.
LEMMA InitCoreTracking ==
  ASSUME Lossless, Typed, Chain, NEW action, InitCore(action)
  PROVE  Chain' /\ Tracking'
<1>1. CallsUntouched
  BY TrackerUntouched DEF InitCore, core, Lossless
<1>2. run' = run /\ run.step = "idle" /\ run.got = Nothing /\ token' = NoToken
  <2>1. run' = run /\ run.step = "idle" /\ token' = NoToken
    BY DEF InitCore, Lossless
  <2>2. run.got = Nothing
    BY <2>1 DEF Typed, Idle
  <2>3. QED  BY <2>1, <2>2
<1>3. ASSUME ordered', NEW o \in Obj  PROVE Caught(o, token)'
  <2>1. HasEvent' /\ index'[o] = 0
    BY <1>1, <1>3, UntouchedChain DEF Chain, InitCore
  <2>2. CASE o \in live'
    BY <1>2, <2>1, <2>2 DEF HasEvent, Caught, AheadOf
  <2>3. CASE o \notin live'
    BY <2>1, <2>3 DEF Caught, Settled, Gone
  <2>4. QED  BY <2>2, <2>3
<1>4. QED  BY <1>1, <1>2, <1>3, UntouchedChain DEF Tracking

\* A run indexes, removes or skips one content.
LEMMA IndexStep ==
  ASSUME Typed, Tracking, ordered, CallsUntouched, token' = token,
         run.step = "index", run'.step = "index", run'.next = run.next,
         NEW o \in Obj, \A p \in Obj \ {o} : index'[p] = index[p],
         run'.todo \subseteq run.todo, \A d \in run.todo \ run'.todo : d.obj = o,
         run.got # Nothing => run.got.obj = o,
         run'.got # Nothing =>
           /\ run'.got.obj = o
           /\ \/ Writing(o) \/ AheadOf(o, run.next)
              \/ ~Gone(o) /\ run'.got.version = version[o],
         \/ run'.got # Nothing
         \/ Writing(o) \/ AheadOf(o, run.next) \/ index'[o] = IF Gone(o) THEN 0 ELSE version[o],
         index'[o] = index[o] \/ run'.got = Nothing
  PROVE  Tracking'
<1>1. UNCHANGED <<live, version, log, ordered>>
  BY DEF CallsUntouched
<1>2. Indexes /\ run.next \in log /\ run \in Run /\ log \subseteq Change
      /\ token \in log \cup {NoToken}
  BY DEF Tracking, Typed, TypeOK, Run
<1>3. \A p, x : AheadOf(p, x) => \E e \in log' : e.obj = p /\ (x = NoToken \/ Before(x, e))
  BY <1>1 DEF AheadOf
<1>4. ASSUME NEW p, AheadOf(p, run.next)  PROVE AheadOf(p, token)
  <2>1. PICK e \in log : e.obj = p /\ Before(run.next, e)
    BY <1>2, <1>4, SolrTrackerAssumptions DEF AheadOf
  <2>2. token = NoToken \/ Before(token, e)
    BY <1>2, <2>1, BeforeOrder DEF Indexes
  <2>3. QED  BY <2>1, <2>2 DEF AheadOf
<1>5. ASSUME NEW p \in Obj  PROVE Caught(p, token)'
  <2>1. Caught(p, token)
    BY DEF Tracking
  <2>2. CASE index'[p] = index[p]
    <3>1. AheadOf(p, token) => AheadOf(p, token)'
      BY <1>3 DEF AheadOf
    <3>2. QED  BY <1>1, <2>1, <2>2, <3>1, UntouchedSame DEF Caught, Settled
  <2>3. CASE index'[p] # index[p]
    <3>1. p = o /\ run'.got = Nothing
      BY <2>3
    <3>2. Writing(o) \/ AheadOf(o, token) \/ index'[o] = IF Gone(o) THEN 0 ELSE version[o]
      BY <1>4, <3>1
    <3>3. AheadOf(o, token) => AheadOf(o, token)'
      BY <1>3 DEF AheadOf
    <3>4. QED  BY <1>1, <3>1, <3>2, <3>3, UntouchedSame DEF Caught, Settled
  <2>4. QED  BY <2>2, <2>3
<1>6. ASSUME NEW p  PROVE AheadOf(p, run.next) => AheadOf(p, run.next)'
  BY <1>3 DEF AheadOf
<1>7. (token # NoToken => ~Before(run.next, token))'
  BY <1>2 DEF Indexes
<1>8. ASSUME NEW e \in run'.todo
      PROVE  (Writing(e.obj) \/ AheadOf(e.obj, run.next) \/ Tells(e))'
  <2>1. e \in run.todo
    BY <1>8
  <2>2. Writing(e.obj) \/ AheadOf(e.obj, run.next) \/ Tells(e)
    BY <1>2, <2>1 DEF Indexes
  <2>3. QED  BY <1>6, <2>2, UntouchedSame DEF Tells
<1>9. (run.got # Nothing =>
         \/ Writing(run.got.obj) \/ AheadOf(run.got.obj, run.next)
         \/ ~Gone(run.got.obj) /\ run.got.version = version[run.got.obj])'
  <2>1. SUFFICES ASSUME run'.got # Nothing
                 PROVE  \/ Writing(o)' \/ AheadOf(o, run.next)'
                        \/ ~Gone(o)' /\ run'.got.version = version'[o]
    BY DEF Writing, AheadOf, Gone
  <2>2. QED  BY <1>1, <1>6, <2>1, UntouchedSame
<1>10. ASSUME NEW p \in Obj
       PROVE  \/ Caught(p, run.next)'
              \/ \E e \in run'.todo : e.obj = p
              \/ run'.got # Nothing /\ run'.got.obj = p
  <2>1. CASE p = o
    BY <1>1, <1>6, <2>1, UntouchedSame DEF Caught, Settled
  <2>2. CASE p # o
    <3>1. Caught(p, run.next) \/ \E e \in run.todo : e.obj = p
      BY <1>2, <2>2 DEF Indexes
    <3>2. Caught(p, run.next) => Caught(p, run.next)'
      BY <1>1, <1>6, <2>2, UntouchedSame DEF Caught, Settled
    <3>3. QED  BY <2>2, <3>1, <3>2
  <2>3. QED  BY <2>1, <2>2
<1>11. Indexes'
  BY <1>7, <1>8, <1>9, <1>10 DEF Indexes
<1>12. QED  BY <1>5, <1>11 DEF Tracking

LEMMA RegistersTracking ==
  ASSUME Lossless, Typed, Chain, Tracking, Registers
  PROVE  Chain' /\ Tracking'
<1>1. PICK e \in run.todo :
        \/ TimeOut(e) \/ ReadContent(e) \/ SkipContent(e) \/ IgnoreChange(e)
        \/ \E failed \in Outcome("request") : RemoveEntry(e, failed)
  BY DEF Registers
<1>2. run \in Run /\ e \in log /\ e.obj \in Obj /\ e.kind \in Kinds
  BY DEF Typed, TypeOK, Run, Change
<1>3. CallsUntouched
  <2>1. UNCHANGED <<live, version, log, ordered>> /\ op' = op
    BY <1>1 DEF TimeOut, ReadContent, SkipContent, IgnoreChange, RemoveEntry, core
  <2>2. QED  BY <2>1, TrackerUntouched DEF Lossless
<1>4. run.step = "index" /\ run.got = Nothing /\ token' = token
  BY <1>1 DEF TimeOut, ReadContent, SkipContent, IgnoreChange, RemoveEntry, Current
<1>5. ~TimeOut(e)
  <2>1. SUFFICES ASSUME NEW c \in Caller, HoldsLock(c, e.obj), op[c].step \in {"index", "wait"}
                 PROVE  FALSE
    BY DEF TimeOut, Lossless, Occurs
  <2>2. QED  BY <2>1 DEF HoldsLock, Lossless
<1>6. ~IgnoreChange(e)
  BY <1>2 DEF IgnoreChange, Lossless
<1>7. SUFFICES ASSUME ordered  PROVE Tracking'
  BY <1>3, UntouchedChain DEF Tracking, CallsUntouched
<1>8. Writing(e.obj) \/ AheadOf(e.obj, run.next) \/ Tells(e)
  BY <1>4, <1>7 DEF Tracking, Indexes
<1>9. CASE SkipContent(e)
  <2>1. index' = index /\ e.kind # "DELETED" /\ e.obj \notin live
    BY <1>9 DEF SkipContent
  <2>2. run'.step = "index" /\ run'.next = run.next /\ run'.got = Nothing
        /\ run'.todo = run.todo \ {e}
    BY <1>2, <1>4, <1>9 DEF SkipContent, Handled, Run
  <2>3. Writing(e.obj) \/ AheadOf(e.obj, run.next)
    BY <1>8, <2>1 DEF Tells, Gone
  <2>4. QED  BY <1>2, <1>3, <1>4, <1>7, <2>1, <2>2, <2>3, IndexStep
<1>10. CASE ReadContent(e)
  <2>1. index' = index /\ e.kind # "DELETED"
    BY <1>10 DEF ReadContent
  <2>2. run' = [run EXCEPT !.todo = @ \ {e},
                           !.got = [obj |-> e.obj, version |-> version[e.obj]]]
    BY <1>10 DEF ReadContent
  <2>3. run'.step = "index" /\ run'.next = run.next
        /\ run'.got = [obj |-> e.obj, version |-> version[e.obj]]
        /\ run'.todo = run.todo \ {e}
    BY <1>2, <1>4, <2>2 DEF Run
  <2>4. run'.got.obj = e.obj /\ run'.got.version = version[e.obj]
    BY <2>3
  <2>5. run'.got # Nothing
    <3>1. version[e.obj] \in Nat
      BY <1>2 DEF Typed, TypeOK
    <3>2. QED  BY <1>2, <2>3, <3>1, SolrTrackerAssumptions
  <2>6. Writing(e.obj) \/ AheadOf(e.obj, run.next) \/ ~Gone(e.obj)
    BY <1>8, <2>1 DEF Tells
  <2>7. run'.todo \subseteq run.todo /\ \A d \in run.todo \ run'.todo : d.obj = e.obj
    BY <2>3
  <2>8. QED
    BY <1>2, <1>3, <1>4, <1>7, <2>1, <2>3, <2>4, <2>5, <2>6, <2>7, IndexStep
<1>11. ASSUME NEW failed \in Outcome("request"), RemoveEntry(e, failed)
       PROVE  Tracking'
  <2>1. ~failed
    BY DEF Outcome, Occurs, Lossless
  <2>2. index' = [index EXCEPT ![e.obj] = 0] /\ e.kind = "DELETED"
    BY <1>11, <2>1 DEF RemoveEntry
  <2>3. index'[e.obj] = 0 /\ \A p \in Obj \ {e.obj} : index'[p] = index[p]
    BY <1>2, <2>2 DEF Typed, TypeOK
  <2>4. run'.step = "index" /\ run'.next = run.next /\ run'.got = Nothing
        /\ run'.todo = run.todo \ {e}
    BY <1>2, <1>4, <1>11 DEF RemoveEntry, Handled, Run
  <2>5. Writing(e.obj) \/ AheadOf(e.obj, run.next) \/ Gone(e.obj)
    BY <1>8, <2>2 DEF Tells
  <2>6. QED  BY <1>2, <1>3, <1>4, <1>7, <2>3, <2>4, <2>5, IndexStep
<1>12. QED  BY <1>1, <1>5, <1>6, <1>9, <1>10, <1>11

LEMMA SendUpdateTracking ==
  ASSUME Lossless, Typed, Chain, Tracking, NEW failed \in Outcome("request"), SendUpdate(failed)
  PROVE  Chain' /\ Tracking'
<1>1. ~failed
  BY DEF Outcome, Occurs, Lossless
<1>2. CallsUntouched
  BY TrackerUntouched DEF SendUpdate, Lossless, core
<1>3. SUFFICES ASSUME ordered  PROVE Tracking'
  BY <1>2, UntouchedChain DEF Tracking, CallsUntouched
<1>4. PICK o \in Obj : o = run.got.obj
  BY DEF SendUpdate, Typed, TypeOK
<1>5. run \in Run /\ run.step = "index" /\ run.got # Nothing /\ token' = token
  BY DEF SendUpdate, Typed, TypeOK, Run
<1>6. run'.step = "index" /\ run'.next = run.next /\ run'.got = Nothing /\ run'.todo = run.todo
  BY <1>5 DEF SendUpdate, Run
<1>7. index'[o] = run.got.version /\ \A p \in Obj \ {o} : index'[p] = index[p]
  BY <1>1, <1>4 DEF SendUpdate, Typed, TypeOK
<1>8. \/ Writing(o) \/ AheadOf(o, run.next)
      \/ ~Gone(o) /\ run.got.version = version[o]
  <2>1. Indexes
    BY <1>3, <1>5 DEF Tracking
  <2>2. \/ Writing(run.got.obj) \/ AheadOf(run.got.obj, run.next)
        \/ ~Gone(run.got.obj) /\ run.got.version = version[run.got.obj]
    BY <1>5, <2>1 DEF Indexes
  <2>3. QED  BY <1>4, <2>2
<1>9. Writing(o) \/ AheadOf(o, run.next) \/ index'[o] = IF Gone(o) THEN 0 ELSE version[o]
  BY <1>7, <1>8
<1>10. run'.todo \subseteq run.todo /\ (\A d \in run.todo \ run'.todo : d.obj = o)
       /\ ~(run'.got # Nothing) /\ run.got.obj = o
  BY <1>4, <1>6
<1>11. QED  BY <1>2, <1>3, <1>5, <1>6, <1>7, <1>9, <1>10, IndexStep

LEMMA StoreTokenTracking ==
  ASSUME Lossless, Typed, Chain, Tracking, NEW failed \in Outcome("store"), StoreToken(failed)
  PROVE  Chain' /\ Tracking'
<1>1. ~failed
  BY DEF Outcome, Occurs, Lossless
<1>2. CallsUntouched
  BY TrackerUntouched DEF StoreToken, Lossless, core
<1>3. SUFFICES ASSUME ordered  PROVE Tracking'
  BY <1>2, UntouchedChain DEF Tracking, CallsUntouched
<1>4. run'.step # "index" /\ run'.got = Nothing
  <2>1. CASE run.full
    <3>1. run' = [run EXCEPT !.step = "ask", !.next = NoToken] /\ run \in Run
          /\ run.got = Nothing
      BY <2>1 DEF StoreToken, Typed, TypeOK, Run
    <3>2. QED  BY <3>1 DEF Run
  <2>2. CASE ~run.full
    BY <2>2 DEF StoreToken, RunEnds, Idle
  <2>3. QED  BY <2>1, <2>2
<1>5. run.step = "index" /\ run.todo = {} /\ run.got = Nothing /\ token' = run.next
      /\ index' = index
  BY <1>1 DEF StoreToken
<1>6. ASSUME NEW o \in Obj  PROVE Caught(o, token)'
  <2>1. Caught(o, run.next)
    BY <1>3, <1>5 DEF Tracking, Indexes
  <2>2. AheadOf(o, run.next) => AheadOf(o, token)'
    BY <1>2, <1>5 DEF AheadOf, CallsUntouched
  <2>3. QED  BY <1>2, <1>5, <2>1, <2>2, UntouchedSame DEF Caught, Settled, CallsUntouched
<1>7. QED  BY <1>4, <1>6 DEF Tracking

\* A run that is given a change is given every one between it and the last.
LEMMA AskCloses ==
  ASSUME Typed, DistinctTimes, NEW failed1, NEW failed2, NEW last \in Received(failed1),
         NEW e \in NewEvents(failed1, failed2), NEW f \in log, Before(e, f), ~Before(last, f)
  PROVE  f \in NewEvents(failed1, failed2)
<1> DEFINE tok == IF failed1 THEN NoToken ELSE token
<1>1. Limit \in Nat
  BY SolrTrackerAssumptions DEF Limit
<1>2. Received(failed1) = Answer(tok, Limit)
  BY DEF Received
<1>3. last \in log /\ e \in log /\ e \in Received(failed1) /\ last \in Answer(tok, Limit)
  BY <1>2, EventsFound
<1>4. \A d \in log : d.t \in Nat /\ d.id \in Nat
  <2>1. log \subseteq Change
    BY DEF Typed, TypeOK
  <2>2. QED  BY <2>1, SolrTrackerAssumptions DEF Change
<1>5. f = last \/ Before(f, last)
  BY <1>3, <1>4 DEF Before, DistinctTimes
<1>6. tok = NoToken \/ f.t >= tok.t
  <2>1. CASE tok = NoToken
    BY <2>1
  <2>2. CASE tok # NoToken
    <3>1. tok \in log
      BY <2>2 DEF Typed, TypeOK
    <3>2. e.t >= tok.t
      BY <1>2, <1>3, <2>2 DEF Answer
    <3>3. tok.t \in Nat /\ e.t \in Nat /\ f.t \in Nat /\ f.t >= e.t
      BY <1>3, <1>4, <3>1 DEF Before
    <3> HIDE DEF tok
    <3>4. QED  BY <3>2, <3>3
  <2>3. QED  BY <2>1, <2>2
<1>7. f \in Received(failed1)
  <2> HIDE DEF tok
  <2>1. QED  BY <1>1, <1>2, <1>3, <1>5, <1>6, AnswerPrefix
<1>8. QED  BY <1>3, <1>7 DEF NewEvents, Events

\* The run holds the last event of every content that was ahead of the token,
\* unless the content is ahead of the run as well; and that event tells of it.
LEMMA AskChangesTracking ==
  ASSUME Lossless, Typed, Delivery, Chain, Tracking, NEW failed1, NEW failed2,
         AskChanges(failed1, failed2)
  PROVE  Chain' /\ Tracking'
<1> DEFINE New == NewEvents(failed1, failed2)
<1>1. CallsUntouched
  BY TrackerUntouched DEF AskChanges, Lossless, core
<1>2. SUFFICES ASSUME ordered  PROVE Tracking'
  BY <1>1, UntouchedChain DEF Tracking, CallsUntouched
<1>3. PICK last \in Received(failed1) :
        /\ \A e \in Received(failed1) : ~Before(last, e)
        /\ run' = [run EXCEPT !.step = "index", !.next = last, !.todo = ExtractChangeEvent(New)]
  BY DEF AskChanges
<1>4. run'.step = "index" /\ run'.next = last /\ run'.todo = ExtractChangeEvent(New)
      /\ run'.got = Nothing
  <2>1. run \in Run
    BY DEF Typed, TypeOK, Run
  <2>2. run.got = Nothing
    BY <1>2 DEF AskChanges, Tracking
  <2>3. QED  BY <1>3, <2>1, <2>2 DEF Run
<1>5. /\ index' = index /\ token' = KeptToken(failed1, failed2)
      /\ UNCHANGED <<live, version, log, ordered>>
  BY DEF AskChanges, core
<1>6. /\ DistinctTimes /\ LastTells /\ log \subseteq Change /\ IsFiniteSet(log)
      /\ token \in log \cup {NoToken} /\ last \in log /\ New \subseteq log
  BY <1>2, EventsFound DEF Delivery, Chain, Typed, TypeOK
<1>7. \A d \in log : d.t \in Nat /\ d.id \in Nat
  BY <1>6, SolrTrackerAssumptions DEF Change
<1>8. ASSUME NEW o \in Obj  PROVE Caught(o, token)'
  <2>1. Caught(o, token) /\ token' \in {token, NoToken}
    BY <1>2, <1>5 DEF Tracking, KeptToken
  <2>2. AheadOf(o, token) => AheadOf(o, token)'
    BY <1>5, <2>1 DEF AheadOf
  <2>3. QED  BY <1>1, <1>5, <2>1, <2>2, UntouchedSame DEF Caught, Settled
<1>9. token' # NoToken => ~Before(last, token')
  <2>1. SUFFICES ASSUME token' # NoToken, Before(last, token')
                 PROVE  FALSE
    OBVIOUS
  <2>2. token' = token /\ token \in log /\ ~failed1
    BY <1>5, <1>6, <2>1 DEF KeptToken
  <2>3. last.t >= token.t
    BY <2>1, <2>2 DEF Received, Answer
  <2>4. last = token
    BY <1>6, <1>7, <2>1, <2>2, <2>3 DEF Before, DistinctTimes
  <2>5. QED  BY <1>6, <2>1, <2>2, <2>4, BeforeOrder
<1>10. ASSUME NEW e \in ExtractChangeEvent(New)
       PROVE  Writing(e.obj) \/ AheadOf(e.obj, last) \/ Tells(e)
  <2>1. SUFFICES ASSUME ~AheadOf(e.obj, last)
                 PROVE  Writing(e.obj) \/ Tells(e)
    OBVIOUS
  <2>2. e \in New /\ e \in log
    BY <1>6 DEF ExtractChangeEvent
  <2>3. ASSUME NEW f \in log, f.obj = e.obj, Before(e, f)  PROVE FALSE
    <3>1. ~Before(last, f)
      BY <2>1, <2>3 DEF AheadOf
    <3>2. f \in New
      BY <1>6, <2>2, <2>3, <3>1, AskCloses
    <3>3. QED  BY <2>3, <3>2 DEF ExtractChangeEvent
  <2>4. QED  BY <1>6, <2>2, <2>3 DEF LastTells
<1>11. ASSUME NEW o \in Obj
       PROVE  Caught(o, last) \/ \E e \in ExtractChangeEvent(New) : e.obj = o
  <2>1. Caught(o, token)
    BY <1>2 DEF Tracking
  <2>2. ASSUME AheadOf(o, token), ~AheadOf(o, last)
        PROVE  \E e \in ExtractChangeEvent(New) : e.obj = o
    <3>1. PICK f \in log : f.obj = o /\ (token = NoToken \/ Before(token, f))
      BY <2>2 DEF AheadOf
    <3>2. f \in New
      BY <1>6, <2>2, <3>1, AskCovers DEF AheadOf
    <3>3. {d \in New : d.obj = o} \subseteq log /\ {d \in New : d.obj = o} # {}
      BY <1>6, <3>1, <3>2
    <3>4. {d \in New : d.obj = o} \subseteq Change /\ IsFiniteSet({d \in New : d.obj = o})
      BY <1>6, <3>3, FS_Subset
    <3>5. PICK e \in {d \in New : d.obj = o} : \A d \in {c \in New : c.obj = o} : ~Before(e, d)
      BY <3>3, <3>4, LastExists
    <3>6. QED  BY <3>5 DEF ExtractChangeEvent
  <2>3. QED  BY <2>1, <2>2 DEF Caught
<1>12. (\A e \in run.todo : Writing(e.obj) \/ AheadOf(e.obj, run.next) \/ Tells(e))'
  <2>1. ASSUME NEW e \in ExtractChangeEvent(New)
        PROVE  Writing(e.obj)' \/ AheadOf(e.obj, run.next)' \/ Tells(e)'
    <3>1. AheadOf(e.obj, last) => AheadOf(e.obj, run.next)'
      BY <1>4, <1>5 DEF AheadOf
    <3>2. QED  BY <1>1, <1>10, <2>1, <3>1, UntouchedSame DEF Tells
  <2>2. QED  BY <1>4, <2>1
<1>13. ASSUME NEW o \in Obj
       PROVE  Caught(o, run.next)' \/ \E e \in run'.todo : e.obj = o
  <2>1. AheadOf(o, last) => AheadOf(o, run.next)'
    BY <1>4, <1>5 DEF AheadOf
  <2>2. QED  BY <1>1, <1>4, <1>5, <1>11, <2>1, UntouchedSame DEF Caught, Settled
<1>14. Indexes'
  BY <1>4, <1>9, <1>12, <1>13 DEF Indexes
<1>15. QED  BY <1>4, <1>8, <1>14 DEF Tracking

LEMMA TrackingNext ==
  Lossless /\ Typed /\ Delivery /\ Chain /\ Tracking /\ [Next]_vars => Chain' /\ Tracking'
<1>1. SUFFICES ASSUME Lossless, Typed, Delivery, Chain, Tracking, [Next]_vars
               PROVE  Chain' /\ Tracking'
  OBVIOUS
<1>2. ASSUME CallsUntouched, index' = index, token' \in {token, NoToken},
             run'.step # "index", run'.got = Nothing
      PROVE  Chain' /\ Tracking'
  BY <1>1, <1>2, UntouchedChain, NotIndexing
<1>3. CASE Calls
  BY <1>1, <1>3, CallsTracking DEF Lossless
<1>4. CASE Schedule \/ StartFull
  <2>1. CallsUntouched
    BY <1>1, <1>4, TrackerUntouched DEF Schedule, StartFull, Lossless, core
  <2>2. run'.step # "index" /\ run'.got = Nothing /\ index' = index /\ token' = token
    BY <1>4 DEF Schedule, StartFull, Idle
  <2>3. QED  BY <1>2, <2>1, <2>2
<1>5. ASSUME NEW failed1, NEW failed2, AskNothingNew(failed1, failed2)
      PROVE  Chain' /\ Tracking'
  <2>1. CallsUntouched
    BY <1>1, <1>5, TrackerUntouched DEF AskNothingNew, Lossless, core
  <2>2. run'.step # "index" /\ run'.got = Nothing /\ index' = index
        /\ token' \in {token, NoToken}
    BY <1>5 DEF AskNothingNew, RunEnds, Idle, KeptToken
  <2>3. QED  BY <1>2, <2>1, <2>2
<1>6. ASSUME NEW failed1, NEW failed2, AskChanges(failed1, failed2)
      PROVE  Chain' /\ Tracking'
  BY <1>1, <1>6, AskChangesTracking
<1>7. CASE Advances
  BY <1>1, <1>5, <1>6, <1>7, RegistersTracking, SendUpdateTracking, StoreTokenTracking
  DEF Advances, Asks
<1>8. ASSUME NEW action, InitCore(action)  PROVE Chain' /\ Tracking'
  BY <1>1, <1>8, InitCoreTracking
<1>9. CASE Crash
  <2>1. op' = op \/ (run.by \in Caller /\ op' = [op EXCEPT ![run.by] = Rest])
    BY <1>1, <1>9 DEF Crash, Typed, TypeOK
  <2>2. CallsUntouched
    BY <1>1, <1>9, <2>1, TrackerUntouched DEF Crash, Lossless, core
  <2>3. run'.step # "index" /\ run'.got = Nothing /\ index' = index /\ token' = token
    BY <1>9 DEF Crash, Idle
  <2>4. QED  BY <1>2, <2>2, <2>3
<1>10. CASE UNCHANGED vars
  <2>1. CallsUntouched /\ UNCHANGED <<ordered, index, token, run>>
    BY <1>10 DEF vars, CallsUntouched
  <2>2. QED  BY <1>1, <2>1, UntouchedChain, UntouchedKept, CallTracking
<1>11. QED  BY <1>1, <1>3, <1>4, <1>7, <1>8, <1>9, <1>10 DEF Next

LEMMA IndexedFromTracking == Chain /\ Tracking => IndexedUpToToken
<1>1. SUFFICES ASSUME Chain, Tracking, ordered, NEW o \in Obj, ~InFlight(o),
                      \A e \in log : e.obj = o => Past(e)
               PROVE  InSync(o)
  BY DEF IndexedUpToToken
<1>2. Caught(o, token)
  BY <1>1 DEF Tracking
<1>3. ~Writing(o) /\ (Gone(o) <=> o \notin live)
  BY <1>1 DEF InFlight, Writing, Gone
<1>4. ~AheadOf(o, token)
  BY <1>1 DEF AheadOf, Past
<1>5. QED  BY <1>2, <1>3, <1>4 DEF Caught, Settled, InSync

LEMMA TrackingInit == Init => Delivery /\ Chain /\ Tracking
<1>1. SUFFICES ASSUME Init  PROVE Delivery /\ Chain /\ Tracking
  OBVIOUS
<1>2. log = {} /\ live = {} /\ token = NoToken /\ run = Idle /\ index = [o \in Obj |-> 0]
      /\ \A c \in Caller : op[c].step = "idle"
  BY <1>1, RestTyped DEF Init
<1>3. run.step = "idle" /\ run.got = Nothing
  BY <1>2 DEF Idle
<1>4. Delivery
  BY <1>2, <1>3 DEF Delivery, DistinctTimes
<1>5. Chain
  BY <1>2 DEF Chain, OneCall, LastTells, HasEvent, Busy
<1>6. Tracking
  BY <1>2, <1>3 DEF Tracking, Caught, Settled, Gone
<1>7. QED  BY <1>4, <1>5, <1>6

\* With indexing forced, nothing that hides a change, and no failure but crashes and
\* lost reads of the token, a content is out of step with the index only while a
\* call on it is in flight or its change lies ahead of the token, whatever a crash
\* interrupted (CoreTracker.index, Registration.run, ContentServiceImpl.delete).
THEOREM IndexedAlways == ASSUME Lossless PROVE Spec => []IndexedUpToToken
BY TrackingInit, IndexedFromTracking, TypedAlways, DeliveryNext, TrackingNext, PTL DEF Spec

-----------------------------------------------------------------------------
(***************************************************************************)
(* What a run has in its hands is ahead of the token                       *)
(***************************************************************************)

\* An entry was made from a version the content did have.  A run that indexes
\* holds events the token has not passed; the content it has read has one, and was
\* read no earlier than its entry was.
InHand(r) ==
  /\ \A e \in r.todo : ~Past(e)
  /\ r.got # Nothing =>
       /\ \E e \in log : e.obj = r.got.obj /\ ~Past(e)
       /\ index[r.got.obj] <= r.got.version /\ r.got.version <= version[r.got.obj]

Hands ==
  ordered => /\ \A o \in Obj : index[o] <= version[o]
             /\ run.step = "index" => InHand(run)

\* The writes of the calls take nothing from it.
LEMMA HandsKept ==
  ASSUME Typed, Typed', Hands, UNCHANGED <<index, token, run>>, log \subseteq log',
         ordered' => ordered, \A o \in Obj : version[o] <= version'[o]
  PROVE  Hands'
<1>1. SUFFICES ASSUME ordered, ordered'  PROVE Hands'
  BY DEF Hands
<1>2. index' = index /\ token' = token /\ run' = run
  OBVIOUS
<1>3. index \in [Obj -> Nat] /\ version \in [Obj -> Nat] /\ version' \in [Obj -> Nat]
  BY DEF Typed, TypeOK
<1>4. \A o \in Obj : index'[o] <= version'[o]
  <2>1. ASSUME NEW o \in Obj  PROVE index[o] <= version'[o]
    <3>1. index[o] <= version[o] /\ version[o] <= version'[o]
      BY <1>1 DEF Hands
    <3>2. QED  BY <1>3, <3>1
  <2>2. QED  BY <1>2, <2>1
<1>5. \A e : Past(e)' <=> Past(e)
  BY <1>2 DEF Past, Before
<1>6. ASSUME run.step = "index"  PROVE InHand(run)'
  <2>1. InHand(run) /\ run \in Run
    BY <1>1, <1>6 DEF Hands, Typed, TypeOK, Run
  <2>2. ASSUME run.got # Nothing
        PROVE  /\ \E e \in log' : e.obj = run.got.obj /\ ~Past(e)
               /\ index[run.got.obj] <= run.got.version
               /\ run.got.version <= version'[run.got.obj]
    <3>1. run.got.obj \in Obj /\ run.got.version \in Nat
      BY <2>1, <2>2 DEF Run
    <3>2. /\ \E e \in log : e.obj = run.got.obj /\ ~Past(e)
          /\ index[run.got.obj] <= run.got.version
          /\ run.got.version <= version[run.got.obj]
      BY <2>1, <2>2 DEF InHand
    <3>3. run.got.version <= version'[run.got.obj]
      BY <1>3, <3>1, <3>2
    <3>4. QED  BY <3>2, <3>3
  <2>3. QED  BY <1>2, <1>5, <2>1, <2>2 DEF InHand
<1>7. QED  BY <1>2, <1>4, <1>6 DEF Hands

\* Between two runs only the entries matter, and they may be removed.
LEMMA HandsFree ==
  ASSUME Typed, Hands, UNCHANGED <<version, log, ordered>>, run'.step # "index",
         \A o \in Obj : index'[o] = index[o] \/ index'[o] = 0
  PROVE  Hands'
<1>1. SUFFICES ASSUME ordered, NEW o \in Obj  PROVE index'[o] <= version'[o]
  BY DEF Hands
<1>2. index[o] <= version[o] /\ version' = version /\ version[o] \in Nat
  BY <1>1 DEF Hands, Typed, TypeOK
<1>3. QED  BY <1>2

\* The events a run is given are ahead of the token it keeps.
LEMMA NewAhead ==
  ASSUME Typed, DistinctTimes, NEW failed1, NEW failed2, NEW e \in NewEvents(failed1, failed2),
         token' = KeptToken(failed1, failed2), log' = log
  PROVE  e \in log /\ ~Past(e)'
<1>1. e \in log /\ log \subseteq Change
  BY EventsFound DEF Typed, TypeOK
<1>2. \A d \in log : d.t \in Nat /\ d.id \in Nat
  BY <1>1, SolrTrackerAssumptions DEF Change
<1>3. CASE token' = NoToken
  BY <1>1, <1>3 DEF Past
<1>4. CASE token' # NoToken
  <2>1. token' = token /\ token # NoToken /\ ~failed1 /\ token \in log
    BY <1>4 DEF KeptToken, Typed, TypeOK
  <2>2. PICK d \in Received(failed1) : Before(d, e)
    BY <1>4, <2>1 DEF NewEvents, Events
  <2>3. d \in log /\ d.t >= token.t
    BY <2>1, <2>2 DEF Received, Answer
  <2>4. d = token \/ Before(token, d)
    BY <1>2, <2>1, <2>3 DEF Before, DistinctTimes
  <2>5. Before(token, e)
    BY <1>1, <2>1, <2>2, <2>3, <2>4, BeforeOrder
  <2>6. Before(token, e)'
    BY <2>1, <2>5 DEF Before
  <2>7. QED  BY <1>1, <2>6 DEF Past
<1>5. QED  BY <1>3, <1>4

LEMMA AskChangesHands ==
  ASSUME Typed, Delivery, Tracking, Hands, NEW failed1, NEW failed2,
         AskChanges(failed1, failed2)
  PROVE  Hands'
<1>1. SUFFICES ASSUME ordered  PROVE Hands'
  BY DEF Hands, AskChanges, core
<1>2. /\ UNCHANGED <<index, version, log, ordered>> /\ token' = KeptToken(failed1, failed2)
  BY DEF AskChanges, core
<1>3. run.got = Nothing /\ run \in Run
  BY <1>1 DEF AskChanges, Tracking, Typed, TypeOK, Run
<1>4. run'.todo = ExtractChangeEvent(NewEvents(failed1, failed2)) /\ run'.got = Nothing
  BY <1>3 DEF AskChanges, Run
<1>5. \A e \in run'.todo : ~Past(e)'
  <2>1. ASSUME NEW e \in run'.todo  PROVE ~Past(e)'
    <3>1. e \in NewEvents(failed1, failed2) /\ DistinctTimes
      BY <1>1, <1>4, <2>1 DEF ExtractChangeEvent, Delivery
    <3>2. QED  BY <1>2, <3>1, NewAhead
  <2>2. QED  BY <2>1
<1>6. \A o \in Obj : index'[o] <= version'[o]
  BY <1>1, <1>2 DEF Hands
<1>7. InHand(run)'
  BY <1>4, <1>5 DEF InHand
<1>8. QED  BY <1>6, <1>7 DEF Hands

\* The registration of one event.
LEMMA RegistersHands ==
  ASSUME Lossless, Typed, Typed', Hands, Registers
  PROVE  Hands'
<1>1. PICK e \in run.todo :
        \/ TimeOut(e) \/ ReadContent(e) \/ SkipContent(e) \/ IgnoreChange(e)
        \/ \E failed \in Outcome("request") : RemoveEntry(e, failed)
  BY DEF Registers
<1>2. UNCHANGED <<version, log, ordered>> /\ token' = token
  BY <1>1 DEF TimeOut, ReadContent, SkipContent, IgnoreChange, RemoveEntry, core
<1>3. SUFFICES ASSUME ordered  PROVE Hands'
  BY <1>2 DEF Hands
<1>4. run.step = "index" /\ run.got = Nothing /\ run \in Run
  BY <1>1 DEF TimeOut, ReadContent, SkipContent, IgnoreChange, RemoveEntry, Current,
              Typed, TypeOK, Run
<1>5. e \in log /\ e.obj \in Obj /\ version[e.obj] \in Nat /\ index[e.obj] \in Nat
  BY DEF Typed, TypeOK, Change
<1>6. InHand(run) /\ \A o \in Obj : index[o] <= version[o]
  BY <1>3, <1>4 DEF Hands
<1>7. \A x : Past(x)' <=> Past(x)
  BY <1>2 DEF Past, Before
<1>8. \A o \in Obj : index'[o] = index[o] \/ index'[o] = 0
  <2>1. CASE index' = index
    BY <2>1
  <2>2. ASSUME NEW failed, RemoveEntry(e, failed)
        PROVE  \A o \in Obj : index'[o] = index[o] \/ index'[o] = 0
    BY <1>5, <2>2 DEF RemoveEntry, Typed, TypeOK
  <2>3. QED  BY <1>1, <2>1, <2>2 DEF TimeOut, ReadContent, SkipContent, IgnoreChange
<1>9. \A o \in Obj : index'[o] <= version'[o]
  <2>1. ASSUME NEW o \in Obj  PROVE index'[o] <= version[o]
    <3>1. index[o] <= version[o] /\ version[o] \in Nat
      BY <1>6 DEF Typed, TypeOK
    <3>2. QED  BY <1>8, <3>1
  <2>2. QED  BY <1>2, <2>1
<1>10. \A x \in run'.todo : x \in run.todo
  <2>1. CASE ReadContent(e)
    BY <1>4, <2>1 DEF ReadContent, Run
  <2>2. CASE Handled(e)
    BY <1>4, <2>2 DEF Handled, Run
  <2>3. CASE TimeOut(e)
    BY <1>4, <2>3 DEF TimeOut, Run
  <2>4. QED  BY <1>1, <2>1, <2>2, <2>3 DEF SkipContent, IgnoreChange, RemoveEntry
<1>11. \A x \in run'.todo : ~Past(x)'
  BY <1>6, <1>7, <1>10 DEF InHand
<1>12. CASE ReadContent(e)
  <2>1. run'.got = [obj |-> e.obj, version |-> version[e.obj]] /\ index' = index
    BY <1>4, <1>12 DEF ReadContent, Run
  <2>2. run'.got.obj = e.obj /\ run'.got.version = version[e.obj]
    BY <2>1
  <2>3. e \in log' /\ ~Past(e)'
    BY <1>2, <1>5, <1>6, <1>7 DEF InHand
  <2>4. index[e.obj] <= version[e.obj] /\ version[e.obj] <= version'[e.obj]
    BY <1>2, <1>5, <1>6
  <2>5. InHand(run)'
    BY <1>11, <2>1, <2>2, <2>3, <2>4 DEF InHand
  <2>6. QED  BY <1>9, <2>5 DEF Hands
<1>13. CASE ~ReadContent(e)
  <2>1. run'.got = Nothing
    BY <1>1, <1>4, <1>13 DEF TimeOut, SkipContent, IgnoreChange, RemoveEntry, Handled, Run
  <2>2. InHand(run)'
    BY <1>11, <2>1 DEF InHand
  <2>3. QED  BY <1>9, <2>2 DEF Hands
<1>14. QED  BY <1>12, <1>13

LEMMA SendUpdateHands ==
  ASSUME Typed, Hands, NEW failed, SendUpdate(failed)
  PROVE  Hands'
<1>1. SUFFICES ASSUME ordered  PROVE Hands'
  BY DEF Hands, SendUpdate, core
<1>2. UNCHANGED <<version, log, ordered, token>>
  BY DEF SendUpdate, core
<1>3. run.step = "index" /\ run.got # Nothing /\ run \in Run
  BY DEF SendUpdate, Typed, TypeOK, Run
<1>4. run'.got = Nothing /\ run'.todo = run.todo
  BY <1>3 DEF SendUpdate, Run
<1>5. InHand(run) /\ \A o \in Obj : index[o] <= version[o]
  BY <1>1, <1>3 DEF Hands
<1>6. run.got.obj \in Obj /\ run.got.version <= version[run.got.obj]
  BY <1>3, <1>5 DEF InHand, Run
<1>7. \A o \in Obj : index'[o] <= version'[o]
  <2>1. index' = index \/ index' = [index EXCEPT ![run.got.obj] = run.got.version]
    BY DEF SendUpdate
  <2>2. \A o \in Obj : index'[o] = index[o] \/ (o = run.got.obj /\ index'[o] = run.got.version)
    <3>1. index \in [Obj -> Nat]
      BY DEF Typed, TypeOK
    <3>2. QED  BY <1>6, <2>1, <3>1
  <2>3. QED  BY <1>2, <1>5, <1>6, <2>2
<1>8. \A x : Past(x)' <=> Past(x)
  BY <1>2 DEF Past, Before
<1>9. InHand(run)'
  BY <1>4, <1>5, <1>8 DEF InHand
<1>10. QED  BY <1>7, <1>9 DEF Hands

\* The calls only add versions and changes.
LEMMA CallsHands ==
  ASSUME Typed, Typed', Hands, Calls
  PROVE  Hands'
<1>1. ASSUME NEW c \in Caller, CallIndexing(c)  PROVE Hands'
  <2>1. run'.step = "ask" /\ UNCHANGED <<version, log, ordered, index>>
    BY <1>1 DEF CallIndexing, Idle, core
  <2>2. QED  BY <2>1, HandsFree
<1>2. CASE ~\E c \in Caller : CallIndexing(c)
  <2>1. UNCHANGED <<index, token, run>>
    BY <1>2 DEF Calls, Begin, Stamp, Append, Remove, Tick, tracker
  <2>2. ordered' => ordered
    BY <1>2 DEF Calls, Begin, Stamp, Append, Remove, Tick, core, Typed, TypeOK
  <2>3. log \subseteq log'
    BY <1>2 DEF Calls, Begin, Stamp, Append, Remove, Tick, core
  <2>4. \A o \in Obj : version[o] <= version'[o]
    <3>1. CASE version' = version
      BY <3>1 DEF Typed, TypeOK
    <3>2. ASSUME NEW c \in Caller, NEW p \in Obj, NEW k \in Kinds, NEW asks \in Indexing,
                 Begin(c, p, k, asks)
          PROVE  \A o \in Obj : version[o] <= version'[o]
      <4>1. ASSUME NEW o \in Obj  PROVE version[o] <= version'[o]
        <5>1. version \in [Obj -> Nat] /\ version' \in [Obj -> Nat]
          BY DEF Typed, TypeOK
        <5>2. version'[o] = version[o] \/ version'[o] = version[o] + 1
          BY <3>2, <5>1 DEF Begin
        <5>3. QED  BY <5>1, <5>2
      <4>2. QED  BY <4>1
    <3>3. QED
      BY <1>2, <3>1, <3>2 DEF Calls, Stamp, Append, Remove, Tick, core
  <2>5. QED  BY <2>1, <2>2, <2>3, <2>4, HandsKept
<1>3. QED  BY <1>1, <1>2

LEMMA HandsNext ==
  Lossless /\ Typed /\ Typed' /\ Delivery /\ Tracking /\ Hands /\ [Next]_vars => Hands'
<1>1. SUFFICES ASSUME Lossless, Typed, Typed', Delivery, Tracking, Hands, [Next]_vars
               PROVE  Hands'
  OBVIOUS
<1>2. CASE Calls
  BY <1>1, <1>2, CallsHands
<1>3. CASE Schedule \/ StartFull \/ Crash
  <2>1. UNCHANGED <<version, log, ordered, index>>
    BY <1>3 DEF Schedule, StartFull, Crash, core
  <2>2. run'.step # "index"
    <3>1. CASE Schedule
      BY <3>1 DEF Schedule, Idle
    <3>2. CASE StartFull
      BY <3>2 DEF StartFull, Idle
    <3>3. CASE Crash
      BY <3>3 DEF Crash, Idle
    <3>4. QED  BY <1>3, <3>1, <3>2, <3>3
  <2>3. QED  BY <1>1, <2>1, <2>2, HandsFree
<1>4. ASSUME NEW action, InitCore(action)  PROVE Hands'
  <2>1. run'.step # "index" /\ UNCHANGED <<version, log, ordered>>
    BY <1>4 DEF InitCore, core
  <2>2. \A o \in Obj : index'[o] = 0
    BY <1>4 DEF InitCore
  <2>3. QED  BY <1>1, <2>1, <2>2, HandsFree
<1>5. ASSUME NEW failed1, NEW failed2, AskNothingNew(failed1, failed2)
      PROVE  Hands'
  <2>1. run'.step # "index" /\ UNCHANGED <<version, log, ordered, index>>
    BY <1>5 DEF AskNothingNew, RunEnds, Idle, core
  <2>2. QED  BY <1>1, <2>1, HandsFree
<1>6. ASSUME NEW failed, StoreToken(failed)  PROVE Hands'
  <2>1. run'.step # "index"
    <3>1. CASE run.full
      <4>1. run' = [run EXCEPT !.step = "ask", !.next = NoToken] /\ run \in Run
        BY <1>1, <1>6, <3>1 DEF StoreToken, Typed, TypeOK, Run
      <4>2. QED  BY <4>1 DEF Run
    <3>2. CASE ~run.full
      BY <1>6, <3>2 DEF StoreToken, RunEnds, Idle
    <3>3. QED  BY <3>1, <3>2
  <2>2. UNCHANGED <<version, log, ordered, index>>
    BY <1>6 DEF StoreToken, core
  <2>3. QED  BY <1>1, <2>1, <2>2, HandsFree
<1>7. CASE Advances
  BY <1>1, <1>5, <1>6, <1>7, AskChangesHands, RegistersHands, SendUpdateHands
  DEF Advances, Asks
<1>8. CASE UNCHANGED vars
  <2>1. UNCHANGED <<index, token, run, log, ordered, version>>
    BY <1>8 DEF vars
  <2>2. \A o \in Obj : version[o] <= version'[o]
    BY <1>1, <2>1 DEF Typed, TypeOK
  <2>3. QED  BY <1>1, <2>1, <2>2, HandsKept
<1>9. QED  BY <1>1, <1>2, <1>3, <1>4, <1>7, <1>8 DEF Next

-----------------------------------------------------------------------------
(***************************************************************************)
(* Every step of the tracker is a step of the feed                         *)
(***************************************************************************)

\* What the feed takes for the content.
Content == [o \in Obj |-> IF o \in live THEN version[o] ELSE 0]

\* What the invariants say that a step of the feed depends on.
Supported == Typed /\ Delivery /\ Chain /\ Tracking /\ Hands

LEMMA DirtyIs ==
  ASSUME NEW o \in Obj
  PROVE  o \in Dirty <=> InFlight(o) \/ \E e \in log : e.obj = o /\ ~Past(e)
BY DEF Dirty

\* A step that changes neither content nor entry, nor what is ahead of the token.
LEMMA FeedStutters ==
  ASSUME UNCHANGED <<live, version, index, ordered>>, Dirty' = Dirty
  PROVE  UNCHANGED Feed!vars
BY DEF Feed!vars

\* The calls that work on a content.
LEMMA FlightKept ==
  ASSUME CallsUntouched, NEW o
  PROVE  InFlight(o)' <=> InFlight(o)
BY DEF CallsUntouched, Busy, InFlight

\* The token stays or is forgotten.
LEMMA FeedRecedes ==
  ASSUME ordered, CallsUntouched, index' = index, token' \in {token, NoToken}
  PROVE  Feed!Recede
<1>1. UNCHANGED <<live, version, log, ordered>>
  BY DEF CallsUntouched
<1>2. Dirty \subseteq Dirty'
  <2>1. ASSUME NEW o \in Dirty  PROVE o \in Dirty'
    <3>1. \A e : ~Past(e) => ~Past(e)'
      BY DEF Past, Before
    <3>2. o \in Obj
      BY DEF Dirty
    <3>3. CASE InFlight(o)
      BY <3>2, <3>3, FlightKept DEF Dirty
    <3>4. CASE \E e \in log : e.obj = o /\ ~Past(e)
      BY <1>1, <3>1, <3>2, <3>4 DEF Dirty
    <3>5. QED  BY <2>1, <3>3, <3>4 DEF Dirty
  <2>2. QED  BY <2>1
<1>3. QED  BY <1>1, <1>2 DEF Feed!Recede

\* The token moves on, to where every content behind it is right.
LEMMA FeedSettles ==
  ASSUME Lossless, Typed, Delivery, Tracking, ordered, IndexedUpToToken',
         NEW failed \in Outcome("store"), StoreToken(failed)
  PROVE  Feed!Settle
<1>1. ~failed
  BY DEF Outcome, Occurs, Lossless
<1>2. CallsUntouched
  BY TrackerUntouched DEF StoreToken, Lossless, core
<1>3. UNCHANGED <<live, version, log, ordered, index>> /\ token' = run.next /\ run.step = "index"
  BY <1>1 DEF StoreToken, core
<1>4. /\ token # NoToken => ~Before(run.next, token)
      /\ run.next \in log /\ log \subseteq Change /\ token \in log \cup {NoToken}
      /\ DistinctTimes /\ NoToken \notin Change
  BY <1>3, SolrTrackerAssumptions DEF Tracking, Indexes, Delivery, Typed, TypeOK
<1>5. ASSUME NEW e \in log, ~Past(e)'  PROVE ~Past(e)
  <2>1. Before(run.next, e)
    BY <1>3, <1>4, <1>5 DEF Past, Before
  <2>2. token # NoToken => Before(token, e)
    BY <1>4, <2>1, BeforeOrder
  <2>3. QED  BY <2>2 DEF Past
<1>6. Dirty' \subseteq Dirty
  <2>1. ASSUME NEW o \in Dirty'  PROVE o \in Dirty
    <3>1. o \in Obj /\ (InFlight(o)' \/ \E e \in log : e.obj = o /\ ~Past(e)')
      BY <1>3 DEF Dirty
    <3>2. QED  BY <1>2, <1>5, <3>1, FlightKept DEF Dirty
  <2>2. QED  BY <2>1
<1>7. ASSUME NEW o \in Dirty \ Dirty'  PROVE index[o] = Content[o]
  <2>1. o \in Obj /\ ~InFlight(o)' /\ \A e \in log' : e.obj = o => Past(e)'
    BY DEF Dirty
  <2>2. InSync(o)'
    BY <1>3, <2>1 DEF IndexedUpToToken
  <2>3. QED  BY <1>3, <2>1, <2>2 DEF InSync, Content
<1>8. QED  BY <1>3, <1>6, <1>7 DEF Feed!Settle, Feed!Right, Content

\* The entry of one content, which has an event ahead of the token, is removed or
\* made from a version that is not older.
LEMMA FeedRegisters ==
  ASSUME Typed, ordered, CallsUntouched, token' = token, NEW o \in Dirty, NEW v \in Nat,
         v = 0 \/ index[o] <= v, index' = [index EXCEPT ![o] = v]
  PROVE  Feed!Register(o)
<1>1. UNCHANGED <<live, version, log, ordered>>
  BY DEF CallsUntouched
<1>2. \A e : Past(e)' <=> Past(e)
  BY DEF Past, Before
<1>3. Dirty' = Dirty
  <2>1. ASSUME NEW p \in Obj  PROVE p \in Dirty' <=> p \in Dirty
    <3>1. (\E e \in log : e.obj = p /\ ~Past(e))' <=> \E e \in log : e.obj = p /\ ~Past(e)
      BY <1>1, <1>2
    <3>2. InFlight(p)' <=> InFlight(p)
      BY FlightKept
    <3>3. QED  BY <3>1, <3>2 DEF Dirty
  <2>2. QED  BY <2>1 DEF Dirty
<1>4. o \in Obj /\ index \in [Obj -> Nat]
  BY DEF Dirty, Typed, TypeOK
<1>5. index'[o] = v /\ index' = [index EXCEPT ![o] = index'[o]]
  BY <1>4
<1>6. index'[o] = 0 \/ index'[o] >= index[o]
  BY <1>4, <1>5
<1>7. QED  BY <1>1, <1>3, <1>5, <1>6 DEF Feed!Register

\* A content is written, or removed.
LEMMA FeedWrites ==
  ASSUME ordered, ordered' = ordered, index' = index, NEW o \in Obj,
         \A p \in Obj \ {o} : /\ p \in live' <=> p \in live
                              /\ version'[p] = version[p]
                              /\ p \in Dirty' <=> p \in Dirty,
         o \in Dirty' \/ InSync(o)'
  PROVE  Feed!Write(o)
<1>1. Content' = [Content EXCEPT ![o] = Content'[o]]
  BY DEF Content
<1>2. Dirty' \ {o} = Dirty \ {o}
  BY DEF Dirty
<1>3. o \in Dirty' \/ index[o] = Content'[o]
  BY DEF InSync, Content
<1>4. QED  BY <1>1, <1>2, <1>3 DEF Feed!Write, Content

\* One caller moves on with its call, on o or on nothing.
LEMMA FlightOthers ==
  ASSUME Typed, NEW c \in Caller, NEW x, op' = [op EXCEPT ![c] = x], NEW p,
         Busy(c) => op[c].obj # p, x.step \in {"stamp", "append", "remove"} => x.obj # p
  PROVE  InFlight(p)' <=> InFlight(p)
<1>1. op'[c] = x /\ \A b \in Caller \ {c} : op'[b] = op[b]
  BY DEF Typed, TypeOK
<1>2. QED  BY <1>1 DEF InFlight, Busy

LEMMA FeedBegin ==
  ASSUME Typed, ordered, NEW c \in Caller, NEW o \in Obj, NEW k \in Kinds,
         NEW asks \in Indexing, Begin(c, o, k, asks)
  PROVE  Feed!Write(o)
<1>1. /\ op[c].step = "idle" /\ live' = live \cup {o} /\ UNCHANGED <<log, ordered, index, token>>
      /\ version' = [version EXCEPT ![o] = IF k \in {"CREATED", "UPDATED"} THEN @ + 1 ELSE @]
  BY DEF Begin, tracker
<1>2. PICK x : x.step = "stamp" /\ x.obj = o /\ op' = [op EXCEPT ![c] = x]
  <2>1. op' = [op EXCEPT ![c] = [step |-> "stamp", obj |-> o, kind |-> k,
                                 t |-> 0, asks |-> asks]]
    BY DEF Begin
  <2>2. QED  BY <2>1
<1>3. \A p \in Obj \ {o} : InFlight(p)' <=> InFlight(p)
  BY <1>1, <1>2, FlightOthers DEF Busy
<1>4. \A e : Past(e)' <=> Past(e)
  BY <1>1 DEF Past, Before
<1>5. \A p \in Obj \ {o} : p \in Dirty' <=> p \in Dirty
  BY <1>1, <1>3, <1>4 DEF Dirty
<1>6. op'[c] = x
  BY <1>2 DEF Typed, TypeOK
<1>7. o \in Dirty'
  BY <1>2, <1>6 DEF Dirty, InFlight
<1>8. \A p \in Obj \ {o} : version'[p] = version[p]
  BY <1>1 DEF Typed, TypeOK
<1>9. QED  BY <1>1, <1>5, <1>7, <1>8, FeedWrites

LEMMA FeedStamp ==
  ASSUME Typed, NEW c \in Caller, Stamp(c)
  PROVE  UNCHANGED Feed!vars
<1>1. UNCHANGED <<live, version, log, ordered, index, token>> /\ op[c].step = "stamp"
  BY DEF Stamp, core, tracker
<1>2. op'[c].step = "append" /\ op'[c].obj = op[c].obj /\ \A b \in Caller \ {c} : op'[b] = op[b]
  BY DEF Stamp, Typed, TypeOK, Op
<1>3. \A p \in Obj : InFlight(p)' <=> InFlight(p)
  BY <1>1, <1>2 DEF InFlight
<1>4. \A e : Past(e)' <=> Past(e)
  BY <1>1 DEF Past, Before
<1>5. Dirty' = Dirty
  BY <1>1, <1>3, <1>4 DEF Dirty
<1>6. QED  BY <1>1, <1>5, FeedStutters

\* The content of a stored change was in flight and is now ahead of the token.
LEMMA FeedAppend ==
  ASSUME Typed, ordered', NEW c \in Caller, Append(c)
  PROVE  UNCHANGED Feed!vars
<1>1. /\ UNCHANGED <<live, version, index, token>> /\ op[c].step = "append"
      /\ ordered /\ ordered' = ordered /\ \A e \in log : e.t < op[c].t
  BY DEF Append, tracker, Typed, TypeOK
<1>2. op[c] \in Op /\ op[c].obj \in Obj
  BY <1>1 DEF Typed, TypeOK
<1>3. PICK new : new.obj = op[c].obj /\ new.t = op[c].t /\ log' = log \cup {new}
  <2>1. PICK i \in Ids : log' = log \cup {[id |-> i, t |-> op[c].t, obj |-> op[c].obj,
                                           kind |-> op[c].kind]}
    BY DEF Append
  <2>2. QED  BY <2>1
<1>4. \A e : Past(e)' <=> Past(e)
  BY <1>1 DEF Past, Before
<1>5. ~Past(new)
  <2>1. token # NoToken => token.t < new.t
    BY <1>1, <1>3 DEF Typed, TypeOK
  <2>2. QED  BY <2>1 DEF Past, Before
<1>6. PICK x : op' = [op EXCEPT ![c] = x] /\
               (x.step \in {"stamp", "append", "remove"} => x.obj = op[c].obj)
  <2>1. CASE Forced /\ op[c].kind = "DELETED"
    <3>1. op' = [op EXCEPT ![c] = [op[c] EXCEPT !.step = "remove"]]
      BY <2>1 DEF Append
    <3>2. [op[c] EXCEPT !.step = "remove"].obj = op[c].obj
      BY <1>2 DEF Op
    <3>3. QED  BY <3>1, <3>2
  <2>2. CASE ~(Forced /\ op[c].kind = "DELETED")
    <3>1. op' = [op EXCEPT ![c] = Returns(c)]
      BY <2>2 DEF Append
    <3>2. Returns(c).step \notin {"stamp", "append", "remove"}
      BY <1>2, RestTyped DEF Returns, Op
    <3>3. QED  BY <3>1, <3>2
  <2>3. QED  BY <2>1, <2>2
<1>7. ASSUME NEW p \in Obj, p # op[c].obj  PROVE p \in Dirty' <=> p \in Dirty
  <2>1. InFlight(p)' <=> InFlight(p)
    BY <1>6, <1>7, FlightOthers
  <2>2. QED  BY <1>3, <1>4, <1>7, <2>1 DEF Dirty
<1>8. op[c].obj \in Dirty /\ op[c].obj \in Dirty'
  <2>1. InFlight(op[c].obj)
    BY <1>1 DEF InFlight
  <2>2. op[c].obj \in Dirty
    BY <1>2, <2>1 DEF Dirty
  <2>3. PICK o \in Obj : o = op[c].obj
    BY <1>2
  <2>4. \E e \in log' : e.obj = o /\ ~Past(e)'
    BY <1>3, <1>4, <1>5, <2>3
  <2>5. o \in Dirty'
    BY <2>4 DEF Dirty
  <2>6. QED  BY <2>2, <2>3, <2>5
<1>9. Dirty' = Dirty
  BY <1>7, <1>8 DEF Dirty
<1>10. QED  BY <1>1, <1>9, FeedStutters

\* A content that the removal cleans has no entry any more.
LEMMA FeedRemove ==
  ASSUME Typed, ordered, IndexedUpToToken', NEW c \in Caller, Remove(c)
  PROVE  \E o \in Obj : Feed!Write(o)
<1>1. /\ UNCHANGED <<version, log, ordered, index, token>> /\ op[c].step = "remove"
      /\ live' = live \ {op[c].obj} /\ op' = [op EXCEPT ![c] = Returns(c)]
  BY DEF Remove, tracker
<1>2. PICK o \in Obj : o = op[c].obj
  BY <1>1 DEF Typed, TypeOK
<1>3. op[c] \in Op
  BY DEF Typed, TypeOK
<1>4. Returns(c).step \notin {"stamp", "append", "remove"}
  BY <1>3, RestTyped DEF Returns, Op
<1>5. \A e : Past(e)' <=> Past(e)
  BY <1>1 DEF Past, Before
<1>6. \A p \in Obj \ {o} : InFlight(p)' <=> InFlight(p)
  BY <1>1, <1>2, <1>4, FlightOthers
<1>7. \A p \in Obj \ {o} : p \in Dirty' <=> p \in Dirty
  BY <1>1, <1>5, <1>6 DEF Dirty
<1>8. o \in Dirty' \/ InSync(o)'
  BY <1>1 DEF IndexedUpToToken, Dirty
<1>9. Feed!Write(o)
  BY <1>1, <1>2, <1>7, <1>8, FeedWrites
<1>10. QED  BY <1>9

\* What a step may rest on before and after it.
FeedNextFacts == Lossless /\ Supported /\ Typed' /\ IndexedUpToToken'

\* The calls.
LEMMA FeedCalls ==
  ASSUME FeedNextFacts, ordered, ordered', Calls
  PROVE  Feed!Next \/ UNCHANGED Feed!vars
<1>1. Typed /\ Forced /\ ordered' = ordered
  BY DEF FeedNextFacts, Supported, Lossless, Typed, TypeOK
<1>2. ASSUME NEW c \in Caller, NEW o \in Obj, NEW k \in Kinds, NEW asks \in Indexing,
             Begin(c, o, k, asks)
      PROVE  Feed!Next
  <2>1. Feed!Write(o)
    BY <1>1, <1>2, FeedBegin
  <2>2. QED  BY <2>1 DEF Feed!Next
<1>3. ASSUME NEW c \in Caller, Stamp(c)  PROVE UNCHANGED Feed!vars
  BY <1>1, <1>3, FeedStamp
<1>4. ASSUME NEW c \in Caller, Append(c)  PROVE UNCHANGED Feed!vars
  BY <1>1, <1>4, FeedAppend
<1>5. ASSUME NEW c \in Caller, Remove(c)  PROVE Feed!Next
  <2>1. \E o \in Obj : Feed!Write(o)
    BY <1>1, <1>5, FeedRemove DEF FeedNextFacts
  <2>2. QED  BY <2>1 DEF Feed!Next
<1>6. CASE Tick
  <2>1. CallsUntouched /\ index' = index /\ token' = token
    BY <1>1, <1>6 DEF Tick, tracker, CallsUntouched
  <2>2. Feed!Recede
    BY <2>1, FeedRecedes
  <2>3. QED  BY <2>2 DEF Feed!Next
<1>7. ASSUME NEW c \in Caller, CallIndexing(c)  PROVE Feed!Next
  <2>1. CallsUntouched
    BY <1>1, <1>7 DEF CallIndexing, CallsUntouched, Busy, core, Typed, TypeOK, Op
  <2>2. index' = index /\ token' = token
    BY <1>7 DEF CallIndexing
  <2>3. Feed!Recede
    BY <2>1, <2>2, FeedRecedes
  <2>4. QED  BY <2>3 DEF Feed!Next
<1>8. QED  BY <1>2, <1>3, <1>4, <1>5, <1>6, <1>7 DEF Calls

\* The registration of one event.
LEMMA FeedRegisterStep ==
  ASSUME FeedNextFacts, ordered, ordered', Registers
  PROVE  Feed!Next
<1>1. Typed /\ Forced /\ Hands /\ Lossless
  BY DEF FeedNextFacts, Supported, Lossless
<1>2. PICK e \in run.todo :
        \/ TimeOut(e) \/ ReadContent(e) \/ SkipContent(e) \/ IgnoreChange(e)
        \/ \E failed \in Outcome("request") : RemoveEntry(e, failed)
  BY DEF Registers
<1>3. UNCHANGED <<live, version, log, ordered>> /\ token' = token /\ op' = op
  BY <1>2 DEF TimeOut, ReadContent, SkipContent, IgnoreChange, RemoveEntry, core
<1>4. CallsUntouched
  BY <1>1, <1>3, TrackerUntouched
<1>5. CASE TimeOut(e) \/ ReadContent(e) \/ SkipContent(e) \/ IgnoreChange(e)
  <2>1. index' = index
    BY <1>5 DEF TimeOut, ReadContent, SkipContent, IgnoreChange
  <2>2. Feed!Recede
    BY <1>3, <1>4, <2>1, FeedRecedes
  <2>3. QED  BY <2>2 DEF Feed!Next
<1>6. ASSUME NEW failed \in Outcome("request"), RemoveEntry(e, failed)  PROVE Feed!Next
  <2>1. ~failed
    BY <1>1 DEF Outcome, Occurs, Lossless
  <2>2. index' = [index EXCEPT ![e.obj] = 0] /\ run.step = "index"
    BY <1>6, <2>1 DEF RemoveEntry, Current
  <2>3. e \in log /\ ~Past(e)
    BY <1>1, <2>2 DEF Hands, InHand, Typed, TypeOK
  <2>4. e.obj \in Obj
    BY <1>1, <2>3 DEF Typed, TypeOK, Change
  <2>5. e.obj \in Dirty
    BY <2>3, <2>4 DEF Dirty
  <2>6. Feed!Register(e.obj)
    BY <1>1, <1>3, <1>4, <2>2, <2>5, FeedRegisters
  <2>7. QED  BY <2>4, <2>6 DEF Feed!Next
<1>7. QED  BY <1>2, <1>5, <1>6

LEMMA FeedSendUpdate ==
  ASSUME FeedNextFacts, ordered, NEW failed \in Outcome("request"), SendUpdate(failed)
  PROVE  Feed!Next
<1>1. Typed /\ Forced /\ Hands /\ Lossless
  BY DEF FeedNextFacts, Supported, Lossless
<1>2. UNCHANGED <<live, version, log, ordered>> /\ token' = token /\ op' = op
  BY DEF SendUpdate, core
<1>3. CallsUntouched
  BY <1>1, <1>2, TrackerUntouched
<1>4. ~failed
  BY <1>1 DEF Outcome, Occurs, Lossless
<1>5. /\ index' = [index EXCEPT ![run.got.obj] = run.got.version]
      /\ run.step = "index" /\ run.got # Nothing
  BY <1>4 DEF SendUpdate
<1>6. run \in Run
  BY <1>1 DEF Typed, TypeOK, Run
<1>7. run.got.obj \in Obj /\ run.got.version \in Nat
  BY <1>5, <1>6 DEF Run
<1>8. /\ \E e \in log : e.obj = run.got.obj /\ ~Past(e)
      /\ index[run.got.obj] <= run.got.version
  BY <1>1, <1>5 DEF Hands, InHand
<1>9. run.got.obj \in Dirty
  BY <1>7, <1>8 DEF Dirty
<1>10. Feed!Register(run.got.obj)
  BY <1>1, <1>2, <1>3, <1>5, <1>7, <1>8, <1>9, FeedRegisters
<1>11. QED  BY <1>7, <1>10 DEF Feed!Next

LEMMA FeedInitCore ==
  ASSUME FeedNextFacts, ordered, NEW action, InitCore(action)
  PROVE  Feed!Rebuild
<1>1. Typed /\ Forced /\ Chain /\ Lossless
  BY DEF FeedNextFacts, Supported, Lossless
<1>2. UNCHANGED <<live, version, log, ordered>> /\ op' = op /\ token' = NoToken
      /\ index' = [o \in Obj |-> 0]
  BY <1>1 DEF InitCore, core, Lossless
<1>3. \A p : InFlight(p)' <=> InFlight(p)
  BY <1>2 DEF InFlight
<1>4. \A e : ~Past(e)'
  BY <1>2 DEF Past
<1>5. Dirty \subseteq Dirty'
  BY <1>2, <1>3, <1>4 DEF Dirty
<1>6. ASSUME NEW o \in Obj, o \notin Dirty'  PROVE Content[o] = 0
  <2>1. ~InFlight(o) /\ \A e \in log : e.obj # o
    BY <1>2, <1>3, <1>4, <1>6 DEF Dirty
  <2>2. o \notin live
    BY <1>1, <2>1 DEF Chain, HasEvent, Writing, InFlight
  <2>3. QED  BY <2>2 DEF Content
<1>7. QED  BY <1>2, <1>5, <1>6 DEF Feed!Rebuild, Content

\* A run starts, asks for changes, or goes down with Solr.
LEMMA FeedRuns ==
  ASSUME FeedNextFacts, ordered, Schedule \/ StartFull \/ Asks \/ Crash
  PROVE  Feed!Recede
<1>1. Typed /\ Forced
  BY DEF FeedNextFacts, Supported, Lossless
<1>2. CASE Schedule \/ StartFull
  <2>1. UNCHANGED <<live, version, log, ordered, op, index, token>>
    BY <1>2 DEF Schedule, StartFull, core
  <2>2. CallsUntouched
    BY <1>1, <2>1, TrackerUntouched
  <2>3. QED  BY <2>1, <2>2, FeedRecedes
<1>3. CASE Crash
  <2>1. UNCHANGED <<live, version, log, ordered, index, token>>
    BY <1>3 DEF Crash, core
  <2>2. op' = op \/ (run.by \in Caller /\ op' = [op EXCEPT ![run.by] = Rest])
    BY <1>1, <1>3 DEF Crash, Typed, TypeOK
  <2>3. CallsUntouched
    BY <1>1, <2>1, <2>2, TrackerUntouched
  <2>4. QED  BY <2>1, <2>3, FeedRecedes
<1>4. ASSUME NEW failed1, NEW failed2,
             AskNothingNew(failed1, failed2) \/ AskChanges(failed1, failed2)
      PROVE  Feed!Recede
  <2>1. UNCHANGED <<live, version, log, ordered, index>> /\ token' = KeptToken(failed1, failed2)
    BY <1>4 DEF AskNothingNew, AskChanges, core
  <2>2. op' = op \/ RunEnds
    BY <1>4 DEF AskNothingNew, AskChanges
  <2>3. CallsUntouched
    BY <1>1, <2>1, <2>2, TrackerUntouched
  <2>4. token' \in {token, NoToken}
    BY <2>1 DEF KeptToken
  <2>5. QED  BY <2>1, <2>3, <2>4, FeedRecedes
<1>5. QED  BY <1>2, <1>3, <1>4 DEF Asks

LEMMA FeedNext ==
  ASSUME FeedNextFacts, [Next]_vars
  PROVE  [Feed!Next]_(Feed!vars)
<1>1. SUFFICES Feed!Next \/ UNCHANGED Feed!vars
  OBVIOUS
<1>2. CASE ~ordered'
  BY <1>2 DEF Feed!Next, Feed!Lose
<1>3. CASE UNCHANGED vars
  <2>1. UNCHANGED <<live, version, index, ordered>> /\ UNCHANGED <<op, log, token>>
    BY <1>3 DEF vars
  <2>2. \A e : Past(e)' <=> Past(e)
    BY <2>1 DEF Past, Before
  <2>3. Dirty' = Dirty
    BY <2>1, <2>2 DEF Dirty, InFlight
  <2>4. QED  BY <2>1, <2>3, FeedStutters
<1>4. CASE ordered' /\ Next
  <2>1. Lossless /\ Typed /\ Delivery /\ Tracking
    BY DEF FeedNextFacts, Supported
  <2>2. CASE Calls
    <3>1. ordered
      BY <1>4, <2>1, <2>2
      DEF Calls, Begin, Stamp, Append, Remove, Tick, CallIndexing, core, Typed, TypeOK
    <3>2. QED  BY <1>4, <2>2, <3>1, FeedCalls
  <2>3. CASE ~Calls
    <3>1. ordered
      BY <1>4, <2>3
      DEF Next, Schedule, StartFull, Advances, Asks, AskNothingNew, AskChanges, Registers,
          TimeOut, ReadContent, SkipContent, RemoveEntry, IgnoreChange, SendUpdate,
          StoreToken, InitCore, Crash, core
    <3>2. CASE Schedule \/ StartFull \/ Asks \/ Crash
      BY <3>1, <3>2, FeedRuns DEF Feed!Next
    <3>3. CASE Registers
      BY <1>4, <3>1, <3>3, FeedRegisterStep
    <3>4. ASSUME NEW failed \in Outcome("request"), SendUpdate(failed)  PROVE Feed!Next
      BY <3>1, <3>4, FeedSendUpdate
    <3>5. ASSUME NEW failed \in Outcome("store"), StoreToken(failed)  PROVE Feed!Next
      <4>1. Feed!Settle
        BY <2>1, <3>1, <3>5, FeedSettles DEF FeedNextFacts
      <4>2. QED  BY <4>1 DEF Feed!Next
    <3>6. ASSUME NEW action, InitCore(action)  PROVE Feed!Next
      BY <3>1, <3>6, FeedInitCore DEF Feed!Next
    <3>7. QED
      BY <1>4, <2>3, <3>2, <3>3, <3>4, <3>5, <3>6 DEF Next, Advances
  <2>4. QED  BY <2>2, <2>3
<1>5. QED  BY <1>2, <1>3, <1>4

\* While nothing is lost on the way, what the tracker does to the index is what the
\* feed promises: every step of a call, of a run, of an administrator or of a crash
\* is a step of ChangeFeed or leaves what the feed sees alone (CoreTracker.index,
\* Registration.run, storeLatestChangeToken, initCore).
THEOREM TrackerFollowsFeed == ASSUME Lossless PROVE Spec => FollowsFeed
<1>1. Init => Feed!Init /\ Hands
  <2>1. SUFFICES ASSUME Init  PROVE Feed!Init /\ Hands
    OBVIOUS
  <2>2. /\ log = {} /\ live = {} /\ run = Idle /\ ordered
        /\ index = [o \in Obj |-> 0] /\ version = [o \in Obj |-> 0]
        /\ \A c \in Caller : op[c].step = "idle"
    BY <2>1, RestTyped DEF Init
  <2>3. Hands
    BY <2>2 DEF Hands, Idle
  <2>4. Dirty = {}
    BY <2>2 DEF Dirty, InFlight
  <2>5. Feed!Init
    BY <2>2, <2>4 DEF Feed!Init
  <2>6. QED  BY <2>3, <2>5
<1>2. Chain' /\ Tracking' => IndexedUpToToken'
  BY IndexedFromTracking, PTL
<1>3. ASSUME Typed, Typed', Delivery, Chain, Chain', Tracking, Tracking', Hands, [Next]_vars
      PROVE  [Feed!Next]_(Feed!vars)
  <2>1. IndexedUpToToken'
    BY <1>3, <1>2
  <2>2. FeedNextFacts
    BY <1>3, <2>1 DEF FeedNextFacts, Supported
  <2>3. QED  BY <1>3, <2>2, FeedNext
<1>4. QED
  BY <1>1, <1>3, TrackingInit, TypedAlways, DeliveryNext, TrackingNext, HandsNext, PTL
  DEF Spec, FollowsFeed, Feed!Spec

-----------------------------------------------------------------------------
(***************************************************************************)
(* The index follows the repository as soon as no call is running          *)
(***************************************************************************)

\* Every call asks for indexing before it returns, and a run is given a change
\* beside that of the token.
Prompt == Lossless /\ Indexing \subseteq {TRUE} /\ DeltaItems > 1

Ahead == {e \in log : ~Past(e)}

\* The callers whose run is still to come, or to end.
Owing == {c \in Caller : op[c].step \in {"remove", "index", "wait"}}

Asking == \A c \in Caller : Busy(c) => op[c].asks

\* Each change ahead of the token has a caller of its own that owes a run, and a
\* run that was given changes ends with one less of them.
Prompted ==
  /\ budget <= Budget
  /\ budget = Budget => ~fullDue /\ ~run.full
  /\ Asking
  /\ IsFiniteSet(Owing)
  /\ ordered /\ budget = Budget =>
       /\ Cardinality(Ahead) <= Cardinality(Owing)
       /\ run.step = "index" => ~Past(run.next)

LEMMA FirstExists ==
  ASSUME NEW S, S \subseteq Change, IsFiniteSet(S), S # {}
  PROVE  \E e \in S : \A d \in S : ~Before(d, e)
<1> DEFINE Below(e) == {d \in S : Before(d, e)}
           Heads == {Below(e) : e \in S}
<1>1. Heads \subseteq FiniteSubsetsOf(S)
  <2>1. ASSUME NEW e \in S  PROVE Below(e) \in FiniteSubsetsOf(S)
    <3>1. Below(e) \in SUBSET S
      OBVIOUS
    <3>2. IsFiniteSet(Below(e))
      BY <3>1, FS_Subset
    <3>3. QED  BY <3>1, <3>2 DEF FiniteSubsetsOf
  <2>2. QED  BY <2>1
<1>2. Heads # {}
  <2>1. PICK e \in S : TRUE
    OBVIOUS
  <2>2. Below(e) \in Heads
    OBVIOUS
  <2>3. QED  BY <2>2
<1>3. PICK T \in Heads : \A U \in Heads : <<U, T>> \notin StrictSubsetOrdering(S)
  BY <1>1, <1>2, WFMin, FS_StrictSubsetOrderingWellFounded
<1>4. PICK e \in S : T = Below(e)
  BY <1>3
<1>5. SUFFICES ASSUME NEW d \in S, Before(d, e)
               PROVE  FALSE
  BY <1>4
<1>6. Below(d) \in Heads
  OBVIOUS
<1>7. Below(d) \subseteq Below(e)
  BY <1>5, BeforeOrder
<1>8. d \in Below(e) /\ d \notin Below(d)
  BY <1>5, BeforeOrder
<1>9. Below(d) \subseteq S /\ Below(e) \subseteq S
  OBVIOUS
<1>10. <<Below(d), Below(e)>> \in StrictSubsetOrdering(S)
  <2> HIDE DEF Below
  <2>1. Below(d) # Below(e)
    BY <1>8
  <2>2. QED  BY <1>7, <1>9, <2>1 DEF StrictSubsetOrdering
<1>11. QED  BY <1>3, <1>4, <1>6, <1>10

\* A delta run that finds nothing new has nothing ahead of it: the answer holds
\* the change of the token and the first one after it.
LEMMA NothingAhead ==
  ASSUME Typed, DistinctTimes, DeltaItems > 1, ~run.full,
         NewEvents(FALSE, FALSE) = {}
  PROVE  Ahead = {}
<1>1. SUFFICES ASSUME Ahead # {}  PROVE FALSE
  OBVIOUS
<1>2. log \subseteq Change /\ Ahead \subseteq log /\ IsFiniteSet(Ahead)
  BY FS_Subset DEF Typed, TypeOK, Ahead
<1>3. PICK e \in Ahead : \A d \in Ahead : ~Before(d, e)
  BY <1>1, <1>2, FirstExists
<1>4. e \in log /\ ~Past(e) /\ token \in log \cup {NoToken}
  BY <1>3 DEF Ahead, Typed, TypeOK
<1>5. \A d \in log : d.t \in Nat /\ d.id \in Nat
  BY <1>2, SolrTrackerAssumptions DEF Change
<1> DEFINE from == {d \in log : token = NoToken \/ d.t >= token.t}
           Below == {d \in from : Before(d, e)}
<1>6. e \in from
  BY <1>4, <1>5 DEF Past, Before
<1>7. \A d \in Below : token # NoToken /\ d = token
  <2>1. SUFFICES ASSUME NEW d \in Below  PROVE token # NoToken /\ d = token
    OBVIOUS
  <2>2. d \in log /\ Before(d, e) /\ (token = NoToken \/ d.t >= token.t)
    OBVIOUS
  <2>3. Past(d)
    BY <1>3, <2>2 DEF Ahead
  <2>4. token # NoToken /\ ~Before(token, d) /\ token \in log
    BY <1>4, <2>3 DEF Past
  <2>5. d.t = token.t
    BY <1>5, <2>2, <2>4 DEF Before
  <2>6. QED  BY <2>2, <2>4, <2>5 DEF DistinctTimes
<1>8. Cardinality(Below) < DeltaItems
  <2>1. Below \subseteq {token}
    BY <1>7
  <2>2. IsFiniteSet({token}) /\ Cardinality({token}) = 1
    BY FS_Singleton
  <2>3. IsFiniteSet(Below) /\ Cardinality(Below) <= 1
    BY <2>1, <2>2, FS_Subset
  <2>4. Cardinality(Below) \in Nat /\ DeltaItems \in Nat
    BY <2>3, FS_CardinalityType, SolrTrackerAssumptions
  <2>5. QED  BY <2>3, <2>4
<1>9. e \in Received(FALSE)
  <2>1. e \in Answer(token, DeltaItems)
    BY <1>6, <1>8 DEF Answer
  <2>2. QED  BY <2>1 DEF Received, Limit
<1>10. CASE token = NoToken
  BY <1>9, <1>10 DEF NewEvents, Events, KeptToken
<1>11. CASE token # NoToken
  <2>1. token \in log /\ Before(token, e)
    BY <1>4, <1>11 DEF Past
  <2>2. ~Before(e, token) /\ token.t >= token.t
    BY <1>2, <1>4, <1>5, <2>1, BeforeOrder
  <2>3. Limit \in Nat /\ e \in Answer(token, Limit) /\ Received(FALSE) = Answer(token, Limit)
    BY <1>9, SolrTrackerAssumptions DEF Received, Limit
  <2>4. token \in Received(FALSE)
    BY <2>1, <2>2, <2>3, AnswerPrefix
  <2>5. e \in NewEvents(FALSE, FALSE)
    BY <1>9, <2>1, <2>4 DEF NewEvents, Events, KeptToken
  <2>6. QED  BY <2>5
<1>12. QED  BY <1>10, <1>11

\* A failure and an administrator's request are paid for.
LEMMA PromptedSpent ==
  ASSUME Typed, Typed', Prompted, budget' < Budget, Asking', IsFiniteSet(Owing)'
  PROVE  Prompted'
<1>1. budget' \in Nat /\ Budget \in Nat
  BY SolrTrackerAssumptions DEF Typed, TypeOK
<1>2. QED  BY <1>1 DEF Prompted

\* A step that leaves the log, the token and those who owe a run alone.
LEMMA PromptedKept ==
  ASSUME Typed, Typed', Prompted, UNCHANGED <<log, token, fullDue>>, Owing' = Owing,
         Asking', ordered' => ordered, budget' <= budget, run'.full => run.full,
         run'.step = "index" => run.step = "index" /\ run'.next = run.next
  PROVE  Prompted'
<1>1. budget \in Nat /\ budget' \in Nat /\ Budget \in Nat
  BY SolrTrackerAssumptions DEF Typed, TypeOK
<1>2. \A e : Past(e)' <=> Past(e)
  BY DEF Past, Before
<1>3. Ahead' = Ahead
  BY <1>2 DEF Ahead
<1>4. run'.step = "index" => (Past(run.next)' <=> Past(run.next))
  BY DEF Past, Before
<1>5. QED  BY <1>1, <1>3, <1>4 DEF Prompted

\* The callers that a step does not touch owe as much as before.
LEMMA OwesOne ==
  ASSUME Typed, NEW c \in Caller, NEW x, op' = [op EXCEPT ![c] = x]
  PROVE  /\ x.step \in {"remove", "index", "wait"} => Owing' = Owing \cup {c}
         /\ x.step \notin {"remove", "index", "wait"} => Owing' = Owing \ {c}
<1>1. op'[c] = x /\ \A b \in Caller \ {c} : op'[b] = op[b]
  BY DEF Typed, TypeOK
<1>2. QED  BY <1>1 DEF Owing

LEMMA AsksOne ==
  ASSUME Typed, Asking, NEW c \in Caller, NEW x, op' = [op EXCEPT ![c] = x],
         x.step \in {"stamp", "append", "remove"} => x.asks
  PROVE  Asking'
<1>1. op'[c] = x /\ \A b \in Caller \ {c} : op'[b] = op[b]
  BY DEF Typed, TypeOK
<1>2. QED  BY <1>1 DEF Asking, Busy

\* With forced indexing the caller that asked for the run is done with it.
LEMMA RunPays ==
  ASSUME Typed, Forced, Asking, RunEnds
  PROVE  /\ Asking'
         /\ Owing' = Owing \ {run.by}
<1>1. CASE run.by = Nobody
  <2>1. op' = op /\ run.by \notin Owing
    BY <1>1, SolrTrackerAssumptions DEF RunEnds, Owing
  <2>2. QED  BY <2>1 DEF Asking, Busy, Owing
<1>2. CASE run.by # Nobody
  <2>1. run.by \in Caller
    BY <1>2 DEF Typed, TypeOK
  <2>2. op' = [op EXCEPT ![run.by] = Rest]
    BY <1>2, <2>1 DEF RunEnds, Resume
  <2>3. Rest.step = "idle"
    BY RestTyped
  <2>4. QED  BY <2>1, <2>2, <2>3, OwesOne, AsksOne
<1>3. QED  BY <1>1, <1>2

\* The caller of Append owes a run for the change it adds.
LEMMA AppendPrompted ==
  ASSUME Typed, Typed', Prompt, Prompted, NEW c \in Caller, Append(c)
  PROVE  Prompted'
<1> DEFINE next == IF op[c].kind = "DELETED" THEN [op[c] EXCEPT !.step = "remove"]
                   ELSE [op[c] EXCEPT !.step = "index"]
<1>1. op[c] \in Op /\ op[c].step = "append" /\ op[c].asks
  BY DEF Append, Typed, TypeOK, Prompted, Asking, Busy
<1>2. op' = [op EXCEPT ![c] = next]
  BY <1>1 DEF Append, Returns, Prompt, Lossless
<1>3. next.step \in {"remove", "index"} /\ next.asks
  BY <1>1 DEF Op
<1>4. Asking' /\ Owing' = Owing \cup {c} /\ c \notin Owing
  BY <1>1, <1>2, <1>3, OwesOne, AsksOne DEF Prompted, Owing
<1>5. UNCHANGED <<token, run, budget, fullDue>> /\ (ordered' => ordered)
  BY DEF Append, tracker, Typed, TypeOK
<1>6. PICK e : log' = log \cup {e}
  BY DEF Append
<1>7. \A d : Past(d)' <=> Past(d)
  BY <1>5 DEF Past, Before
<1>8. Ahead' \subseteq Ahead \cup {e}
  BY <1>6, <1>7 DEF Ahead
<1>9. IsFiniteSet(Ahead) /\ IsFiniteSet(Owing) /\ IsFiniteSet(Owing)'
  <2>1. Ahead \subseteq log
    BY DEF Ahead
  <2>2. QED  BY <1>4, <2>1, FS_Subset, FS_AddElement DEF Typed, Prompted
<1>10. Cardinality(Owing)' = Cardinality(Owing) + 1
  BY <1>4, <1>9, FS_AddElement
<1>11. Cardinality(Ahead)' <= Cardinality(Ahead) + 1
  <2> HIDE DEF next
  <2>1. IsFiniteSet(Ahead \cup {e}) /\ Cardinality(Ahead \cup {e}) <= Cardinality(Ahead) + 1
    <3>1. Cardinality(Ahead) \in Nat
      BY <1>9, FS_CardinalityType
    <3>2. /\ IsFiniteSet(Ahead \cup {e})
          /\ Cardinality(Ahead \cup {e})
             = IF e \in Ahead THEN Cardinality(Ahead) ELSE Cardinality(Ahead) + 1
      BY <1>9, FS_AddElement
    <3>3. QED  BY <3>1, <3>2
  <2>2. IsFiniteSet(Ahead') /\ Cardinality(Ahead') <= Cardinality(Ahead \cup {e})
    BY <1>8, <2>1, FS_Subset
  <2>3. /\ Cardinality(Ahead) \in Nat /\ Cardinality(Ahead') \in Nat
        /\ Cardinality(Ahead \cup {e}) \in Nat
    BY <1>9, <2>1, <2>2, FS_CardinalityType
  <2>4. QED  BY <2>1, <2>2, <2>3
<1>12. Cardinality(Ahead) <= Cardinality(Owing)
       => Cardinality(Ahead)' <= Cardinality(Owing)'
  <2>1. /\ Cardinality(Ahead) \in Nat /\ Cardinality(Owing) \in Nat
        /\ Cardinality(Ahead)' \in Nat
    <3>1. IsFiniteSet(Ahead \cup {e})
      BY <1>9, FS_AddElement
    <3>2. QED  BY <1>8, <1>9, <3>1, FS_CardinalityType, FS_Subset
  <2>2. QED  BY <1>10, <1>11, <2>1
<1>13. run.step = "index" => (Past(run.next)' <=> Past(run.next))
  BY <1>5, <1>7
<1>14. QED  BY <1>4, <1>5, <1>9, <1>12, <1>13 DEF Prompted

\* A request that reads the token without failing costs nothing.
LEMMA ReadsFree ==
  ASSUME Typed, Typed', Prompted, NEW failed1 \in BOOLEAN, NEW failed2 \in BOOLEAN,
         Spends(failed1 \/ failed2)
  PROVE  budget' < Budget \/ (budget' = budget /\ failed1 = FALSE /\ failed2 = FALSE)
<1>1. budget \in Nat /\ Budget \in Nat /\ budget <= Budget
  BY SolrTrackerAssumptions DEF Typed, TypeOK, Prompted
<1>2. CASE failed1 \/ failed2
  BY <1>1, <1>2 DEF Spends
<1>3. CASE ~(failed1 \/ failed2)
  BY <1>3 DEF Spends
<1>4. QED  BY <1>2, <1>3

LEMMA AskNothingNewPrompted ==
  ASSUME Typed, Typed', Delivery, Prompt, Prompted, NEW failed1 \in BOOLEAN,
         NEW failed2 \in BOOLEAN, AskNothingNew(failed1, failed2)
  PROVE  Prompted'
<1>1. /\ RunEnds /\ Spends(failed1 \/ failed2) /\ UNCHANGED <<log, ordered, fullDue>>
      /\ token' = KeptToken(failed1, failed2) /\ NewEvents(failed1, failed2) = {}
  BY DEF AskNothingNew, core
<1>2. Asking' /\ Owing' = Owing \ {run.by}
  BY <1>1, RunPays DEF Prompted, Prompt, Lossless
<1>3. IsFiniteSet(Owing')
  BY <1>2, FS_RemoveElement DEF Prompted
<1>4. CASE budget' < Budget
  BY <1>2, <1>3, <1>4, PromptedSpent
<1>5. CASE budget' = budget /\ failed1 = FALSE /\ failed2 = FALSE
  <2>1. run'.step = "idle" /\ ~run'.full
    BY <1>1 DEF RunEnds, Idle
  <2>2. token' = token
    BY <1>1, <1>5 DEF KeptToken
  <2>3. ASSUME ordered, budget = Budget  PROVE Cardinality(Ahead') <= Cardinality(Owing')
    <3>1. Ahead = {}
      BY <1>1, <1>5, <2>3, NothingAhead DEF Delivery, Prompted, Prompt
    <3>2. Ahead' = {}
      BY <1>1, <2>2, <3>1 DEF Ahead, Past, Before
    <3>3. Cardinality(Ahead') = 0 /\ Cardinality(Owing') \in Nat
      BY <1>3, <3>2, FS_EmptySet, FS_CardinalityType
    <3>4. QED  BY <3>3
  <2>4. QED  BY <1>1, <1>2, <1>3, <1>5, <2>1, <2>3 DEF Prompted
<1>6. QED  BY <1>1, <1>4, <1>5, ReadsFree

LEMMA AskChangesPrompted ==
  ASSUME Typed, Typed', Delivery, Prompt, Prompted, NEW failed1 \in BOOLEAN,
         NEW failed2 \in BOOLEAN, AskChanges(failed1, failed2)
  PROVE  Prompted'
<1>1. /\ Spends(failed1 \/ failed2) /\ UNCHANGED <<log, ordered, fullDue>> /\ op' = op
      /\ token' = KeptToken(failed1, failed2)
  BY DEF AskChanges, core
<1>2. Asking' /\ Owing' = Owing
  BY <1>1 DEF Asking, Busy, Owing, Prompted
<1>3. CASE budget' < Budget
  BY <1>2, <1>3, PromptedSpent DEF Prompted
<1>4. CASE budget' = budget /\ failed1 = FALSE /\ failed2 = FALSE
  <2>1. token' = token
    BY <1>1, <1>4 DEF KeptToken
  <2>2. PICK last \in Received(failed1) :
          /\ \A e \in Received(failed1) : ~Before(last, e)
          /\ run' = [run EXCEPT !.step = "index", !.next = last,
                       !.todo = ExtractChangeEvent(NewEvents(failed1, failed2))]
    BY DEF AskChanges
  <2>3. run'.next = last /\ run'.full = run.full
    BY <2>2 DEF Typed, TypeOK, Run
  <2>4. ASSUME ordered  PROVE ~Past(last)'
    <3>1. PICK e \in NewEvents(failed1, failed2) : TRUE
      BY DEF AskChanges
    <3>2. e \in log /\ ~Past(e)' /\ last \in log /\ ~Before(last, e)
      BY <1>1, <2>2, <2>4, NewAhead, EventsFound DEF Delivery
    <3>3. CASE token' = NoToken
      BY <3>3 DEF Past
    <3>4. CASE token' # NoToken
      <4>1. token \in log /\ Before(token, e) /\ log \subseteq Change
        BY <2>1, <3>2, <3>4 DEF Past, Before, Typed, TypeOK
      <4>2. Before(token, last)
        BY <3>2, <4>1, BeforeOrder
      <4>3. QED  BY <2>1, <4>2 DEF Past, Before
    <3>5. QED  BY <3>3, <3>4
  <2>5. Ahead' = Ahead
    BY <1>1, <2>1 DEF Ahead, Past, Before
  <2>6. Past(run.next)' <=> Past(last)'
    BY <2>3 DEF Past, Before
  <2>7. QED  BY <1>1, <1>2, <1>4, <2>3, <2>4, <2>5, <2>6 DEF Prompted
<1>5. QED  BY <1>1, <1>3, <1>4, ReadsFree

\* A run that stores the token leaves one change less ahead of it, and at most one
\* caller less that owes a run.
LEMMA StoreTokenPrompted ==
  ASSUME Typed, Typed', Prompt, Prompted, NEW failed \in Outcome("store"),
         StoreToken(failed)
  PROVE  Prompted'
<1>1. failed = FALSE
  BY DEF Outcome, Occurs, Prompt, Lossless
<1>2. /\ UNCHANGED <<log, ordered, fullDue>> /\ token' = run.next /\ budget' = budget
      /\ run.step = "index"
  BY <1>1 DEF StoreToken, core, Spends
<1>3. CASE run.full
  <2>1. budget' < Budget
    <3>1. budget # Budget /\ budget <= Budget
      BY <1>3 DEF Prompted
    <3>2. budget \in Nat /\ Budget \in Nat
      BY SolrTrackerAssumptions DEF Typed, TypeOK
    <3>3. QED  BY <1>2, <3>1, <3>2
  <2>2. op' = op
    BY <1>3 DEF StoreToken
  <2>3. Asking' /\ Owing' = Owing
    BY <2>2 DEF Asking, Busy, Owing, Prompted
  <2>4. QED  BY <2>1, <2>3, PromptedSpent DEF Prompted
<1>4. CASE ~run.full
  <2>1. RunEnds
    BY <1>4 DEF StoreToken
  <2>2. Asking' /\ Owing' = Owing \ {run.by}
    BY <2>1, RunPays DEF Prompted, Prompt, Lossless
  <2>3. run'.step = "idle" /\ ~run'.full
    BY <2>1 DEF RunEnds, Idle
  <2>4. IsFiniteSet(Owing) /\ IsFiniteSet(Owing')
    BY <2>2, FS_RemoveElement DEF Prompted
  <2>5. ASSUME ordered, budget = Budget  PROVE Cardinality(Ahead') <= Cardinality(Owing')
    <3>1. ~Past(run.next) /\ Cardinality(Ahead) <= Cardinality(Owing)
      BY <1>2, <2>5 DEF Prompted
    <3>2. /\ run.next \in log /\ log \subseteq Change /\ token \in log \cup {NoToken}
          /\ run.next # NoToken
      BY <1>2, SolrTrackerAssumptions DEF Typed, TypeOK
    <3>3. run.next \in Ahead
      BY <3>1, <3>2 DEF Ahead
    <3>4. Ahead' \subseteq Ahead \ {run.next}
      <4>1. SUFFICES ASSUME NEW e \in Ahead'  PROVE e \in Ahead \ {run.next}
        OBVIOUS
      <4>2. e \in log /\ Before(run.next, e)
        BY <1>2, <3>2, <4>1 DEF Ahead, Past, Before
      <4>3. e # run.next
        BY <3>2, <4>2, BeforeOrder
      <4>4. token = NoToken \/ Before(token, e)
        <5>1. token # NoToken => token \in log /\ Before(token, run.next)
          BY <3>1, <3>2 DEF Past
        <5>2. QED  BY <3>2, <4>2, <5>1, BeforeOrder
      <4>5. ~Past(e)
        BY <4>4 DEF Past
      <4>6. QED  BY <4>2, <4>3, <4>5 DEF Ahead
    <3>5. IsFiniteSet(Ahead)
      <4>1. Ahead \subseteq log
        BY DEF Ahead
      <4>2. QED  BY <4>1, FS_Subset DEF Typed
    <3>6. /\ IsFiniteSet(Ahead \ {run.next})
          /\ Cardinality(Ahead \ {run.next}) = Cardinality(Ahead) - 1
      BY <3>3, <3>5, FS_RemoveElement
    <3>7. /\ IsFiniteSet(Ahead')
          /\ Cardinality(Ahead') <= Cardinality(Ahead \ {run.next})
      BY <3>4, <3>6, FS_Subset
    <3>8. Cardinality(Owing') = IF run.by \in Owing THEN Cardinality(Owing) - 1
                                ELSE Cardinality(Owing)
      BY <2>2, <2>4, FS_RemoveElement
    <3>9. Cardinality(Ahead) \in Nat /\ Cardinality(Owing) \in Nat /\ Cardinality(Ahead') \in Nat
      BY <2>4, <3>5, <3>7, FS_CardinalityType
    <3>10. QED  BY <3>1, <3>6, <3>7, <3>8, <3>9
  <2>6. QED  BY <1>2, <2>2, <2>3, <2>4, <2>5 DEF Prompted
<1>5. QED  BY <1>3, <1>4

LEMMA CallsPrompted ==
  ASSUME Typed, Typed', Prompt, Prompted, Calls
  PROVE  Prompted'
<1> budget \in Nat
  BY DEF Typed, TypeOK
<1>1. ASSUME NEW c \in Caller, NEW o \in Obj, NEW k \in Kinds, NEW asks \in Indexing,
             Begin(c, o, k, asks)
      PROVE  Prompted'
  <2>1. PICK x : x = [step |-> "stamp", obj |-> o, kind |-> k, t |-> 0, asks |-> asks]
    OBVIOUS
  <2>2. op' = [op EXCEPT ![c] = x] /\ op[c].step = "idle" /\ x.step = "stamp" /\ x.asks
    BY <1>1, <2>1 DEF Begin, Prompt
  <2>3. Asking' /\ Owing' = Owing
    BY <2>2, OwesOne, AsksOne DEF Prompted, Owing
  <2>4. UNCHANGED <<log, token, run, fullDue, ordered, budget>>
    BY <1>1 DEF Begin, tracker
  <2>5. QED  BY <2>3, <2>4, PromptedKept
<1>2. ASSUME NEW c \in Caller, Stamp(c)  PROVE Prompted'
  <2>1. PICK x : x = [op[c] EXCEPT !.step = "append", !.t = clock]
    OBVIOUS
  <2>2. op[c] \in Op /\ op[c].step = "stamp" /\ op[c].asks
    BY <1>2 DEF Stamp, Typed, TypeOK, Prompted, Asking, Busy
  <2>3. op' = [op EXCEPT ![c] = x] /\ x.step = "append" /\ x.asks
    BY <1>2, <2>1, <2>2 DEF Stamp, Op
  <2>4. Asking' /\ Owing' = Owing
    BY <2>2, <2>3, OwesOne, AsksOne DEF Prompted, Owing
  <2>5. UNCHANGED <<log, token, run, fullDue, ordered, budget>>
    BY <1>2 DEF Stamp, core, tracker
  <2>6. QED  BY <2>4, <2>5, PromptedKept
<1>3. ASSUME NEW c \in Caller, Append(c)  PROVE Prompted'
  BY <1>3, AppendPrompted
<1>4. ASSUME NEW c \in Caller, Remove(c)  PROVE Prompted'
  <2>1. PICK x : x = [op[c] EXCEPT !.step = "index"]
    OBVIOUS
  <2>2. op[c] \in Op /\ op[c].step = "remove" /\ op[c].asks
    BY <1>4 DEF Remove, Typed, TypeOK, Prompted, Asking, Busy
  <2>3. op' = [op EXCEPT ![c] = x] /\ x.step = "index"
    BY <1>4, <2>1, <2>2 DEF Remove, Returns, Op
  <2>4. Asking' /\ Owing' = Owing
    BY <2>2, <2>3, OwesOne, AsksOne DEF Prompted, Owing
  <2>5. UNCHANGED <<log, token, run, fullDue, ordered, budget>>
    BY <1>4 DEF Remove, tracker
  <2>6. QED  BY <2>4, <2>5, PromptedKept
<1>5. ASSUME NEW c \in Caller, CallIndexing(c)  PROVE Prompted'
  <2>1. PICK x : x = [op[c] EXCEPT !.step = "wait"]
    OBVIOUS
  <2>2. op[c] \in Op /\ op[c].step = "index"
    BY <1>5 DEF CallIndexing, Typed, TypeOK
  <2>3. op' = [op EXCEPT ![c] = x] /\ x.step = "wait"
    BY <1>5, <2>1, <2>2 DEF CallIndexing, Op
  <2>4. Asking' /\ Owing' = Owing
    BY <2>2, <2>3, OwesOne, AsksOne DEF Prompted, Owing
  <2>5. /\ UNCHANGED <<log, token, fullDue, ordered, budget>>
        /\ run'.step = "ask" /\ ~run'.full
    BY <1>5 DEF CallIndexing, core, Idle
  <2>6. QED  BY <2>4, <2>5, PromptedKept
<1>6. ASSUME Tick  PROVE Prompted'
  <2>1. UNCHANGED <<log, token, run, fullDue, ordered, budget, op>>
    BY <1>6 DEF Tick, tracker
  <2>2. Asking' /\ Owing' = Owing
    BY <2>1 DEF Asking, Busy, Owing, Prompted
  <2>3. QED  BY <2>1, <2>2, PromptedKept
<1>7. QED  BY <1>1, <1>2, <1>3, <1>4, <1>5, <1>6 DEF Calls

\* What a registration, the scheduler, an administrator and a crash do to it.
LEMMA RunsPrompted ==
  ASSUME Typed, Typed', Prompt, Prompted,
         \/ Schedule \/ StartFull \/ Registers \/ Crash
         \/ \E failed \in Outcome("request") : SendUpdate(failed)
         \/ \E action : InitCore(action)
  PROVE  Prompted'
<1>1. budget \in Nat /\ Budget \in Nat /\ budget <= Budget
  BY SolrTrackerAssumptions DEF Typed, TypeOK, Prompted
<1>2. CASE Crash
  <2>1. budget' < Budget
    BY <1>1, <1>2 DEF Crash, Occurs
  <2>2. Asking' /\ (Owing' = Owing \/ Owing' = Owing \ {run.by})
    <3>1. CASE run.by = Nobody
      BY <1>2, <3>1 DEF Crash, Asking, Busy, Owing, Prompted
    <3>2. CASE run.by # Nobody
      BY <1>2, <3>2, OwesOne, AsksOne, RestTyped DEF Crash, Typed, TypeOK, Prompted
    <3>3. QED  BY <3>1, <3>2
  <2>3. IsFiniteSet(Owing')
    BY <2>2, FS_RemoveElement DEF Prompted
  <2>4. QED  BY <2>1, <2>2, <2>3, PromptedSpent
<1>3. CASE ~Crash
  <2>1. op' = op
    BY <1>3 DEF Schedule, StartFull, Registers, SendUpdate, InitCore, TimeOut, ReadContent,
                SkipContent, RemoveEntry, IgnoreChange
  <2>2. Asking' /\ Owing' = Owing
    BY <2>1 DEF Asking, Busy, Owing, Prompted
  <2>3. ASSUME NEW action, InitCore(action)  PROVE Prompted'
    <3>1. budget' < Budget
      BY <1>1, <2>3 DEF InitCore
    <3>2. QED  BY <2>2, <3>1, PromptedSpent DEF Prompted
  <2>4. CASE Schedule
    <3>1. UNCHANGED <<log, token, fullDue, ordered, budget>> /\ run'.step = "ask" /\ ~run'.full
      BY <2>4 DEF Schedule, core, Idle
    <3>2. QED  BY <1>1, <2>2, <3>1, PromptedKept
  <2>5. CASE StartFull
    <3>1. budget' < Budget
      BY <1>1, <2>5 DEF StartFull, Prompted
    <3>2. QED  BY <2>2, <3>1, PromptedSpent DEF Prompted
  <2>6. CASE Registers
    <3>1. PICK e \in run.todo :
            \/ TimeOut(e) \/ ReadContent(e) \/ SkipContent(e) \/ IgnoreChange(e)
            \/ \E failed \in Outcome("request") : RemoveEntry(e, failed)
      BY <2>6 DEF Registers
    <3>2. run \in Run /\ UNCHANGED <<log, token, fullDue, ordered>>
      BY <3>1 DEF TimeOut, ReadContent, SkipContent, RemoveEntry, IgnoreChange, core,
                  Typed, TypeOK, Run
    <3>3. run'.step = run.step /\ run'.next = run.next /\ run'.full = run.full
      BY <3>1, <3>2 DEF TimeOut, ReadContent, SkipContent, RemoveEntry, IgnoreChange,
                        Handled, Run
    <3>4. budget' <= budget
      BY <1>1, <3>1 DEF TimeOut, ReadContent, SkipContent, RemoveEntry, IgnoreChange, Spends
    <3>5. QED  BY <2>2, <3>2, <3>3, <3>4, PromptedKept
  <2>7. ASSUME NEW failed \in Outcome("request"), SendUpdate(failed)  PROVE Prompted'
    <3>1. run \in Run /\ UNCHANGED <<log, token, fullDue, ordered>> /\ budget' <= budget
      BY <1>1, <2>7 DEF SendUpdate, core, Spends, Typed, TypeOK, Run
    <3>2. run'.step = run.step /\ run'.next = run.next /\ run'.full = run.full
      BY <2>7, <3>1 DEF SendUpdate, Run
    <3>3. QED  BY <2>2, <3>1, <3>2, PromptedKept
  <2>8. QED  BY <1>3, <2>3, <2>4, <2>5, <2>6, <2>7
<1>4. QED  BY <1>2, <1>3

LEMMA PromptedNext ==
  Prompt /\ Typed /\ Typed' /\ Delivery /\ Prompted /\ [Next]_vars => Prompted'
<1>1. SUFFICES ASSUME Prompt, Typed, Typed', Delivery, Prompted, [Next]_vars
               PROVE  Prompted'
  OBVIOUS
<1>2. CASE Calls
  BY <1>1, <1>2, CallsPrompted
<1>3. CASE Asks
  <2>1. PICK failed1 \in Outcome("read"), failed2 \in Outcome("read") :
          AskNothingNew(failed1, failed2) \/ AskChanges(failed1, failed2)
    BY <1>3 DEF Asks
  <2>2. failed1 \in BOOLEAN /\ failed2 \in BOOLEAN
    BY DEF Outcome
  <2>3. QED  BY <1>1, <2>1, <2>2, AskNothingNewPrompted, AskChangesPrompted
<1>4. ASSUME NEW failed \in Outcome("store"), StoreToken(failed)  PROVE Prompted'
  BY <1>1, <1>4, StoreTokenPrompted
<1>5. CASE UNCHANGED vars
  <2>1. UNCHANGED <<log, token, run, fullDue, ordered, budget, op>>
    BY <1>5 DEF vars
  <2>2. Asking' /\ Owing' = Owing /\ budget' <= budget
    BY <1>1, <2>1 DEF Asking, Busy, Owing, Prompted, Typed, TypeOK
  <2>3. QED  BY <1>1, <2>1, <2>2, PromptedKept
<1>6. CASE Schedule \/ StartFull \/ Registers \/ Crash
  BY <1>1, <1>6, RunsPrompted
<1>7. ASSUME NEW failed \in Outcome("request"), SendUpdate(failed)  PROVE Prompted'
  BY <1>1, <1>7, RunsPrompted
<1>8. ASSUME NEW action, InitCore(action)  PROVE Prompted'
  BY <1>1, <1>8, RunsPrompted
<1>9. QED  BY <1>1, <1>2, <1>3, <1>4, <1>5, <1>6, <1>7, <1>8 DEF Next, Advances

\* "The index is updated synchronously" (nemakiware.properties): when every
\* call asks for indexing, the index equals the repository whenever no call is
\* running, until something fails or an administrator asks for an indexing.  The
\* limit of a delta must leave room for a change beside that of the token.
THEOREM IndexIsSynchronous == ASSUME Prompt PROVE Spec => []SyncWhenQuiet
<1>1. Init => Prompted
  <2>1. SUFFICES ASSUME Init  PROVE Prompted
    OBVIOUS
  <2>2. Owing = {} /\ Ahead = {} /\ Asking
    BY <2>1, RestTyped DEF Init, Owing, Ahead, Asking, Busy
  <2>3. run = Idle /\ budget = Budget /\ ~fullDue
    BY <2>1 DEF Init
  <2>4. QED
    BY <2>2, <2>3, FS_EmptySet, SolrTrackerAssumptions DEF Prompted, Idle
<1>2. Typed /\ Prompted /\ IndexedUpToToken => SyncWhenQuiet
  <2>1. SUFFICES ASSUME Typed, Prompted, IndexedUpToToken, ordered, budget = Budget,
                        \A c \in Caller : op[c].step = "idle", NEW o \in Obj
                 PROVE  InSync(o)
    BY DEF SyncWhenQuiet
  <2>2. Owing = {} /\ ~InFlight(o)
    BY <2>1 DEF Owing, InFlight
  <2>3. IsFiniteSet(Ahead)
    <3>1. Ahead \subseteq log
      BY DEF Ahead
    <3>2. QED  BY <2>1, <3>1, FS_Subset DEF Typed
  <2>4. Cardinality(Ahead) <= 0 /\ Cardinality(Ahead) \in Nat
    BY <2>1, <2>2, <2>3, FS_EmptySet, FS_CardinalityType DEF Prompted
  <2>5. Cardinality(Ahead) = 0
    BY <2>4
  <2>6. Ahead = {}
    BY <2>3, <2>5, FS_EmptySet
  <2>7. QED  BY <2>1, <2>2, <2>6 DEF IndexedUpToToken, Ahead
<1>3. Lossless
  BY DEF Prompt
<1>4. QED
  BY <1>1, <1>2, <1>3, IndexedAlways, TypedAlways, DeliveryNext, PromptedNext, TrackingInit, PTL
  DEF Spec
=============================================================================
