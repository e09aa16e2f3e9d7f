-------------------------- MODULE ChangeFeedProofs --------------------------
(***************************************************************************)
(* What a reader of a feed may rely on, for every set of contents.         *)
(***************************************************************************)
EXTENDS ChangeFeed, TLAPS

\* Until the feed is lost it tells of every content, and of nothing else.
Total == ~lost => DOMAIN content = Obj /\ DOMAIN index = Obj

\* The entry of a content that is clean is right, as long as no change was stored
\* out of order: whatever became dirty stays so until its entry was made again
\* (what CoreTracker.index and storeLatestChangeToken add up to).
THEOREM CleanIsRightAlways == Spec => []CleanIsRight
<1>1. Init => Total /\ CleanIsRight
  BY DEF Init, Total, CleanIsRight, Right
<1>2. Total /\ CleanIsRight /\ [Next]_vars => Total' /\ CleanIsRight'
  <2>1. SUFFICES ASSUME Total, CleanIsRight, [Next]_vars  PROVE Total' /\ CleanIsRight'
    OBVIOUS
  <2>2. ASSUME NEW o \in Obj, Write(o)  PROVE Total' /\ CleanIsRight'
    <3>1. DOMAIN content = Obj /\ index' = index /\ ~lost /\ lost' = lost
      BY <2>1, <2>2 DEF Write, Total
    <3>2. Total'
      BY <2>1, <2>2, <3>1 DEF Write, Total
    <3>3. ASSUME NEW p \in Obj \ dirty'  PROVE Right(p)'
      <4>1. CASE p = o
        BY <2>2, <3>1, <3>3, <4>1 DEF Write, Right
      <4>2. CASE p # o
        <5>1. p \notin dirty /\ content'[p] = content[p]
          BY <2>2, <3>1, <3>3, <4>2 DEF Write
        <5>2. QED  BY <2>1, <3>1, <5>1 DEF CleanIsRight, Right
      <4>3. QED  BY <4>1, <4>2
    <3>4. QED  BY <3>2, <3>3 DEF CleanIsRight
  <2>3. ASSUME NEW o \in Obj, Register(o)  PROVE Total' /\ CleanIsRight'
    <3>1. DOMAIN index = Obj /\ UNCHANGED <<content, dirty, lost>> /\ ~lost /\ o \in dirty
      BY <2>1, <2>3 DEF Register, Total
    <3>2. Total'
      BY <2>1, <2>3, <3>1 DEF Register, Total
    <3>3. ASSUME NEW p \in Obj \ dirty'  PROVE Right(p)'
      <4>1. p # o /\ index'[p] = index[p]
        BY <2>3, <3>1, <3>3 DEF Register
      <4>2. QED  BY <2>1, <3>1, <3>3, <4>1 DEF CleanIsRight, Right
    <3>4. QED  BY <3>2, <3>3 DEF CleanIsRight
  <2>4. CASE Settle \/ Recede
    BY <2>1, <2>4 DEF Settle, Recede, Total, CleanIsRight, Right
  <2>5. CASE Rebuild
    BY <2>1, <2>5 DEF Rebuild, Total, CleanIsRight, Right
  <2>6. CASE Lose
    BY <2>6 DEF Lose, Total, CleanIsRight
  <2>7. CASE UNCHANGED vars
    BY <2>1, <2>7 DEF vars, Total, CleanIsRight, Right
  <2>8. QED  BY <2>1, <2>2, <2>3, <2>4, <2>5, <2>6, <2>7 DEF Next
<1>3. QED  BY <1>1, <1>2, PTL DEF Spec
=============================================================================
