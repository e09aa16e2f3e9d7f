----------------------------- MODULE ChangeFeed -----------------------------
(***************************************************************************)
(* What the tracker promises the search: an index that lags behind the     *)
(* repository and never lies about it.  A content the feed has caught up   *)
(* with has the right entry; every change of a content makes it dirty, and *)
(* it stays dirty until its entry is right again.                          *)
(*                                                                         *)
(* The promise ends when a change is stored with a time that is not later  *)
(* than those before it: from then on the feed is lost.                    *)
(***************************************************************************)
EXTENDS Naturals

CONSTANT Obj      \* content ids

VARIABLES
  content,  \* the version of each content; 0: there is none
  index,    \* the version its entry was made from; 0: there is no entry
  dirty,    \* the contents the feed has not caught up with
  lost      \* changes were stored out of order

vars == <<content, index, dirty, lost>>

Right(o) == index[o] = content[o]

Init ==
  /\ content = [o \in Obj |-> 0]
  /\ index = content
  /\ dirty = {}
  /\ lost = FALSE

\* A content changes.  It may become clean at once: the entry of a deleted
\* content is removed as soon as its DELETED event is there.
Write(o) ==
  /\ ~lost
  /\ content' = [content EXCEPT ![o] = content'[o]]
  /\ dirty' \ {o} = dirty \ {o}
  /\ o \in dirty' \/ index[o] = content'[o]
  /\ UNCHANGED <<index, lost>>

\* The entry of a dirty content is removed, or made from a version that is
\* not older than the one it was made from.
Register(o) ==
  /\ ~lost
  /\ o \in dirty
  /\ index' = [index EXCEPT ![o] = index'[o]]
  /\ index'[o] = 0 \/ index'[o] >= index[o]
  /\ UNCHANGED <<content, dirty, lost>>

\* The feed catches up with contents whose entry is right.
Settle ==
  /\ ~lost
  /\ dirty' \subseteq dirty
  /\ \A o \in dirty \ dirty' : Right(o)
  /\ UNCHANGED <<content, index, lost>>

\* The feed forgets how far it was.
Recede ==
  /\ ~lost
  /\ dirty \subseteq dirty'
  /\ UNCHANGED <<content, index, lost>>

\* The index is emptied; what has a content is dirty again.
Rebuild ==
  /\ ~lost
  /\ index' = [o \in Obj |-> 0]
  /\ dirty \subseteq dirty'
  /\ \A o \in Obj \ dirty' : content[o] = 0
  /\ UNCHANGED <<content, lost>>

\* Two changes with one time, or an earlier one after a later one.
Lose == lost' = TRUE

Next ==
  \/ \E o \in Obj : Write(o) \/ Register(o)
  \/ Settle
  \/ Recede
  \/ Rebuild
  \/ Lose

Spec == Init /\ [][Next]_vars

\* A reader of the abstract feed may rely on this.
CleanIsRight == lost \/ \A o \in Obj \ dirty : Right(o)
=============================================================================
