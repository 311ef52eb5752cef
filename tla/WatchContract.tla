--------------------------- MODULE WatchContract ---------------------------
(***************************************************************************)
(* What following a section promises a program, with no server, connection *)
(* or message in sight: while one process serves the section, a watching   *)
(* program moves forward through the installs, may skip some of them,      *)
(* never goes back, and ends up at the newest.                             *)
(*                                                                         *)
(* `claimed' is the install a program is known to have accounted for, the  *)
(* Last-Event-ID it would resume from; `held' is the install whose         *)
(* document it last read, 0 while it still has the one it started with.    *)
(***************************************************************************)
EXTENDS Naturals

CONSTANT Programs

VARIABLES
    installed,    \* how many documents the section has installed
    published,    \* how many of them its number says
    claimed, held,
    over          \* the programs whose watch has ended

contractVars == <<installed, published, claimed, held, over>>

Init ==
    /\ installed = 1
    /\ published = 1
    /\ claimed = [p \in Programs |-> 0]
    /\ held = [p \in Programs |-> 0]
    /\ over = {}

Install ==
    /\ installed' = installed + 1
    /\ UNCHANGED <<published, claimed, held, over>>

Publish ==
    /\ published < installed
    /\ published' = published + 1
    /\ UNCHANGED <<installed, claimed, held, over>>

\* A program learns where the section stands, once: what it stands at is not a
\* change, so nothing is read.  The section may have moved on since.
Learn(p) ==
    /\ p \notin over /\ claimed[p] = 0
    /\ \E g \in 1 .. published : claimed' = [claimed EXCEPT ![p] = g]
    /\ UNCHANGED <<installed, published, held, over>>

\* A program accounts for a later install, and has read a document at least as
\* new as that one and as any it read before.
CatchUp(p) ==
    /\ p \notin over /\ claimed[p] # 0
    /\ \E g \in claimed[p] + 1 .. published, d \in 1 .. installed :
          /\ d >= g /\ d >= held[p]
          /\ claimed' = [claimed EXCEPT ![p] = g]
          /\ held' = [held EXCEPT ![p] = d]
    /\ UNCHANGED <<installed, published, over>>

End(p) ==
    /\ over' = over \cup {p}
    /\ UNCHANGED <<installed, published, claimed, held>>

Next ==
    \/ Install
    \/ Publish
    \/ \E p \in Programs : Learn(p) \/ CatchUp(p) \/ End(p)

\* A program that is behind and whose watch goes on does catch up.
Spec ==
    /\ Init /\ [][Next]_contractVars
    /\ \A p \in Programs : WF_contractVars(Learn(p) \/ CatchUp(p))
=============================================================================
