----------------------------- MODULE NestedTx -----------------------------
(***************************************************************************)
(* What the message dispatcher promises: a transaction is a tree of calls, *)
(* each in a branch of the state of its own.  A branch is written back as  *)
(* a whole or not at all, and never once something in it has failed.       *)
(***************************************************************************)
EXTENDS Naturals, Sequences

CONSTANT Write     \* identities of state changes

VARIABLES
  kept,            \* what the last transaction left
  branches         \* its branches, outermost first

Branch == [writes : SUBSET Write, doomed : BOOLEAN]

Depth == Len(branches)
Below == SubSeq(branches, 1, Depth - 1)

Init == kept = {} /\ branches = << >>

\* A call starts in a new branch, or fails at once.
Begin ==
  /\ IF branches = << >> THEN kept' = {} ELSE ~branches[Depth].doomed /\ UNCHANGED kept
  /\ \E fails \in BOOLEAN :
       branches' = Append(branches, [writes |-> {}, doomed |-> fails])

\* The call writes, and may fail having written.
Run(w, fails) ==
  /\ branches # << >> /\ ~branches[Depth].doomed
  /\ \A i \in 1..Depth : w \notin branches[i].writes
  /\ branches' = [branches EXCEPT ![Depth] =
                    [writes |-> @.writes \cup {w}, doomed |-> fails]]
  /\ UNCHANGED kept

\* It fails without having written.
Fail ==
  /\ branches # << >>
  /\ branches' = [branches EXCEPT ![Depth].doomed = TRUE]
  /\ UNCHANGED kept

Commit ==
  /\ Depth > 1 /\ ~branches[Depth].doomed
  /\ branches' = [Below EXCEPT ![Depth - 1].writes = @ \cup branches[Depth].writes]
  /\ UNCHANGED kept

\* The caller learns of the failure, and goes on or fails as well.
Drop ==
  /\ Depth > 1 /\ branches[Depth].doomed
  /\ \E fails \in BOOLEAN : branches' = [Below EXCEPT ![Depth - 1].doomed = fails]
  /\ UNCHANGED kept

End ==
  /\ Depth = 1
  /\ kept' = IF branches[1].doomed THEN {} ELSE branches[1].writes
  /\ branches' = << >>

\* A panic nobody recovers from.
Abort == branches # << >> /\ kept' = {} /\ branches' = << >>

Next ==
  \/ Begin \/ Fail \/ Commit \/ Drop \/ End \/ Abort
  \/ \E w \in Write, fails \in BOOLEAN : Run(w, fails)

Spec == Init /\ [][Next]_<<kept, branches>>
============================================================================
