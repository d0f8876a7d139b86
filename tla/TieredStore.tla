---------------------------- MODULE TieredStore ----------------------------
(***************************************************************************)
(* What tiering out promises, without log, agents or xids: every file has  *)
(* contents and a copy, and is either unsettled, or settled, which is to   *)
(* say that the copy can stand for the contents.                           *)
(***************************************************************************)
EXTENDS Integers

CONSTANT File

VARIABLES
    contents,   \* file -> version of its contents
    copy,       \* file -> version of its copy
    unsettled   \* the files for which nothing is promised

storeState == <<contents, copy, unsettled>>

StoreInit ==
    /\ contents \in [File -> Nat]
    /\ copy \in [File -> Nat]
    /\ \A f \in File : copy[f] <= contents[f]
    /\ unsettled = File

\* A change leaves the file unsettled, in the same step.
Change(f) ==
    /\ contents' \in [File -> Nat]
    /\ contents'[f] >= contents[f]
    /\ \A g \in File \ {f} : contents'[g] = contents[g]
    /\ unsettled' = unsettled \cup {f}
    /\ UNCHANGED copy

\* Copies are replaced, by ones that are no newer than the file; only that of an
\* unsettled file may become older.
Save ==
    /\ copy' \in [File -> Nat]
    /\ \A f \in File : copy'[f] <= contents[f]
    /\ \A f \in File \ unsettled : copy[f] <= copy'[f]
    /\ UNCHANGED <<contents, unsettled>>

\* Files are settled only if their copies are current; settled files may be
\* taken up again.
Settle ==
    /\ unsettled' \subseteq File
    /\ \A f \in unsettled \ unsettled' : copy[f] = contents[f]
    /\ UNCHANGED <<contents, copy>>

\* A file goes, and with it its copy; others may be taken up again with it.
Remove(f) ==
    /\ copy' = [copy EXCEPT ![f] = 0]
    /\ unsettled' \subseteq File
    /\ unsettled \cup {f} \subseteq unsettled'
    /\ UNCHANGED contents

StoreNext == (\E f \in File : Change(f) \/ Remove(f)) \/ Save \/ Settle

StoreSpec == StoreInit /\ [][StoreNext]_storeState

\* What the promise comes to.
SettledIsCurrent == \A f \in File \ unsettled : copy[f] = contents[f]
=============================================================================
