---------------------------- MODULE MCCustomColors ----------------------------
(* Small instances of CustomColors for TLC.                                  *)
EXTENDS CustomColors, TLC

CONSTANTS c1, c2, j1, j2, e1, e2

OneColor == {c1}
TwoColors == {c1, c2}
NoJobs == {}
TwoJobs == {j1, j2}
NoEditors == {}
TwoEditors == {e1, e2}

(* The life of two uploads is explored with crashes, the use of one color     *)
(* without, by two editors or by two jobs and an editor.                      *)
InUse == {j \in Jobs : job[j] # NoSubmission}
Editing == {e \in Editors : editor[e] # NoEdit}
Uploaded == {c \in Colors : creation[c] # NotUploaded}

UploadsOrUses ==
    \/ InUse = {} /\ Editing = {}
    \/ /\ faults = 0
       /\ Cardinality(Uploaded) <= 1
       /\ InUse = {} \/ Cardinality(Editing) <= 1

(* Uploads, submissions and edits of one kind are interchangeable.           *)
Symmetry == Permutations(TwoColors) \cup Permutations(TwoJobs) \cup Permutations(TwoEditors)
===============================================================================
