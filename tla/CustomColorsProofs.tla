--------------------------- MODULE CustomColorsProofs ---------------------------
(***************************************************************************)
(* Proofs about CustomColors, for any uploads, jobs, edits, quota and faults. *)
(***************************************************************************)
EXTENDS CustomColors, FiniteSetTheorems, TLAPS

(* An upload goes from the store to the table; nothing else makes a color.    *)
LifeInv ==
    \A c \in Colors :
        /\ color[c].status = "absent" => c \notin removal /\ color[c].profile = "none"
        /\ creation[c].step \in {"none", "put"} => color[c].status = "absent"
        /\ creation[c].step = "put" => c \in stored
        /\ creation[c].step \in {"created", "judged"} => color[c].status # "absent"

(* A submission has read, or holds, a color that exists.                     *)
JobInv ==
    \A j \in Jobs : job[j].step \in {"resolved", "held"} =>
        /\ job[j].color \in Colors
        /\ color[job[j].color].status # "absent"

(* No job holds the color whose object is about to be removed.               *)
RemovalInv ==
    \A c \in Colors :
        (stale[c] \cap {"status", "count"} = {} /\ c \in removal) => Holders(c) = {}

(* What an analysis found is for the structure of the upload, and a structure *)
(* still without a profile is the one it was uploaded with.                   *)
ProfileInv ==
    \A c \in Colors :
        /\ creation[c].step = "judged" =>
              /\ creation[c].profile \in {"none", creation[c].structure}
              /\ (creation[c].verdict = "approved" /\ creation[c].structure # "unspecified")
                    => creation[c].profile # "none"
        /\ (/\ "profile" \notin stale[c]
            /\ creation[c].step \in {"created", "judged"}
            /\ color[c].structure # "unspecified"
            /\ color[c].profile = "none") => color[c].structure = creation[c].structure

ApprovalInv == \A c \in Colors : MatchesApproval(color[c])

Existing == {c \in Colors : color[c].status # "absent"}
Held == {j \in Jobs : job[j].step = "held"}

FiniteInv == IsFiniteSet(Existing) /\ IsFiniteSet(Held)

IInv ==
    /\ TypeOK
    /\ LifeInv
    /\ JobInv
    /\ RemovalInv
    /\ ProfileInv
    /\ ApprovalInv
    /\ FiniteInv
    /\ ActiveIsStored
    /\ ReferencesCounted
    /\ HeldReferenceIsStored
    /\ UsableProfile
    /\ QuotaRespected

LEMMA InitInv == Init => IInv
  <1> SUFFICES ASSUME Init PROVE IInv
    OBVIOUS
  <1>0. Quota \in Nat \ {0} /\ MaxFaults \in Nat
    BY ConstantsAssumption DEF ConstantsAssumption
  <1>1. TypeOK
    <2>1. [status |-> "absent", approvedAt |-> FALSE, structure |-> "unspecified",
           profile |-> "none", count |-> 0] \in ColorRow
      BY DEF ColorRow, Structures, Profiles
    <2>2. NotUploaded \in Creation /\ NoEdit \in Editor /\ NoSubmission \in Job
      BY DEF NotUploaded, Creation, NoEdit, Editor, NoSubmission, Job, Structures, Profiles,
             Verdicts
    <2> QED BY <1>0, <2>1, <2>2 DEF Init, TypeOK
  <1>2. /\ \A c \in Colors : /\ color[c].status = "absent" /\ color[c].approvedAt = FALSE
                             /\ color[c].structure = "unspecified" /\ color[c].profile = "none"
                             /\ color[c].count = 0 /\ creation[c].step = "none"
                             /\ c \notin removal
        /\ \A j \in Jobs : job[j].step = "none"
    BY DEF Init, NotUploaded, NoSubmission
  <1>3. LifeInv /\ JobInv /\ RemovalInv /\ ProfileInv /\ ApprovalInv
    BY <1>2 DEF LifeInv, JobInv, RemovalInv, ProfileInv, ApprovalInv, MatchesApproval
  <1>4. Existing = {} /\ Held = {} /\ \A c \in Colors : Holders(c) = {} /\ ~Active(c)
    BY <1>2 DEF Existing, Held, Holders, Active
  <1>5. IsFiniteSet({}) /\ Cardinality({}) = 0
    BY FS_EmptySet
  <1>6. FiniteInv /\ ActiveIsStored /\ ReferencesCounted /\ HeldReferenceIsStored
    BY <1>2, <1>4, <1>5 DEF FiniteInv, ActiveIsStored, ReferencesCounted, HeldReferenceIsStored
  <1>7. UsableProfile
    BY <1>2 DEF UsableProfile
  <1>8. QuotaRespected
    <2>1. {c \in Colors : Active(c)} = {}
      BY <1>4
    <2> QED BY <1>0, <1>5, <2>1 DEF QuotaRespected
  <1> QED BY <1>1, <1>3, <1>6, <1>7, <1>8 DEF IInv

-----------------------------------------------------------------------------
(* What each step does, field by field.                                      *)

(* A request that changes no color.                                          *)
Aside == color' = color /\ stale' = stale

OnlyCreation(c) == \A d \in Colors : d # c => creation'[d] = creation[d]
OnlyColor(c) == \A d \in Colors : d # c => color'[d] = color[d] /\ stale'[d] = stale[d]

LEMMA PutObjectEffect ==
    ASSUME TypeOK, NEW c \in Colors, PutObject(c)
    PROVE  /\ TypeOK' /\ Aside /\ OnlyCreation(c)
           /\ UNCHANGED <<removal, job>> /\ stored' = stored \cup {c}
           /\ creation[c].step = "none" /\ creation'[c].step = "put"
  <1>1. PICK s \in Structures :
           creation' = [creation EXCEPT ![c] = [creation[c] EXCEPT !.step = "put",
                                                                  !.structure = s]]
    BY DEF PutObject, TypeOK
  <1>2. creation[c] \in Creation
    BY DEF TypeOK
  <1> DEFINE own == [creation[c] EXCEPT !.step = "put", !.structure = s]
  <1>3. own \in Creation /\ own.step = "put"
    BY <1>2 DEF Creation
  <1> HIDE DEF own
  <1>4. /\ creation' \in [Colors -> Creation] /\ creation'[c] = own
        /\ OnlyCreation(c)
    BY <1>1, <1>3 DEF TypeOK, OnlyCreation, own
  <1> QED BY <1>3, <1>4 DEF PutObject, TypeOK, Aside

LEMMA CreateColorEffect ==
    ASSUME TypeOK, NEW c \in Colors, CreateColor(c)
    PROVE  /\ TypeOK' /\ OnlyCreation(c) /\ OnlyColor(c)
           /\ UNCHANGED <<stored, removal, job, stale>>
           /\ creation[c].step = "put" /\ HasQuota
           /\ creation'[c].step = "created"
           /\ creation'[c].structure = creation[c].structure
           /\ color'[c].status = "pending" /\ color'[c].approvedAt = color[c].approvedAt
           /\ color'[c].structure = creation[c].structure
           /\ color'[c].profile = color[c].profile /\ color'[c].count = color[c].count
  <1>1. creation[c] \in Creation /\ color[c] \in ColorRow
    BY DEF TypeOK
  <1> DEFINE own == [creation[c] EXCEPT !.step = "created"]
             row == [color[c] EXCEPT !.status = "pending", !.structure = creation[c].structure]
  <1>2. own \in Creation /\ own.step = "created" /\ own.structure = creation[c].structure
    BY <1>1 DEF Creation
  <1>3. /\ row \in ColorRow /\ row.status = "pending" /\ row.approvedAt = color[c].approvedAt
        /\ row.structure = creation[c].structure /\ row.profile = color[c].profile
        /\ row.count = color[c].count
    BY <1>1 DEF ColorRow, Creation
  <1>4. creation' = [creation EXCEPT ![c] = own] /\ color' = [color EXCEPT ![c] = row]
    BY DEF CreateColor, SetColor, TypeOK
  <1> HIDE DEF own, row
  <1>5. /\ creation' \in [Colors -> Creation] /\ creation'[c] = own /\ OnlyCreation(c)
        /\ color' \in [Colors -> ColorRow] /\ color'[c] = row /\ OnlyColor(c)
    BY <1>2, <1>3, <1>4 DEF TypeOK, OnlyCreation, OnlyColor, CreateColor
  <1> QED BY <1>2, <1>3, <1>5 DEF CreateColor, TypeOK

LEMMA ReturnedIs == Returned \in Creation /\ Returned.step = "ended"
  BY DEF Returned, NotUploaded, Creation, Structures, Verdicts, Profiles

LEMMA CreateRefusedEffect ==
    ASSUME TypeOK, NEW c \in Colors, CreateRefused(c)
    PROVE  /\ TypeOK' /\ Aside /\ OnlyCreation(c)
           /\ UNCHANGED <<removal, job>> /\ stored' = stored \ {c}
           /\ creation[c].step = "put" /\ creation'[c].step = "ended"
  <1>1. faults' \in 0..MaxFaults
    BY ConstantsAssumption DEF CreateRefused, TypeOK, ConstantsAssumption
  <1>2. creation' \in [Colors -> Creation] /\ creation'[c] = Returned /\ OnlyCreation(c)
    BY ReturnedIs DEF CreateRefused, TypeOK, OnlyCreation
  <1> QED BY <1>1, <1>2, ReturnedIs DEF CreateRefused, TypeOK, Aside

LEMMA JudgeEffect ==
    ASSUME TypeOK, NEW c \in Colors, Judge(c)
    PROVE  /\ TypeOK' /\ Aside /\ OnlyCreation(c)
           /\ UNCHANGED <<stored, removal, job>>
           /\ creation[c].step = "created" /\ creation'[c].step = "judged"
           /\ creation'[c].structure = creation[c].structure
           /\ creation'[c].profile \in {"none", creation[c].structure}
           /\ (creation'[c].verdict = "approved" /\ creation[c].structure # "unspecified")
                 => creation'[c].profile # "none"
  <1>0. creation[c] \in Creation
    BY DEF TypeOK
  <1>1. PICK verdict \in Verdicts, analysed \in BOOLEAN, renames \in BOOLEAN :
           /\ creation[c].structure = "unspecified" => ~analysed
           /\ (verdict = "approved" /\ creation[c].structure # "unspecified") => analysed
           /\ creation' = [creation EXCEPT ![c] =
                 [creation[c] EXCEPT !.step = "judged", !.verdict = verdict, !.renames = renames,
                    !.profile = IF analysed THEN creation[c].structure ELSE "none"]]
    BY DEF Judge, TypeOK
  <1> DEFINE profile == IF analysed THEN creation[c].structure ELSE "none"
  <1>2. /\ profile \in Profiles /\ profile \in {"none", creation[c].structure}
        /\ (verdict = "approved" /\ creation[c].structure # "unspecified") => profile # "none"
    BY <1>0, <1>1 DEF Creation, Structures, Profiles
  <1> DEFINE own == [creation[c] EXCEPT !.step = "judged", !.verdict = verdict,
                                        !.renames = renames, !.profile = profile]
  <1>3. creation' = [creation EXCEPT ![c] = own]
    BY <1>1
  <1> HIDE DEF profile
  <1>4. /\ own \in Creation /\ own.step = "judged" /\ own.structure = creation[c].structure
        /\ own.verdict = verdict /\ own.profile = profile
    BY <1>0, <1>2 DEF Creation
  <1> HIDE DEF own
  <1>5. creation' \in [Colors -> Creation] /\ creation'[c] = own /\ OnlyCreation(c)
    BY <1>3, <1>4 DEF TypeOK, OnlyCreation
  <1> QED BY <1>2, <1>4, <1>5 DEF Judge, TypeOK, Aside

(* apply_analysis and apply_moderation, whose constraint is satisfied.        *)
LEMMA ApplyVerdictEffect ==
    ASSUME TypeOK, NEW c \in Colors, ApplyVerdict(c)
    PROVE  /\ TypeOK' /\ OnlyCreation(c) /\ OnlyColor(c)
           /\ UNCHANGED <<stored, removal, job>>
           /\ creation[c].step = "judged" /\ creation'[c].step = "ended"
           /\ creation[c].verdict \in Verdicts
           /\ color'[c].status = creation[c].verdict
           /\ color[c].approvedAt => color'[c].approvedAt
           /\ MatchesApproval(color'[c])
           /\ color'[c].structure = color[c].structure /\ color'[c].count = color[c].count
           /\ color'[c].profile = IF creation[c].profile = "none" THEN color[c].profile
                                                                 ELSE creation[c].profile
           /\ stale[c] \subseteq stale'[c]
           /\ "count" \in stale'[c] <=> "count" \in stale[c]
           /\ "status" \notin stale'[c] => color[c].status = "pending"
           /\ ("profile" \notin stale'[c] /\ creation[c].profile # "none")
                 => color[c].structure = creation[c].structure
  <1>1. creation[c] \in Creation /\ color[c] \in ColorRow /\ stale[c] \subseteq {"status", "count", "profile"}
    BY DEF TypeOK
  <1>2. creation' \in [Colors -> Creation] /\ creation'[c] = Returned /\ OnlyCreation(c)
    BY ReturnedIs DEF ApplyVerdict, TypeOK, OnlyCreation
  <1> DEFINE profile == IF creation[c].profile = "none" THEN color[c].profile ELSE creation[c].profile
             at == color[c].approvedAt \/ creation[c].verdict = "approved"
             row == [color[c] EXCEPT !.status = creation[c].verdict, !.approvedAt = at,
                                     !.profile = profile]
  <1>3. Moderated(c) = row
    BY Zenon DEF Moderated
  <1>4. profile \in Profiles /\ at \in BOOLEAN /\ creation[c].verdict \in Verdicts
    BY <1>1 DEF ColorRow, Creation
  <1>5. color[c].approvedAt => at
    OBVIOUS
  <1> HIDE DEF profile, at
  <1>6. /\ row \in ColorRow /\ row.status = creation[c].verdict /\ row.approvedAt = at
        /\ row.profile = profile /\ row.structure = color[c].structure
        /\ row.count = color[c].count
    BY <1>1, <1>4 DEF ColorRow
  <1> HIDE DEF row
  <1>7. color' = [color EXCEPT ![c] = row] /\ MatchesApproval(row)
    BY <1>3 DEF ApplyVerdict, SetColor, CanApplyVerdict
  <1> DEFINE parts == stale[c]
                \cup (IF color[c].status # "pending" THEN {"status"} ELSE {})
                \cup (IF /\ creation[c].profile # "none"
                         /\ color[c].structure # creation[c].structure
                      THEN {"profile"} ELSE {})
  <1>8. stale' = [stale EXCEPT ![c] = parts]
    BY DEF ApplyVerdict, TypeOK
  <1>9. /\ parts \in SUBSET {"status", "count", "profile"} /\ stale[c] \subseteq parts
        /\ "count" \in parts <=> "count" \in stale[c]
        /\ "status" \notin parts => color[c].status = "pending"
        /\ ("profile" \notin parts /\ creation[c].profile # "none")
              => color[c].structure = creation[c].structure
    BY <1>1
  <1> HIDE DEF parts
  <1>10. /\ stale' \in [Colors -> SUBSET {"status", "count", "profile"}] /\ stale'[c] = parts
         /\ color' \in [Colors -> ColorRow] /\ color'[c] = row /\ OnlyColor(c)
    BY <1>6, <1>7, <1>8, <1>9 DEF TypeOK, OnlyColor
  <1>11. TypeOK' /\ UNCHANGED <<stored, removal, job>> /\ creation[c].step = "judged"
    BY <1>2, <1>10 DEF ApplyVerdict, TypeOK
  <1> QED BY <1>2, <1>4, <1>5, <1>6, <1>7, <1>9, <1>10, <1>11, ReturnedIs DEF profile

LEMMA VerdictRolledBackEffect ==
    ASSUME TypeOK, NEW c \in Colors, VerdictRolledBack(c)
    PROVE  /\ TypeOK' /\ Aside /\ OnlyCreation(c)
           /\ UNCHANGED <<stored, removal, job>>
           /\ creation[c].step = "judged" /\ creation'[c].step = "ended"
  <1>1. creation' \in [Colors -> Creation] /\ creation'[c] = Returned /\ OnlyCreation(c)
    BY ReturnedIs DEF VerdictRolledBack, TypeOK, OnlyCreation
  <1> QED BY <1>1, ReturnedIs DEF VerdictRolledBack, TypeOK, Aside

LEMMA TransitionsAre ==
    /\ Transitions("pending") = {"needs_review", "rejected", "approved", "deleted"}
    /\ Transitions("needs_review") = {"rejected", "approved", "deleted"}
    /\ Transitions("rejected") = {"needs_review", "approved", "deleted"}
    /\ Transitions("approved") = {"hidden", "deleted"}
    /\ Transitions("hidden") = {"approved", "deleted"}
    /\ Transitions("deleted") = {}
    /\ Transitions("absent") = {}
  <1>1. Transitions("pending") = {"needs_review", "rejected", "approved", "deleted"}
    BY Zenon DEF Transitions
  <1>2. Transitions("needs_review") = {"rejected", "approved", "deleted"}
    BY Zenon DEF Transitions
  <1>3. Transitions("rejected") = {"needs_review", "approved", "deleted"}
    BY Zenon DEF Transitions
  <1>4. Transitions("approved") = {"hidden", "deleted"}
    BY Zenon DEF Transitions
  <1>5. Transitions("hidden") = {"approved", "deleted"}
    BY Zenon DEF Transitions
  <1>6. Transitions("deleted") = {}
    BY Zenon DEF Transitions
  <1>7. Transitions("absent") = {}
    BY Zenon DEF Transitions
  <1> QED BY <1>1, <1>2, <1>3, <1>4, <1>5, <1>6, <1>7

LEMMA ReviewEffect ==
    ASSUME TypeOK, NEW c \in Colors, Review(c)
    PROVE  /\ TypeOK' /\ OnlyColor(c)
           /\ UNCHANGED <<stored, creation, removal, job, stale>>
           /\ color[c].status \notin {"absent", "deleted"}
           /\ color'[c].status \in {"approved", "rejected", "hidden"}
           /\ color'[c].status = "approved" => MayApprove(c)
           /\ color'[c].status = "hidden" => color[c].status = "approved"
           /\ color[c].approvedAt => color'[c].approvedAt
           /\ MatchesApproval(color'[c])
           /\ color'[c].structure = color[c].structure
           /\ color'[c].profile = color[c].profile /\ color'[c].count = color[c].count
  <1>1. color[c] \in ColorRow
    BY DEF TypeOK
  <1>2. PICK target \in {"approved", "rejected", "hidden"} :
           /\ target \in Transitions(color[c].status)
           /\ target = "approved" => MayApprove(c)
           /\ color' = [color EXCEPT ![c] = [color[c] EXCEPT !.status = target,
                           !.approvedAt = color[c].approvedAt \/ target = "approved"]]
           /\ MatchesApproval(color'[c])
    BY Zenon DEF Review, SetColor
  <1>3. color[c].status \in {"approved", "rejected", "needs_review", "absent", "pending",
                             "hidden", "deleted"}
    BY <1>1 DEF ColorRow, Verdicts
  <1>4. /\ color[c].status \notin {"absent", "deleted"}
        /\ target = "hidden" => color[c].status = "approved"
    BY <1>2, <1>3, TransitionsAre
  <1> DEFINE at == color[c].approvedAt \/ target = "approved"
             row == [color[c] EXCEPT !.status = target, !.approvedAt = at]
  <1>5. at \in BOOLEAN /\ (color[c].approvedAt => at)
    BY <1>1 DEF ColorRow
  <1>6. color' = [color EXCEPT ![c] = row]
    BY <1>2
  <1> HIDE DEF at
  <1>7. /\ row \in ColorRow /\ row.status = target /\ row.approvedAt = at
        /\ row.structure = color[c].structure /\ row.profile = color[c].profile
        /\ row.count = color[c].count
    BY <1>1, <1>5 DEF ColorRow, Verdicts
  <1> HIDE DEF row
  <1>8. color' \in [Colors -> ColorRow] /\ color'[c] = row /\ OnlyColor(c)
    BY <1>6, <1>7 DEF TypeOK, OnlyColor, Review
  <1> QED BY <1>2, <1>4, <1>5, <1>7, <1>8 DEF Review, TypeOK

LEMMA DeleteEffect ==
    ASSUME TypeOK, NEW c \in Colors, Delete(c)
    PROVE  /\ TypeOK' /\ OnlyColor(c)
           /\ UNCHANGED <<stored, creation, job, stale>>
           /\ removal' = IF color[c].count = 0 THEN removal \cup {c} ELSE removal
           /\ color[c].status # "absent"
           /\ color'[c].status = "deleted" /\ color'[c].approvedAt = color[c].approvedAt
           /\ color'[c].structure = color[c].structure
           /\ color'[c].profile = color[c].profile /\ color'[c].count = color[c].count
  <1>1. color[c] \in ColorRow
    BY DEF TypeOK
  <1> DEFINE row == [color[c] EXCEPT !.status = "deleted"]
  <1>2. /\ row \in ColorRow /\ row.status = "deleted" /\ row.approvedAt = color[c].approvedAt
        /\ row.structure = color[c].structure /\ row.profile = color[c].profile
        /\ row.count = color[c].count
    BY <1>1 DEF ColorRow
  <1>3. color' = [color EXCEPT ![c] = row]
    BY DEF Delete, SetColor
  <1> HIDE DEF row
  <1>4. color' \in [Colors -> ColorRow] /\ color'[c] = row /\ OnlyColor(c)
    BY <1>2, <1>3 DEF TypeOK, OnlyColor, Delete
  <1> QED BY <1>2, <1>4 DEF Delete, Exists, Unretained, TypeOK

LEMMA RemoveObjectEffect ==
    ASSUME TypeOK, NEW c \in Colors, RemoveObject(c)
    PROVE  /\ TypeOK' /\ Aside /\ UNCHANGED <<creation, job>>
           /\ c \in removal /\ stored' = stored \ {c} /\ removal' = removal \ {c}
  BY DEF RemoveObject, TypeOK, Aside

LEMMA EditFailsEffect ==
    ASSUME TypeOK, NEW e \in Editors, EditFails(e)
    PROVE  TypeOK' /\ Aside /\ UNCHANGED <<stored, creation, removal, job>>
  <1>1. NoEdit \in Editor
    BY DEF NoEdit, Editor, Structures, Profiles
  <1> QED BY <1>1 DEF EditFails, TypeOK, Aside

LEMMA StartEditEffect ==
    ASSUME TypeOK, NEW e \in Editors, StartEdit(e)
    PROVE  TypeOK' /\ Aside /\ UNCHANGED <<stored, creation, removal, job>>
  <1>1. PICK c \in Colors, target \in Structures :
           editor' = [editor EXCEPT ![e] = [color |-> c, target |-> target,
              structure |-> color[c].structure, profile |-> color[c].profile]]
    BY DEF StartEdit
  <1>2. color[c].structure \in Structures /\ color[c].profile \in Profiles
    BY DEF TypeOK, ColorRow
  <1>3. [color |-> c, target |-> target,
         structure |-> color[c].structure, profile |-> color[c].profile] \in Editor
    BY <1>2 DEF Editor
  <1> QED BY <1>1, <1>3 DEF StartEdit, TypeOK, Aside

(* repository.edit_details: what it leaves if the version has not changed.    *)
LEMMA CommitEditEffect ==
    ASSUME TypeOK, NEW e \in Editors, CommitEdit(e)
    PROVE  \E c \in Colors :
           /\ TypeOK' /\ OnlyColor(c)
           /\ UNCHANGED <<stored, creation, removal, job>>
           /\ Active(c) /\ color'[c].status = color[c].status
           /\ color'[c].approvedAt = color[c].approvedAt
           /\ color'[c].count = color[c].count
           /\ stale[c] \subseteq stale'[c]
           /\ "count" \in stale'[c] <=> "count" \in stale[c]
           /\ "status" \in stale'[c] <=> "status" \in stale[c]
           /\ "profile" \notin stale'[c] =>
                 color'[c].profile = EditedProfile(color'[c].structure, color[c].structure,
                                                   color[c].profile)
  <1> DEFINE c == editor[e].color
             target == editor[e].target
             profile == EditedProfile(target, editor[e].structure, editor[e].profile)
  <1>1. editor[e] \in Editor /\ c \in Colors
    BY DEF TypeOK, Editor, CommitEdit
  <1>2. color[c] \in ColorRow /\ stale[c] \subseteq {"status", "count", "profile"}
    BY <1>1 DEF TypeOK
  <1>3. profile \in Profiles
    BY <1>1 DEF Editor, EditedProfile, Structures, Profiles
  <1>4. PICK refinished \in BOOLEAN :
           color' = [color EXCEPT ![c] = [color[c] EXCEPT
                !.structure = IF target = editor[e].structure THEN color[c].structure ELSE target,
                !.profile = IF profile = editor[e].profile /\ ~refinished THEN color[c].profile
                                                                          ELSE profile]]
    BY <1>1, Zenon DEF CommitEdit, SetColor
  <1> DEFINE newStructure == IF target = editor[e].structure THEN color[c].structure ELSE target
             newProfile == IF profile = editor[e].profile /\ ~refinished THEN color[c].profile
                                                                         ELSE profile
             row == [color[c] EXCEPT !.structure = newStructure, !.profile = newProfile]
  <1>5. newStructure \in Structures /\ newProfile \in Profiles
    BY <1>1, <1>2, <1>3 DEF ColorRow, Editor
  <1>6. color[c].structure = editor[e].structure /\ color[c].profile = editor[e].profile =>
           newStructure = target /\ newProfile = profile
    OBVIOUS
  <1>7. color' = [color EXCEPT ![c] = row]
    BY <1>4
  <1> HIDE DEF newStructure, newProfile, profile, target
  <1>8. /\ row \in ColorRow /\ row.status = color[c].status
        /\ row.approvedAt = color[c].approvedAt /\ row.count = color[c].count
        /\ row.structure = newStructure /\ row.profile = newProfile
    BY <1>2, <1>5 DEF ColorRow
  <1> HIDE DEF row
  <1>9. color' \in [Colors -> ColorRow] /\ color'[c] = row
        /\ \A d \in Colors : d # c => color'[d] = color[d]
    BY <1>1, <1>7, <1>8 DEF TypeOK
  <1> DEFINE replaced == color[c].structure # editor[e].structure
                            \/ color[c].profile # editor[e].profile
  <1>10. stale' = IF replaced THEN [stale EXCEPT ![c] = stale[c] \cup {"profile"}] ELSE stale
    BY <1>1 DEF CommitEdit, Outdated, TypeOK
  <1>11. /\ stale' \in [Colors -> SUBSET {"status", "count", "profile"}]
         /\ \A d \in Colors : d # c => stale'[d] = stale[d]
         /\ stale[c] \subseteq stale'[c]
         /\ "count" \in stale'[c] <=> "count" \in stale[c]
         /\ "status" \in stale'[c] <=> "status" \in stale[c]
         /\ "profile" \notin stale'[c] => ~replaced
    <2>1. CASE replaced
      BY <1>1, <1>2, <1>10, <2>1 DEF TypeOK
    <2>2. CASE ~replaced
      BY <1>10, <2>2 DEF TypeOK
    <2> QED BY <2>1, <2>2
  <1>12. "profile" \notin stale'[c] =>
            color'[c].profile = EditedProfile(color'[c].structure, color[c].structure,
                                              color[c].profile)
    BY <1>6, <1>8, <1>9, <1>11 DEF profile
  <1>13. editor' \in [Editors -> Editor]
    <2>1. NoEdit \in Editor
      BY DEF NoEdit, Editor, Structures, Profiles
    <2> QED BY <2>1 DEF CommitEdit, TypeOK
  <1>14. TypeOK'
    BY <1>9, <1>11, <1>13 DEF CommitEdit, TypeOK
  <1>15. UNCHANGED <<stored, creation, removal, job>> /\ Active(c)
    BY DEF CommitEdit
  <1> QED BY <1>1, <1>8, <1>9, <1>11, <1>12, <1>14, <1>15 DEF OnlyColor

OnlyJob(j) == \A k \in Jobs : k # j => job'[k] = job[k]

LEMMA ResolveEffect ==
    ASSUME TypeOK, NEW j \in Jobs, Resolve(j)
    PROVE  /\ TypeOK' /\ Aside /\ OnlyJob(j)
           /\ UNCHANGED <<stored, creation, removal>>
           /\ job[j].step = "none" /\ job'[j].step = "resolved"
           /\ job'[j].color \in Colors /\ color[job'[j].color].status = "approved"
  <1>1. PICK c \in Colors :
           /\ color[c].status = "approved"
           /\ job' = [job EXCEPT ![j] =
                        [step |-> "resolved", color |-> c, count |-> color[c].count]]
    BY DEF Resolve
  <1>2. color[c].count \in Nat
    BY DEF TypeOK, ColorRow
  <1>3. [step |-> "resolved", color |-> c, count |-> color[c].count] \in Job
    BY <1>2 DEF Job
  <1>4. job' \in [Jobs -> Job] /\ OnlyJob(j) /\ job'[j].step = "resolved" /\ job'[j].color = c
    BY <1>1, <1>3 DEF TypeOK, OnlyJob
  <1> QED BY <1>1, <1>4 DEF Resolve, TypeOK, Aside

LEMMA AcceptanceRolledBackEffect ==
    ASSUME TypeOK, NEW j \in Jobs, AcceptanceRolledBack(j)
    PROVE  /\ TypeOK' /\ Aside /\ OnlyJob(j)
           /\ UNCHANGED <<stored, creation, removal>>
           /\ job[j].step = "resolved" /\ job'[j].step = "none"
  <1>1. NoSubmission \in Job /\ NoSubmission.step = "none"
    BY DEF NoSubmission, Job
  <1>2. job' \in [Jobs -> Job] /\ OnlyJob(j) /\ job'[j] = NoSubmission
    BY <1>1 DEF AcceptanceRolledBack, TypeOK, OnlyJob
  <1> QED BY <1>1, <1>2 DEF AcceptanceRolledBack, TypeOK, Aside

LEMMA RetainEffect ==
    ASSUME TypeOK, JobInv, NEW j \in Jobs, Retain(j)
    PROVE  LET c == job[j].color IN
           /\ TypeOK' /\ c \in Colors /\ OnlyColor(c) /\ OnlyJob(j)
           /\ UNCHANGED <<stored, creation, removal>>
           /\ job[j].step = "resolved" /\ job'[j].step = "held" /\ job'[j].color = c
           /\ color[c].status = "approved" /\ color'[c].status = "approved"
           /\ color'[c].approvedAt = color[c].approvedAt
           /\ color'[c].structure = color[c].structure
           /\ color'[c].profile = color[c].profile
           /\ stale[c] \subseteq stale'[c]
           /\ "status" \in stale'[c] <=> "status" \in stale[c]
           /\ "profile" \in stale'[c] <=> "profile" \in stale[c]
           /\ "count" \notin stale'[c] => color'[c].count = color[c].count + 1
  <1> DEFINE c == job[j].color
  <1>1. job[j] \in Job /\ c \in Colors
    BY DEF TypeOK, JobInv, Retain
  <1>2. color[c] \in ColorRow /\ stale[c] \subseteq {"status", "count", "profile"}
    BY <1>1 DEF TypeOK
  <1>3. job[j].count \in Nat /\ color[c].count \in Nat
    BY <1>1, <1>2 DEF Job, ColorRow
  <1> DEFINE row == [color[c] EXCEPT !.count = job[j].count + 1]
  <1>4. /\ row \in ColorRow /\ row.status = color[c].status
        /\ row.approvedAt = color[c].approvedAt /\ row.structure = color[c].structure
        /\ row.profile = color[c].profile /\ row.count = job[j].count + 1
    BY <1>2, <1>3 DEF ColorRow
  <1>5. color' = [color EXCEPT ![c] = row]
    BY DEF Retain, SetColor
  <1> HIDE DEF row
  <1>6. color' \in [Colors -> ColorRow] /\ color'[c] = row
        /\ \A d \in Colors : d # c => color'[d] = color[d]
    BY <1>1, <1>4, <1>5 DEF TypeOK
  <1>7. /\ stale' \in [Colors -> SUBSET {"status", "count", "profile"}]
        /\ \A d \in Colors : d # c => stale'[d] = stale[d]
        /\ stale[c] \subseteq stale'[c]
        /\ "status" \in stale'[c] <=> "status" \in stale[c]
        /\ "profile" \in stale'[c] <=> "profile" \in stale[c]
        /\ "count" \notin stale'[c] => color[c].count = job[j].count
    <2>1. stale' = IF color[c].count # job[j].count
                   THEN [stale EXCEPT ![c] = stale[c] \cup {"count"}] ELSE stale
      BY <1>1 DEF Retain, Outdated, TypeOK
    <2>2. CASE color[c].count # job[j].count
      BY <1>1, <1>2, <2>1, <2>2 DEF TypeOK
    <2>3. CASE color[c].count = job[j].count
      BY <2>1, <2>3 DEF TypeOK
    <2> QED BY <2>2, <2>3
  <1> DEFINE mine == [job[j] EXCEPT !.step = "held", !.count = 0]
  <1>8. mine \in Job /\ mine.step = "held" /\ mine.color = c
    BY <1>1 DEF Job
  <1>9. job' = [job EXCEPT ![j] = mine]
    BY DEF Retain, TypeOK
  <1> HIDE DEF mine
  <1>10. job' \in [Jobs -> Job] /\ job'[j] = mine /\ OnlyJob(j)
    BY <1>8, <1>9 DEF TypeOK, OnlyJob
  <1>11. TypeOK'
    BY <1>6, <1>7, <1>10 DEF Retain, TypeOK
  <1>12. /\ UNCHANGED <<stored, creation, removal>> /\ job[j].step = "resolved"
         /\ color[c].status = "approved"
    BY DEF Retain
  <1> QED BY <1>1, <1>3, <1>4, <1>6, <1>7, <1>8, <1>10, <1>11, <1>12 DEF OnlyColor

LEMMA FinishEffect ==
    ASSUME TypeOK, JobInv, NEW j \in Jobs, Finish(j)
    PROVE  LET c == job[j].color IN
           /\ TypeOK' /\ c \in Colors /\ OnlyColor(c) /\ OnlyJob(j)
           /\ UNCHANGED <<stored, creation, removal, stale>>
           /\ job[j].step = "held" /\ job'[j].step = "ended"
           /\ color'[c].status = color[c].status
           /\ color'[c].approvedAt = color[c].approvedAt
           /\ color'[c].structure = color[c].structure
           /\ color'[c].profile = color[c].profile
           /\ color[c].count \in Nat /\ color'[c].count = color[c].count - 1
  <1> DEFINE c == job[j].color
  <1>1. job[j] \in Job /\ c \in Colors
    BY DEF TypeOK, JobInv, Finish
  <1>2. color[c] \in ColorRow /\ color[c].count \in Nat /\ color[c].count > 0
    BY <1>1 DEF TypeOK, ColorRow, Finish
  <1> DEFINE row == [color[c] EXCEPT !.count = color[c].count - 1]
  <1>3. /\ row \in ColorRow /\ row.status = color[c].status
        /\ row.approvedAt = color[c].approvedAt /\ row.structure = color[c].structure
        /\ row.profile = color[c].profile /\ row.count = color[c].count - 1
    BY <1>2 DEF ColorRow
  <1>4. color' = [color EXCEPT ![c] = row]
    BY Zenon DEF Finish, SetColor
  <1> HIDE DEF row
  <1>5. color' \in [Colors -> ColorRow] /\ color'[c] = row /\ OnlyColor(c)
    BY <1>1, <1>3, <1>4 DEF TypeOK, OnlyColor, Finish
  <1> DEFINE mine == [NoSubmission EXCEPT !.step = "ended"]
  <1>6. mine \in Job /\ mine.step = "ended"
    BY DEF Job, NoSubmission
  <1>7. job' = [job EXCEPT ![j] = mine]
    BY DEF Finish
  <1> HIDE DEF mine
  <1>8. job' \in [Jobs -> Job] /\ job'[j] = mine /\ OnlyJob(j)
    BY <1>6, <1>7 DEF TypeOK, OnlyJob
  <1>9. TypeOK'
    BY <1>5, <1>8 DEF Finish, TypeOK
  <1>10. UNCHANGED <<stored, creation, removal, stale>> /\ job[j].step = "held"
    BY DEF Finish
  <1> QED BY <1>1, <1>2, <1>3, <1>5, <1>6, <1>8, <1>9, <1>10

LEMMA CrashEffect ==
    ASSUME TypeOK, Crash
    PROVE  /\ TypeOK' /\ Aside /\ stored' = stored /\ removal' = {}
           /\ \A c \in Colors : creation'[c].step \in {"none", "ended"}
                                /\ (creation'[c].step = "none" => creation[c].step = "none")
           /\ \A j \in Jobs : IF job[j].step = "resolved" THEN job'[j].step = "none"
                                                          ELSE job'[j] = job[j]
  <1>1. NoEdit \in Editor /\ NoSubmission \in Job /\ NoSubmission.step = "none"
    BY DEF NoEdit, Editor, Structures, Profiles, NoSubmission, Job
  <1>2. faults' \in 0..MaxFaults
    BY ConstantsAssumption DEF Crash, TypeOK, ConstantsAssumption
  <1>3. /\ creation' \in [Colors -> Creation] /\ editor' \in [Editors -> Editor]
        /\ job' \in [Jobs -> Job]
    BY <1>1, ReturnedIs DEF Crash, TypeOK
  <1> QED BY <1>1, <1>2, <1>3, ReturnedIs DEF Crash, TypeOK, Aside

-----------------------------------------------------------------------------
(* The invariant, conjunct by conjunct.                                      *)

LEMMA TypeStep ==
    ASSUME TypeOK, JobInv, Next
    PROVE  TypeOK'
  <1>1. ASSUME NEW c \in Colors,
               \/ PutObject(c) \/ CreateColor(c) \/ CreateRefused(c) \/ Judge(c)
               \/ ApplyVerdict(c) \/ VerdictRolledBack(c) \/ Review(c) \/ Delete(c)
               \/ RemoveObject(c)
        PROVE  TypeOK'
    BY <1>1, PutObjectEffect, CreateColorEffect, CreateRefusedEffect, JudgeEffect,
       ApplyVerdictEffect, VerdictRolledBackEffect, ReviewEffect, DeleteEffect,
       RemoveObjectEffect
  <1>2. ASSUME NEW e \in Editors, StartEdit(e) \/ CommitEdit(e) \/ EditFails(e)
        PROVE  TypeOK'
    BY <1>2, StartEditEffect, CommitEditEffect, EditFailsEffect
  <1>3. ASSUME NEW j \in Jobs,
               Resolve(j) \/ Retain(j) \/ AcceptanceRolledBack(j) \/ Finish(j)
        PROVE  TypeOK'
    BY <1>3, ResolveEffect, RetainEffect, AcceptanceRolledBackEffect, FinishEffect
  <1> QED BY <1>1, <1>2, <1>3, CrashEffect DEF Next

LEMMA LifeStep ==
    ASSUME TypeOK, LifeInv, JobInv, Next
    PROVE  LifeInv'
  <1>1. ASSUME NEW c \in Colors, PutObject(c)
        PROVE  LifeInv'
    BY <1>1, PutObjectEffect DEF LifeInv, Aside, OnlyCreation
  <1>2. ASSUME NEW c \in Colors, CreateColor(c)
        PROVE  LifeInv'
    BY <1>2, CreateColorEffect DEF LifeInv, OnlyCreation, OnlyColor
  <1>3. ASSUME NEW c \in Colors, CreateRefused(c)
        PROVE  LifeInv'
    BY <1>3, CreateRefusedEffect DEF LifeInv, Aside, OnlyCreation
  <1>4. ASSUME NEW c \in Colors, Judge(c)
        PROVE  LifeInv'
    BY <1>4, JudgeEffect DEF LifeInv, Aside, OnlyCreation
  <1>5. ASSUME NEW c \in Colors, ApplyVerdict(c)
        PROVE  LifeInv'
    BY <1>5, ApplyVerdictEffect DEF LifeInv, OnlyCreation, OnlyColor, Verdicts
  <1>6. ASSUME NEW c \in Colors, VerdictRolledBack(c)
        PROVE  LifeInv'
    BY <1>6, VerdictRolledBackEffect DEF LifeInv, Aside, OnlyCreation
  <1>7. ASSUME NEW c \in Colors, Review(c)
        PROVE  LifeInv'
    BY <1>7, ReviewEffect DEF LifeInv, OnlyColor
  <1>8. ASSUME NEW c \in Colors, Delete(c)
        PROVE  LifeInv'
    BY <1>8, DeleteEffect DEF LifeInv, OnlyColor
  <1>9. ASSUME NEW c \in Colors, RemoveObject(c)
        PROVE  LifeInv'
    BY <1>9, RemoveObjectEffect DEF LifeInv, Aside
  <1>10. ASSUME NEW e \in Editors, CommitEdit(e)
         PROVE  LifeInv'
    <2>1. PICK c \in Colors :
             /\ OnlyColor(c) /\ UNCHANGED <<stored, creation, removal>>
             /\ color'[c].status = color[c].status
             /\ color[c].status # "absent"
      BY <1>10, CommitEditEffect DEF Active
    <2> QED BY <2>1 DEF LifeInv, OnlyColor
  <1>11. ASSUME NEW e \in Editors, StartEdit(e) \/ EditFails(e)
         PROVE  LifeInv'
    BY <1>11, StartEditEffect, EditFailsEffect DEF LifeInv, Aside
  <1>12. ASSUME NEW j \in Jobs, Resolve(j) \/ AcceptanceRolledBack(j)
         PROVE  LifeInv'
    BY <1>12, ResolveEffect, AcceptanceRolledBackEffect DEF LifeInv, Aside
  <1>13. ASSUME NEW j \in Jobs, Retain(j) \/ Finish(j)
         PROVE  LifeInv'
    <2>1. PICK c \in Colors :
             /\ OnlyColor(c) /\ UNCHANGED <<stored, creation, removal>>
             /\ color'[c].status = color[c].status /\ color'[c].profile = color[c].profile
      BY <1>13, RetainEffect, FinishEffect
    <2> QED BY <2>1 DEF LifeInv, OnlyColor
  <1>14. CASE Crash
    BY <1>14, CrashEffect DEF LifeInv, Aside
  <1> QED BY <1>1, <1>2, <1>3, <1>4, <1>5, <1>6, <1>7, <1>8, <1>9, <1>10, <1>11, <1>12, <1>13,
          <1>14 DEF Next

(* A color keeps existing, and only Resolve reads a new one.                  *)
LEMMA JobStep ==
    ASSUME TypeOK, LifeInv, JobInv, Next
    PROVE  JobInv'
  <1>1. \A c \in Colors : color[c].status # "absent" => color'[c].status # "absent"
    <2>1. ASSUME NEW c \in Colors,
                 \/ PutObject(c) \/ CreateColor(c) \/ CreateRefused(c) \/ Judge(c)
                 \/ ApplyVerdict(c) \/ VerdictRolledBack(c) \/ Review(c) \/ Delete(c)
                 \/ RemoveObject(c)
          PROVE  color' = color \/ (OnlyColor(c) /\ color'[c].status # "absent")
      BY <2>1, PutObjectEffect, CreateColorEffect, CreateRefusedEffect, JudgeEffect,
         ApplyVerdictEffect, VerdictRolledBackEffect, ReviewEffect, DeleteEffect,
         RemoveObjectEffect DEF Aside, Verdicts
    <2>2. ASSUME NEW e \in Editors, StartEdit(e) \/ CommitEdit(e) \/ EditFails(e)
          PROVE  color' = color \/ \E c \in Colors : OnlyColor(c) /\ color'[c].status = color[c].status
      BY <2>2, StartEditEffect, CommitEditEffect, EditFailsEffect DEF Aside
    <2>3. ASSUME NEW j \in Jobs,
                 Resolve(j) \/ Retain(j) \/ AcceptanceRolledBack(j) \/ Finish(j)
          PROVE  color' = color \/ \E c \in Colors : OnlyColor(c) /\ color'[c].status = color[c].status
      BY <2>3, ResolveEffect, RetainEffect, AcceptanceRolledBackEffect, FinishEffect DEF Aside
    <2> QED BY <2>1, <2>2, <2>3, CrashEffect DEF Next, OnlyColor, Aside
  <1>2. ASSUME NEW j \in Jobs,
               Resolve(j) \/ Retain(j) \/ AcceptanceRolledBack(j) \/ Finish(j)
        PROVE  JobInv'
    <2>1. CASE Resolve(j)
      BY <2>1, <1>1, ResolveEffect DEF JobInv, OnlyJob, Aside
    <2>2. CASE Retain(j)
      BY <2>2, <1>1, RetainEffect DEF JobInv, OnlyJob
    <2>3. CASE AcceptanceRolledBack(j)
      BY <2>3, AcceptanceRolledBackEffect DEF JobInv, OnlyJob, Aside
    <2>4. CASE Finish(j)
      BY <2>4, <1>1, FinishEffect DEF JobInv, OnlyJob
    <2> QED BY <1>2, <2>1, <2>2, <2>3, <2>4
  <1>3. CASE Crash
    BY <1>1, <1>3, CrashEffect DEF JobInv
  <1>4. CASE job' = job
    BY <1>1, <1>4 DEF JobInv
  <1>5. ASSUME NEW c \in Colors,
               \/ PutObject(c) \/ CreateColor(c) \/ CreateRefused(c) \/ Judge(c)
               \/ ApplyVerdict(c) \/ VerdictRolledBack(c) \/ Review(c) \/ Delete(c)
               \/ RemoveObject(c)
        PROVE  job' = job
    BY <1>5, PutObjectEffect, CreateColorEffect, CreateRefusedEffect, JudgeEffect,
       ApplyVerdictEffect, VerdictRolledBackEffect, ReviewEffect, DeleteEffect,
       RemoveObjectEffect
  <1>6. ASSUME NEW e \in Editors, StartEdit(e) \/ CommitEdit(e) \/ EditFails(e)
        PROVE  job' = job
    BY <1>6, StartEditEffect, CommitEditEffect, EditFailsEffect
  <1> QED BY <1>2, <1>3, <1>4, <1>5, <1>6 DEF Next

LEMMA StoredStep ==
    ASSUME TypeOK, LifeInv, JobInv, ActiveIsStored, Next
    PROVE  ActiveIsStored'
  <1>1. ASSUME NEW c \in Colors, PutObject(c)
        PROVE  ActiveIsStored'
    BY <1>1, PutObjectEffect DEF ActiveIsStored, Active, Aside
  <1>2. ASSUME NEW c \in Colors, CreateColor(c)
        PROVE  ActiveIsStored'
    BY <1>2, CreateColorEffect DEF ActiveIsStored, Active, LifeInv, OnlyColor
  <1>3. ASSUME NEW c \in Colors, CreateRefused(c)
        PROVE  ActiveIsStored'
    BY <1>3, CreateRefusedEffect DEF ActiveIsStored, Active, LifeInv, Aside
  <1>4. ASSUME NEW c \in Colors, Judge(c) \/ VerdictRolledBack(c)
        PROVE  ActiveIsStored'
    BY <1>4, JudgeEffect, VerdictRolledBackEffect DEF ActiveIsStored, Active, Aside
  <1>5. ASSUME NEW c \in Colors, ApplyVerdict(c)
        PROVE  ActiveIsStored'
    BY <1>5, ApplyVerdictEffect DEF ActiveIsStored, Active, OnlyColor
  <1>6. ASSUME NEW c \in Colors, Review(c)
        PROVE  ActiveIsStored'
    BY <1>6, ReviewEffect DEF ActiveIsStored, Active, OnlyColor
  <1>7. ASSUME NEW c \in Colors, Delete(c)
        PROVE  ActiveIsStored'
    BY <1>7, DeleteEffect DEF ActiveIsStored, Active, OnlyColor
  <1>8. ASSUME NEW c \in Colors, RemoveObject(c)
        PROVE  ActiveIsStored'
    BY <1>8, RemoveObjectEffect DEF ActiveIsStored, Active, Aside
  <1>9. ASSUME NEW e \in Editors, StartEdit(e) \/ EditFails(e)
        PROVE  ActiveIsStored'
    BY <1>9, StartEditEffect, EditFailsEffect DEF ActiveIsStored, Active, Aside
  <1>10. ASSUME NEW e \in Editors, CommitEdit(e)
         PROVE  ActiveIsStored'
    BY <1>10, CommitEditEffect DEF ActiveIsStored, Active, OnlyColor
  <1>11. ASSUME NEW j \in Jobs, Resolve(j) \/ AcceptanceRolledBack(j)
         PROVE  ActiveIsStored'
    BY <1>11, ResolveEffect, AcceptanceRolledBackEffect DEF ActiveIsStored, Active, Aside
  <1>12. ASSUME NEW j \in Jobs, Retain(j)
         PROVE  ActiveIsStored'
    BY <1>12, RetainEffect DEF ActiveIsStored, Active, OnlyColor
  <1>13. ASSUME NEW j \in Jobs, Finish(j)
         PROVE  ActiveIsStored'
    BY <1>13, FinishEffect DEF ActiveIsStored, Active, OnlyColor
  <1>14. CASE Crash
    BY <1>14, CrashEffect DEF ActiveIsStored, Active, Aside
  <1> QED BY <1>1, <1>2, <1>3, <1>4, <1>5, <1>6, <1>7, <1>8, <1>9, <1>10, <1>11, <1>12, <1>13,
          <1>14 DEF Next

LEMMA HoldersFinite ==
    ASSUME FiniteInv
    PROVE  /\ \A c : IsFiniteSet(Holders(c))
           /\ \A c : Cardinality(Holders(c)) = 0 <=> Holders(c) = {}
  <1>1. \A c : Holders(c) \subseteq Held
    BY DEF Holders, Held
  <1>2. \A c : IsFiniteSet(Holders(c))
    BY <1>1, FS_Subset DEF FiniteInv
  <1> QED BY <1>2, FS_EmptySet

(* A step that neither takes nor gives back a reference.                     *)
Neutral ==
    /\ Held' = Held
    /\ \A c \in Colors : /\ Holders(c)' = Holders(c)
                         /\ color'[c].count = color[c].count
                         /\ stale[c] \subseteq stale'[c]

LEMMA NeutralStep ==
    ASSUME TypeOK, LifeInv, JobInv, Next, \A j \in Jobs : ~Retain(j) /\ ~Finish(j)
    PROVE  Neutral
  <1>1. ASSUME NEW c \in Colors,
               \/ PutObject(c) \/ CreateColor(c) \/ CreateRefused(c) \/ Judge(c)
               \/ ApplyVerdict(c) \/ VerdictRolledBack(c) \/ Review(c) \/ Delete(c)
               \/ RemoveObject(c)
        PROVE  Neutral
    <2>1. job' = job
      BY <1>1, PutObjectEffect, CreateColorEffect, CreateRefusedEffect, JudgeEffect,
         ApplyVerdictEffect, VerdictRolledBackEffect, ReviewEffect, DeleteEffect,
         RemoveObjectEffect
    <2>2. \/ Aside
          \/ OnlyColor(c) /\ color'[c].count = color[c].count /\ stale[c] \subseteq stale'[c]
      BY <1>1, PutObjectEffect, CreateColorEffect, CreateRefusedEffect, JudgeEffect,
         ApplyVerdictEffect, VerdictRolledBackEffect, ReviewEffect, DeleteEffect,
         RemoveObjectEffect
    <2> QED BY <2>1, <2>2 DEF Neutral, Held, Holders, Aside, OnlyColor
  <1>2. ASSUME NEW e \in Editors, StartEdit(e) \/ CommitEdit(e) \/ EditFails(e)
        PROVE  Neutral
    <2>1. job' = job
      BY <1>2, StartEditEffect, CommitEditEffect, EditFailsEffect
    <2>2. \/ Aside
          \/ \E c \in Colors : /\ OnlyColor(c) /\ color'[c].count = color[c].count
                               /\ stale[c] \subseteq stale'[c]
      BY <1>2, StartEditEffect, CommitEditEffect, EditFailsEffect
    <2> QED BY <2>1, <2>2 DEF Neutral, Held, Holders, Aside, OnlyColor
  <1>3. ASSUME NEW j \in Jobs, Resolve(j) \/ AcceptanceRolledBack(j)
        PROVE  Neutral
    <2>1. Aside /\ OnlyJob(j) /\ job[j].step # "held" /\ job'[j].step # "held"
      BY <1>3, ResolveEffect, AcceptanceRolledBackEffect
    <2>2. \A k \in Jobs : job'[k].step = "held" \/ job[k].step = "held" => job'[k] = job[k]
      BY <2>1 DEF OnlyJob
    <2> QED BY <2>1, <2>2 DEF Neutral, Held, Holders, Aside
  <1>4. CASE Crash
    <2>1. \A k \in Jobs : job'[k].step = "held" \/ job[k].step = "held" => job'[k] = job[k]
      BY <1>4, CrashEffect
    <2> QED BY <1>4, <2>1, CrashEffect DEF Neutral, Held, Holders, Aside
  <1> QED BY <1>1, <1>2, <1>3, <1>4 DEF Next

(* Delete decides on the count, and the last reference is given back first.   *)
LEMMA ReferenceStep ==
    ASSUME IInv, Next
    PROVE  ReferencesCounted' /\ RemovalInv' /\ HeldReferenceIsStored' /\ IsFiniteSet(Held')
  <1>t. /\ TypeOK /\ LifeInv /\ JobInv /\ RemovalInv /\ FiniteInv /\ ActiveIsStored
        /\ ReferencesCounted /\ HeldReferenceIsStored
    BY DEF IInv
  <1>1. ASSUME NEW j \in Jobs, Retain(j)
        PROVE  ReferencesCounted' /\ RemovalInv' /\ HeldReferenceIsStored' /\ IsFiniteSet(Held')
    <2>1. PICK c \in Colors :
          /\ OnlyColor(c) /\ OnlyJob(j) /\ UNCHANGED <<stored, removal>>
          /\ job[j].step = "resolved" /\ job'[j].step = "held" /\ job'[j].color = c
          /\ color[c].status = "approved"
          /\ stale[c] \subseteq stale'[c]
          /\ "count" \notin stale'[c] => color'[c].count = color[c].count + 1
      BY <1>t, <1>1, RetainEffect
    <2>2. /\ Holders(c)' = Holders(c) \cup {j} /\ j \notin Holders(c)
          /\ Held' = Held \cup {j}
          /\ \A d \in Colors : d # c => Holders(d)' = Holders(d)
      BY <2>1 DEF Holders, Held, OnlyJob
    <2>3. Cardinality(Holders(c)') = Cardinality(Holders(c)) + 1 /\ IsFiniteSet(Held')
      BY <1>t, <2>2, HoldersFinite, FS_AddElement DEF FiniteInv
    <2>4. ReferencesCounted'
      BY <1>t, <2>1, <2>2, <2>3 DEF ReferencesCounted, OnlyColor
    <2>5. "status" \notin stale[c] => c \in stored /\ c \notin removal
      BY <1>t, <2>1 DEF ActiveIsStored, Active
    <2>6. RemovalInv'
      BY <1>t, <2>1, <2>2, <2>5 DEF RemovalInv, OnlyColor
    <2>7. HeldReferenceIsStored'
      BY <1>t, <2>1, <2>2, <2>5 DEF HeldReferenceIsStored, OnlyColor
    <2> QED BY <2>3, <2>4, <2>6, <2>7
  <1>2. ASSUME NEW j \in Jobs, Finish(j)
        PROVE  ReferencesCounted' /\ RemovalInv' /\ HeldReferenceIsStored' /\ IsFiniteSet(Held')
    <2>1. PICK c \in Colors :
          /\ OnlyColor(c) /\ OnlyJob(j) /\ UNCHANGED <<stored, removal, stale>>
          /\ job[j].step = "held" /\ job[j].color = c /\ job'[j].step = "ended"
          /\ color[c].count \in Nat /\ color'[c].count = color[c].count - 1
      BY <1>t, <1>2, FinishEffect
    <2>2. /\ Holders(c)' = Holders(c) \ {j} /\ j \in Holders(c)
          /\ Held' = Held \ {j}
          /\ \A d \in Colors : d # c => Holders(d)' = Holders(d)
      BY <2>1 DEF Holders, Held, OnlyJob
    <2>3. Cardinality(Holders(c)') = Cardinality(Holders(c)) - 1 /\ IsFiniteSet(Held')
      BY <1>t, <2>2, HoldersFinite, FS_RemoveElement DEF FiniteInv
    <2>4. ReferencesCounted'
      BY <1>t, <2>1, <2>2, <2>3 DEF ReferencesCounted, OnlyColor
    <2>5. \A d \in Colors : Holders(d)' \subseteq Holders(d)
      BY <2>2
    <2>6. RemovalInv' /\ HeldReferenceIsStored'
      BY <1>t, <2>1, <2>5 DEF RemovalInv, HeldReferenceIsStored
    <2> QED BY <2>3, <2>4, <2>6
  <1>3. CASE Neutral
    <2>1. ReferencesCounted' /\ IsFiniteSet(Held')
      BY <1>t, <1>3 DEF Neutral, ReferencesCounted, FiniteInv
    <2>2. ASSUME NEW c \in Colors, c \in removal' \ removal
          PROVE  color[c].count = 0
      <3>1. ASSUME NEW d \in Colors,
                   \/ PutObject(d) \/ CreateColor(d) \/ CreateRefused(d) \/ Judge(d)
                   \/ ApplyVerdict(d) \/ VerdictRolledBack(d) \/ Review(d) \/ RemoveObject(d)
            PROVE  removal' \subseteq removal
        BY <1>t, <3>1, PutObjectEffect, CreateColorEffect, CreateRefusedEffect, JudgeEffect,
           ApplyVerdictEffect, VerdictRolledBackEffect, ReviewEffect, RemoveObjectEffect
      <3>2. ASSUME NEW d \in Colors, Delete(d)
            PROVE  color[c].count = 0
        BY <1>t, <2>2, <3>2, DeleteEffect
      <3>3. ASSUME NEW e \in Editors, StartEdit(e) \/ CommitEdit(e) \/ EditFails(e)
            PROVE  removal' = removal
        BY <1>t, <3>3, StartEditEffect, CommitEditEffect, EditFailsEffect
      <3>4. ASSUME NEW j \in Jobs,
                   Resolve(j) \/ Retain(j) \/ AcceptanceRolledBack(j) \/ Finish(j)
            PROVE  removal' = removal
        BY <1>t, <3>4, ResolveEffect, RetainEffect, AcceptanceRolledBackEffect, FinishEffect
      <3> QED BY <1>t, <2>2, <3>1, <3>2, <3>3, <3>4, CrashEffect DEF Next
    <2>3. RemovalInv'
      <3> SUFFICES ASSUME NEW c \in Colors, c \in removal',
                          stale'[c] \cap {"status", "count"} = {}
                   PROVE  Holders(c) = {}
        BY <1>3 DEF RemovalInv, Neutral
      <3>1. stale[c] \cap {"status", "count"} = {}
        BY <1>3 DEF Neutral
      <3>2. CASE c \in removal
        BY <1>t, <3>1, <3>2 DEF RemovalInv
      <3>3. CASE c \notin removal
        BY <1>t, <2>2, <3>1, <3>3, HoldersFinite DEF ReferencesCounted
      <3> QED BY <3>2, <3>3
    <2>4. ASSUME NEW c \in Colors, c \in stored \ stored'
          PROVE  color[c].status = "absent" \/ c \in removal
      <3>1. ASSUME NEW d \in Colors,
                   \/ PutObject(d) \/ CreateColor(d) \/ Judge(d) \/ Delete(d)
                   \/ ApplyVerdict(d) \/ VerdictRolledBack(d) \/ Review(d)
            PROVE  stored \subseteq stored'
        BY <1>t, <3>1, PutObjectEffect, CreateColorEffect, JudgeEffect, DeleteEffect,
           ApplyVerdictEffect, VerdictRolledBackEffect, ReviewEffect
      <3>2. ASSUME NEW d \in Colors, CreateRefused(d) \/ RemoveObject(d)
            PROVE  color[c].status = "absent" \/ c \in removal
        BY <1>t, <2>4, <3>2, CreateRefusedEffect, RemoveObjectEffect DEF LifeInv
      <3>3. ASSUME NEW e \in Editors, StartEdit(e) \/ CommitEdit(e) \/ EditFails(e)
            PROVE  stored' = stored
        BY <1>t, <3>3, StartEditEffect, CommitEditEffect, EditFailsEffect
      <3>4. ASSUME NEW j \in Jobs,
                   Resolve(j) \/ Retain(j) \/ AcceptanceRolledBack(j) \/ Finish(j)
            PROVE  stored' = stored
        BY <1>t, <3>4, ResolveEffect, RetainEffect, AcceptanceRolledBackEffect, FinishEffect
      <3> QED BY <1>t, <2>4, <3>1, <3>2, <3>3, <3>4, CrashEffect DEF Next
    <2>5. HeldReferenceIsStored'
      <3> SUFFICES ASSUME NEW c \in Colors, Holders(c) # {},
                          stale'[c] \cap {"status", "count"} = {}
                   PROVE  c \in stored'
        BY <1>3 DEF HeldReferenceIsStored, Neutral
      <3>1. stale[c] \cap {"status", "count"} = {}
        BY <1>3 DEF Neutral
      <3>2. c \in stored
        BY <1>t, <3>1 DEF HeldReferenceIsStored
      <3>3. c \notin removal
        BY <1>t, <3>1 DEF RemovalInv
      <3>4. color[c].status # "absent"
        BY <1>t DEF JobInv, Holders
      <3> QED BY <2>4, <3>2, <3>3, <3>4
    <2> QED BY <2>1, <2>3, <2>5
  <1> QED BY <1>t, <1>1, <1>2, <1>3, NeutralStep

(* Moderation, review and edits each leave a published structure its profile. *)
LEMMA ProfileStep ==
    ASSUME IInv, Next
    PROVE  ProfileInv' /\ UsableProfile'
  <1>t. TypeOK /\ LifeInv /\ JobInv /\ ProfileInv /\ UsableProfile
    BY DEF IInv
  <1>1. ASSUME NEW c \in Colors, PutObject(c) \/ CreateRefused(c) \/ VerdictRolledBack(c)
        PROVE  ProfileInv' /\ UsableProfile'
    <2>1. Aside /\ OnlyCreation(c) /\ creation'[c].step \in {"put", "ended"}
      BY <1>t, <1>1, PutObjectEffect, CreateRefusedEffect, VerdictRolledBackEffect
    <2> QED BY <1>t, <2>1 DEF ProfileInv, UsableProfile, Aside, OnlyCreation
  <1>2. ASSUME NEW c \in Colors, CreateColor(c)
        PROVE  ProfileInv' /\ UsableProfile'
    <2>1. /\ OnlyCreation(c) /\ OnlyColor(c) /\ creation'[c].step = "created"
          /\ creation'[c].structure = creation[c].structure
          /\ color'[c].status = "pending" /\ color'[c].structure = creation[c].structure
          /\ color'[c].profile = "none"
      BY <1>t, <1>2, CreateColorEffect DEF LifeInv
    <2> QED BY <1>t, <2>1 DEF ProfileInv, UsableProfile, OnlyCreation, OnlyColor
  <1>3. ASSUME NEW c \in Colors, Judge(c)
        PROVE  ProfileInv' /\ UsableProfile'
    <2>1. ProfileInv'
      BY <1>t, <1>3, JudgeEffect DEF ProfileInv, Aside, OnlyCreation
    <2>2. UsableProfile'
      BY <1>t, <1>3, JudgeEffect DEF UsableProfile, Aside
    <2> QED BY <2>1, <2>2
  <1>4. ASSUME NEW c \in Colors, ApplyVerdict(c)
        PROVE  ProfileInv' /\ UsableProfile'
    <2>1. /\ OnlyCreation(c) /\ OnlyColor(c) /\ creation[c].step = "judged"
          /\ creation'[c].step = "ended" /\ creation[c].verdict \in Verdicts
          /\ color'[c].status = creation[c].verdict
          /\ color'[c].structure = color[c].structure
          /\ color'[c].profile = IF creation[c].profile = "none" THEN color[c].profile
                                                                 ELSE creation[c].profile
          /\ stale[c] \subseteq stale'[c]
          /\ ("profile" \notin stale'[c] /\ creation[c].profile # "none")
                => color[c].structure = creation[c].structure
      BY <1>t, <1>4, ApplyVerdictEffect
    <2>2. ProfileInv'
      BY <1>t, <2>1 DEF ProfileInv, OnlyCreation, OnlyColor
    <2>3. ASSUME "profile" \notin stale'[c]
          PROVE  /\ color'[c].profile \in {"none", color'[c].structure}
                 /\ (color'[c].status = "approved" /\ color'[c].structure # "unspecified")
                       => color'[c].profile # "none"
      <3>1. CASE creation[c].profile # "none"
        BY <1>t, <2>1, <2>3, <3>1 DEF ProfileInv
      <3>2. CASE creation[c].profile = "none"
        BY <1>t, <2>1, <2>3, <3>2 DEF ProfileInv, UsableProfile
      <3> QED BY <3>1, <3>2
    <2>4. UsableProfile'
      BY <1>t, <2>1, <2>3 DEF UsableProfile, OnlyColor, Verdicts
    <2> QED BY <2>2, <2>4
  <1>5. ASSUME NEW c \in Colors, Review(c)
        PROVE  ProfileInv' /\ UsableProfile'
    <2>1. ProfileInv'
      BY <1>t, <1>5, ReviewEffect DEF ProfileInv, OnlyColor
    <2>2. UsableProfile'
      BY <1>t, <1>5, ReviewEffect DEF UsableProfile, OnlyColor, MayApprove
    <2> QED BY <2>1, <2>2
  <1>6. ASSUME NEW c \in Colors, Delete(c)
        PROVE  ProfileInv' /\ UsableProfile'
    BY <1>t, <1>6, DeleteEffect DEF ProfileInv, UsableProfile, OnlyColor
  <1>7. ASSUME NEW e \in Editors, CommitEdit(e)
        PROVE  ProfileInv' /\ UsableProfile'
    <2>1. PICK c \in Colors :
             /\ OnlyColor(c) /\ creation' = creation
             /\ color'[c].status = color[c].status
             /\ stale[c] \subseteq stale'[c]
             /\ "profile" \notin stale'[c] =>
                   color'[c].profile = EditedProfile(color'[c].structure, color[c].structure,
                                                     color[c].profile)
      BY <1>t, <1>7, CommitEditEffect
    <2>t. color'[c].structure \in Structures
      BY <1>t, <1>7, CommitEditEffect DEF TypeOK, ColorRow
    <2>2. "profile" \notin stale'[c] =>
             /\ color'[c].profile \in {"none", color'[c].structure}
             /\ color'[c].structure # "unspecified" => color'[c].profile # "none"
      BY <1>t, <2>1, <2>t DEF EditedProfile, UsableProfile, Structures
    <2>3. ProfileInv'
      BY <1>t, <2>1, <2>2 DEF ProfileInv, OnlyColor
    <2>4. UsableProfile'
      BY <1>t, <2>1, <2>2 DEF UsableProfile, OnlyColor
    <2> QED BY <2>3, <2>4
  <1>8. ASSUME NEW e \in Editors, StartEdit(e) \/ EditFails(e)
        PROVE  ProfileInv' /\ UsableProfile'
    BY <1>t, <1>8, StartEditEffect, EditFailsEffect DEF ProfileInv, UsableProfile, Aside
  <1>9. ASSUME NEW c \in Colors, RemoveObject(c)
        PROVE  ProfileInv' /\ UsableProfile'
    BY <1>t, <1>9, RemoveObjectEffect DEF ProfileInv, UsableProfile, Aside
  <1>10. ASSUME NEW j \in Jobs, Resolve(j) \/ AcceptanceRolledBack(j)
         PROVE  ProfileInv' /\ UsableProfile'
    BY <1>t, <1>10, ResolveEffect, AcceptanceRolledBackEffect
       DEF ProfileInv, UsableProfile, Aside
  <1>11. ASSUME NEW j \in Jobs, Retain(j) \/ Finish(j)
         PROVE  ProfileInv' /\ UsableProfile'
    <2>1. PICK c \in Colors :
             /\ OnlyColor(c) /\ creation' = creation
             /\ color'[c].status = color[c].status
             /\ color'[c].structure = color[c].structure
             /\ color'[c].profile = color[c].profile
             /\ stale[c] \subseteq stale'[c]
      BY <1>t, <1>11, RetainEffect, FinishEffect
    <2> QED BY <1>t, <2>1 DEF ProfileInv, UsableProfile, OnlyColor
  <1>12. CASE Crash
    BY <1>t, <1>12, CrashEffect DEF ProfileInv, UsableProfile, Aside
  <1> QED BY <1>1, <1>2, <1>3, <1>4, <1>5, <1>6, <1>7, <1>8, <1>9, <1>10, <1>11, <1>12 DEF Next

-----------------------------------------------------------------------------
(* How the status of a color may change.                                     *)
StatusMove(c) ==
    /\ OnlyColor(c)
    /\ color[c].approvedAt => color'[c].approvedAt
    /\ MatchesApproval(color'[c])
    /\ stale[c] \subseteq stale'[c]
    /\ \/ color[c].status = "absent" /\ HasQuota
       \/ Active(c) \/ ~Active(c)' \/ "status" \in stale'[c]
    /\ \/ color[c].status = "absent" /\ color'[c].status = "pending"
       \/ color[c].status # "absent" /\ color'[c].status # "absent"

LEMMA StatusStep ==
    ASSUME IInv, Next
    PROVE  Aside \/ \E c \in Colors : StatusMove(c)
  <1>t. TypeOK /\ LifeInv /\ JobInv /\ ApprovalInv
    BY DEF IInv
  <1>1. ASSUME NEW c \in Colors, CreateColor(c)
        PROVE  StatusMove(c)
    BY <1>t, <1>1, CreateColorEffect
       DEF StatusMove, LifeInv, ApprovalInv, MatchesApproval, Active, OnlyColor
  <1>2. ASSUME NEW c \in Colors, ApplyVerdict(c)
        PROVE  StatusMove(c)
    BY <1>t, <1>2, ApplyVerdictEffect DEF StatusMove, LifeInv, Active, Verdicts
  <1>3. ASSUME NEW c \in Colors, Review(c)
        PROVE  StatusMove(c)
    BY <1>t, <1>3, ReviewEffect DEF StatusMove, Active
  <1>4. ASSUME NEW c \in Colors, Delete(c)
        PROVE  StatusMove(c)
    BY <1>t, <1>4, DeleteEffect DEF StatusMove, MatchesApproval, Active
  <1>5. ASSUME NEW e \in Editors, CommitEdit(e)
        PROVE  \E c \in Colors : StatusMove(c)
    BY <1>t, <1>5, CommitEditEffect DEF StatusMove, ApprovalInv, MatchesApproval, Active
  <1>6. ASSUME NEW j \in Jobs, Retain(j) \/ Finish(j)
        PROVE  \E c \in Colors : StatusMove(c)
    <2>1. PICK c \in Colors :
             /\ OnlyColor(c) /\ color'[c].status = color[c].status
             /\ color[c].status # "absent"
             /\ color'[c].approvedAt = color[c].approvedAt
             /\ stale[c] \subseteq stale'[c]
      BY <1>t, <1>6, RetainEffect, FinishEffect DEF JobInv
    <2> QED BY <1>t, <2>1 DEF StatusMove, ApprovalInv, MatchesApproval, Active
  <1>7. ASSUME NEW c \in Colors,
               \/ PutObject(c) \/ CreateRefused(c) \/ Judge(c) \/ VerdictRolledBack(c)
               \/ RemoveObject(c)
        PROVE  Aside
    BY <1>t, <1>7, PutObjectEffect, CreateRefusedEffect, JudgeEffect, VerdictRolledBackEffect,
       RemoveObjectEffect
  <1>8. ASSUME NEW e \in Editors, StartEdit(e) \/ EditFails(e)
        PROVE  Aside
    BY <1>t, <1>8, StartEditEffect, EditFailsEffect
  <1>9. ASSUME NEW j \in Jobs, Resolve(j) \/ AcceptanceRolledBack(j)
        PROVE  Aside
    BY <1>t, <1>9, ResolveEffect, AcceptanceRolledBackEffect
  <1> QED BY <1>t, <1>1, <1>2, <1>3, <1>4, <1>5, <1>6, <1>7, <1>8, <1>9, CrashEffect DEF Next

(* The quota is counted and used up under one lock.                          *)
LEMMA QuotaStep ==
    ASSUME IInv, Next
    PROVE  ApprovalInv' /\ IsFiniteSet(Existing') /\ QuotaRespected'
  <1>t. TypeOK /\ ApprovalInv /\ FiniteInv /\ QuotaRespected
    BY DEF IInv
  <1>0. Quota \in Nat
    BY ConstantsAssumption DEF ConstantsAssumption
  <1> DEFINE Live == {c \in Colors : Active(c)}
  <1>a. Live \subseteq Existing /\ IsFiniteSet(Live) /\ Cardinality(Live) \in Nat
    <2>1. Live \subseteq Existing
      BY DEF Active, Existing
    <2> QED BY <1>t, <2>1, FS_Subset, FS_CardinalityType DEF FiniteInv
  <1>1. CASE Aside
    <2>1. ApprovalInv' /\ Existing' = Existing /\ Live' = Live
      BY <1>t, <1>1 DEF Aside, ApprovalInv, Existing, Active
    <2> QED BY <1>t, <1>1, <2>1 DEF Aside, QuotaRespected, FiniteInv
  <1>2. ASSUME NEW c \in Colors, StatusMove(c)
        PROVE  ApprovalInv' /\ IsFiniteSet(Existing') /\ QuotaRespected'
    <2>1. ApprovalInv'
      BY <1>t, <1>2 DEF StatusMove, OnlyColor, ApprovalInv
    <2>2. Existing' = Existing \/ Existing' = Existing \cup {c}
      BY <1>2 DEF StatusMove, OnlyColor, Existing
    <2>3. IsFiniteSet(Existing')
      BY <1>t, <2>2, FS_AddElement DEF FiniteInv
    <2>4. ASSUME \A d \in Colors : "status" \notin stale'[d]
          PROVE  Cardinality(Live') <= Quota
      <3>1. \A d \in Colors : "status" \notin stale[d]
        BY <1>2, <2>4 DEF StatusMove, OnlyColor
      <3>2. Cardinality(Live) <= Quota
        BY <1>t, <3>1 DEF QuotaRespected
      <3>3. CASE Live' \subseteq Live
        <4>1. Cardinality(Live') <= Cardinality(Live) /\ Cardinality(Live') \in Nat
          BY <1>a, <3>3, FS_Subset, FS_CardinalityType
        <4> QED BY <1>0, <1>a, <3>2, <4>1
      <3>4. CASE ~(Live' \subseteq Live)
        <4>1. color[c].status = "absent" /\ HasQuota
          BY <1>2, <2>4, <3>4 DEF StatusMove, OnlyColor, Active
        <4>2. Live' = Live \cup {c} /\ c \notin Live
          BY <1>2, <3>4, <4>1 DEF StatusMove, OnlyColor, Active
        <4>3. Cardinality(Live') = Cardinality(Live) + 1
          BY <1>a, <4>2, FS_AddElement
        <4>4. Cardinality(Live) < Quota
          BY <4>1 DEF HasQuota
        <4> QED BY <1>0, <1>a, <4>3, <4>4
      <3> QED BY <3>3, <3>4
    <2> QED BY <2>1, <2>3, <2>4 DEF QuotaRespected
  <1> QED BY <1>1, <1>2, StatusStep

-----------------------------------------------------------------------------
LEMMA Invariance == IInv /\ [Next]_vars => IInv'
  <1> SUFFICES ASSUME IInv, [Next]_vars PROVE IInv'
    OBVIOUS
  <1>1. CASE Next
    <2>1. TypeOK' /\ LifeInv' /\ JobInv' /\ ActiveIsStored'
      BY <1>1, TypeStep, LifeStep, JobStep, StoredStep DEF IInv
    <2>2. ReferencesCounted' /\ RemovalInv' /\ HeldReferenceIsStored' /\ IsFiniteSet(Held')
      BY <1>1, ReferenceStep
    <2>3. ProfileInv' /\ UsableProfile'
      BY <1>1, ProfileStep
    <2>4. ApprovalInv' /\ IsFiniteSet(Existing') /\ QuotaRespected'
      BY <1>1, QuotaStep
    <2> QED BY <2>1, <2>2, <2>3, <2>4 DEF IInv, FiniteInv
  <1>2. CASE UNCHANGED vars
    <2>1. /\ Existing' = Existing /\ Held' = Held
          /\ \A c \in Colors : Holders(c)' = Holders(c) /\ Active(c)' = Active(c)
      BY <1>2 DEF vars, Existing, Held, Holders, Active
    <2>2. TypeOK' /\ LifeInv' /\ JobInv' /\ ProfileInv' /\ ApprovalInv' /\ UsableProfile'
      BY <1>2 DEF vars, IInv, TypeOK, LifeInv, JobInv, ProfileInv, ApprovalInv, UsableProfile
    <2>3. RemovalInv' /\ FiniteInv' /\ ActiveIsStored' /\ ReferencesCounted' /\ HeldReferenceIsStored'
      BY <1>2, <2>1 DEF vars, IInv, RemovalInv, FiniteInv, ActiveIsStored, ReferencesCounted,
                        HeldReferenceIsStored
    <2>4. QuotaRespected'
      <3>1. {c \in Colors : Active(c)}' = {c \in Colors : Active(c)}
        BY <2>1
      <3> QED BY <1>2, <3>1 DEF vars, IInv, QuotaRespected
    <2> QED BY <2>2, <2>3, <2>4 DEF IInv
  <1> QED BY <1>1, <1>2

(* Every reachable state satisfies the inductive invariant.                  *)
THEOREM Inductive == Spec => []IInv
  BY InitInv, Invariance, PTL DEF Spec

(* The rows of custom_colors, the requests and the references keep their      *)
(* types: release never takes a count below zero.                            *)
THEOREM TypeCorrect == Spec => []TypeOK
  <1>1. IInv => TypeOK
    BY DEF IInv
  <1> QED BY <1>1, Inductive, PTL

(* retain and release keep retain_count equal to the unfinished jobs on the    *)
(* color, unless retain wrote a count that had been replaced.                 *)
THEOREM ReferencesAreCounted == Spec => []ReferencesCounted
  <1>1. IInv => ReferencesCounted
    BY DEF IInv
  <1> QED BY <1>1, Inductive, PTL

(* delete removes no object that an unfinished job refers to, unless one of    *)
(* the two stale writes preceded it.                                         *)
THEOREM HeldStaysStored == Spec => []HeldReferenceIsStored
  <1>1. IInv => HeldReferenceIsStored
    BY DEF IInv
  <1> QED BY <1>1, Inductive, PTL

(* A color that is not deleted has its object, through crashes of the API and  *)
(* refused inserts, unless moderation overwrote its tombstone.                *)
THEOREM ActiveStaysStored == Spec => []ActiveIsStored
  <1>1. IInv => ActiveIsStored
    BY DEF IInv
  <1> QED BY <1>1, Inductive, PTL

(* Moderation, review and edits publish no structure without a profile of it, *)
(* unless an edit or a verdict wrote over a version it had not read.          *)
THEOREM ProfileStaysUsable == Spec => []UsableProfile
  <1>1. IInv => UsableProfile
    BY DEF IInv
  <1> QED BY <1>1, Inductive, PTL

(* No interleaving of uploads and deletions takes the owner over the quota.   *)
THEOREM QuotaIsRespected == Spec => []QuotaRespected
  <1>1. IInv => QuotaRespected
    BY DEF IInv
  <1> QED BY <1>1, Inductive, PTL

(* apply_moderation never takes an approved color back: CHECK                 *)
(* approval_matches_status refuses the row.                                  *)
THEOREM ApprovedStays == Spec => ApprovedIsNotReviewedAgain
  <1> DEFINE Kept == \A c \in Colors :
          color[c].approvedAt => color'[c].status \in {"approved", "hidden", "deleted"}
  <1>1. ASSUME IInv, [Next]_vars
        PROVE  [Kept]_vars
    <2>1. ApprovalInv /\ ApprovalInv'
      BY <1>1, Invariance DEF IInv
    <2>2. CASE Next
      <3>1. \A c \in Colors : color[c].approvedAt => color'[c].approvedAt
        BY <1>1, <2>2, StatusStep DEF Aside, StatusMove, OnlyColor
      <3> QED BY <2>1, <3>1 DEF ApprovalInv, MatchesApproval
    <2>3. CASE UNCHANGED vars
      BY <2>3
    <2> QED BY <1>1, <2>2, <2>3
  <1> QED BY <1>1, Inductive, PTL DEF Spec, ApprovedIsNotReviewedAgain
===============================================================================
