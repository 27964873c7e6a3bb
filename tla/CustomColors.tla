----------------------------- MODULE CustomColors -----------------------------
(***************************************************************************)
(* Custom wrap colors: their upload and moderation, their review by         *)
(* administrators, the references that accepted jobs hold on them, and the   *)
(* private object behind each (custom_colors/service.py, repository.py,      *)
(* api/custom_colors.py, jobs/service.py and _finish_job of the worker).     *)
(*                                                                         *)
(* One commit, or one effect on the object store, is one action.  Between    *)
(* its actions a request holds what it read: SQLAlchemy's identity map       *)
(* returns the instance a session already loaded, so a row locked FOR UPDATE *)
(* the second time still shows the values of the first read, and an          *)
(* assignment that equals the loaded value writes nothing.  The history      *)
(* variable stale records which part of a color was written from values      *)
(* another transaction had replaced in between; the properties of the        *)
(* passing runs say what holds of a color without such a write, so that a    *)
(* stale write is shown to be the only way to lose them.                     *)
(*                                                                         *)
(* A color has one version: nothing in the code writes current_version       *)
(* after create.  Names, finishes and the audit trail are left out.          *)
(***************************************************************************)
EXTENDS Integers, FiniteSets

CONSTANTS
    Colors,      \* the uploads, all of one owner
    Jobs,        \* submissions that select a custom color
    Editors,     \* administrator "edit" requests
    NoColor,     \* a job or an editor that has read no color
    Quota,       \* custom_color_quota of the owner
    MaxFaults    \* bound on API process crashes and failed inserts together

ASSUME ConstantsAssumption ==
    /\ NoColor \notin Colors
    /\ Quota \in Nat \ {0}
    /\ MaxFaults \in Nat

VARIABLES
    color,      \* custom_colors with its custom_color_versions row
    stored,     \* colors whose object is in the private store
    creation,   \* CustomColorService.create, per upload
    removal,    \* deletes between their commit and storage.delete
    editor,     \* CustomColorService.edit_details, per request
    job,        \* acceptance and end of each submission
    stale,      \* history: the parts of a color written from replaced values
    faults

vars == <<color, stored, creation, removal, editor, job, stale, faults>>

Structures == {"unspecified", "solid", "multicolor"}
Profiles == {"none", "solid", "multicolor"}   \* the structure the profile was computed for
Verdicts == {"approved", "rejected", "needs_review"}

ColorRow == [status     : Verdicts \cup {"absent", "pending", "hidden", "deleted"},
             approvedAt : BOOLEAN,     \* approved_at IS NOT NULL
             structure  : Structures,
             profile    : Profiles,
             count      : Nat]         \* retain_count

Creation == [step      : {"none", "put", "created", "judged", "ended"},
             structure : Structures,
             verdict   : Verdicts,
             profile   : Profiles,
             renames   : BOOLEAN]

Editor == [color     : Colors \cup {NoColor},
           target    : Structures,
           structure : Structures,
           profile   : Profiles]

Job == [step  : {"none", "resolved", "held", "ended"},
        color : Colors \cup {NoColor},
        count : Nat]

NotUploaded == [step |-> "none", structure |-> "unspecified", verdict |-> "needs_review",
                profile |-> "none", renames |-> FALSE]

Returned == [NotUploaded EXCEPT !.step = "ended"]

NoEdit == [color |-> NoColor, target |-> "unspecified",
           structure |-> "unspecified", profile |-> "none"]

NoSubmission == [step |-> "none", color |-> NoColor, count |-> 0]

TypeOK ==
    /\ color \in [Colors -> ColorRow]
    /\ stored \subseteq Colors
    /\ creation \in [Colors -> Creation]
    /\ removal \subseteq Colors
    /\ editor \in [Editors -> Editor]
    /\ job \in [Jobs -> Job]
    /\ stale \in [Colors -> SUBSET {"status", "count", "profile"}]
    /\ faults \in 0..MaxFaults

Init ==
    /\ color = [c \in Colors |-> [status |-> "absent", approvedAt |-> FALSE,
                  structure |-> "unspecified", profile |-> "none", count |-> 0]]
    /\ stored = {}
    /\ creation = [c \in Colors |-> NotUploaded]
    /\ removal = {}
    /\ editor = [e \in Editors |-> NoEdit]
    /\ job = [j \in Jobs |-> NoSubmission]
    /\ stale = [c \in Colors |-> {}]
    /\ faults = 0

-----------------------------------------------------------------------------
Exists(c) == color[c].status # "absent"
Active(c) == color[c].status \notin {"absent", "deleted"}
Holders(c) == {j \in Jobs : job[j].step = "held" /\ job[j].color = c}

SetColor(c, row) == color' = [color EXCEPT ![c] = row]

Outdated(c, part, replaced) ==
    stale' = IF replaced THEN [stale EXCEPT ![c] = @ \cup {part}] ELSE stale

(* Mutant of Transitions: a tombstone can be approved again.                 *)
MutantTransitions(status) ==
    CASE status = "pending"      -> {"needs_review", "rejected", "approved", "deleted"}
      [] status = "needs_review" -> {"rejected", "approved", "deleted"}
      [] status = "rejected"     -> {"needs_review", "approved", "deleted"}
      [] status = "approved"     -> {"hidden", "deleted"}
      [] status = "hidden"       -> {"approved", "deleted"}
      [] status = "deleted"      -> {"approved"}
      [] OTHER                   -> {}

(* _TRANSITIONS                                                              *)
Transitions(status) ==
    CASE status = "pending"      -> {"needs_review", "rejected", "approved", "deleted"}
      [] status = "needs_review" -> {"rejected", "approved", "deleted"}
      [] status = "rejected"     -> {"needs_review", "approved", "deleted"}
      [] status = "approved"     -> {"hidden", "deleted"}
      [] status = "hidden"       -> {"approved", "deleted"}
      [] OTHER                   -> {}

(* Mutant of MatchesApproval: the database accepts any combination.          *)
MutantMatchesApproval(row) == row.approvedAt \in BOOLEAN

(* CHECK approval_matches_status of custom_colors.                           *)
MatchesApproval(row) == row.approvedAt => row.status \in {"approved", "hidden", "deleted"}

-----------------------------------------------------------------------------
(* CustomColorService.create: the canonical object is stored first.          *)
PutObject(c) ==
    /\ creation[c].step = "none"
    /\ \E s \in Structures :
          creation' = [creation EXCEPT ![c] = [@ EXCEPT !.step = "put", !.structure = s]]
    /\ stored' = stored \cup {c}
    /\ UNCHANGED <<color, removal, editor, job, stale, faults>>

(* Mutant of HasQuota: off by one.                                           *)
MutantHasQuota == Cardinality({c \in Colors : Active(c)}) <= Quota

(* The count and the insert run under the owner's advisory lock.             *)
HasQuota == Cardinality({c \in Colors : Active(c)}) < Quota

(* repository.create and its commit.                                         *)
CreateColor(c) ==
    /\ creation[c].step = "put"
    /\ HasQuota
    /\ SetColor(c, [color[c] EXCEPT !.status = "pending", !.structure = creation[c].structure])
    /\ creation' = [creation EXCEPT ![c] = [@ EXCEPT !.step = "created"]]
    /\ UNCHANGED <<stored, removal, editor, job, stale, faults>>

(* The insert fails, for the quota or a database error: the object goes.     *)
CreateRefused(c) ==
    /\ creation[c].step = "put"
    /\ \/ ~HasQuota /\ UNCHANGED faults
       \/ faults < MaxFaults /\ faults' = faults + 1
    /\ stored' = stored \ {c}
    /\ creation' = [creation EXCEPT ![c] = Returned]
    /\ UNCHANGED <<color, removal, editor, job, stale>>

(* Moderation and analysis of the uploaded bytes, between two transactions.  *)
(* A provider failure and an uncertain analysis both become needs_review; a   *)
(* missing name makes the request rename the color as well.                   *)
Judge(c) ==
    /\ creation[c].step = "created"
    /\ \E verdict \in Verdicts, analysed, renames \in BOOLEAN :
          /\ verdict = "rejected" => ~analysed /\ ~renames
          /\ creation[c].structure = "unspecified" => ~analysed
          /\ (verdict = "approved" /\ creation[c].structure # "unspecified") => analysed
          /\ creation' = [creation EXCEPT ![c] =
                [@ EXCEPT !.step = "judged", !.verdict = verdict, !.renames = renames,
                          !.profile = IF analysed THEN creation[c].structure ELSE "none"]]
    /\ UNCHANGED <<color, stored, removal, editor, job, stale, faults>>

(* The row after apply_analysis and apply_moderation.  create still holds    *)
(* the color it inserted, whose status reads "pending" whatever it is now.   *)
Moderated(c) ==
    LET own == creation[c] IN
    [color[c] EXCEPT !.status = own.verdict,
                     !.approvedAt = @ \/ own.verdict = "approved",
                     !.profile = IF own.profile = "none" THEN @ ELSE own.profile]

(* rename finds no deleted color; apply_analysis rereads the version and     *)
(* raises when it has a profile; the commit must satisfy the constraint.     *)
CanApplyVerdict(c) ==
    /\ creation[c].renames => color[c].status # "deleted"
    /\ creation[c].profile # "none" => color[c].profile = "none"
    /\ MatchesApproval(Moderated(c))

ApplyVerdict(c) ==
    /\ creation[c].step = "judged"
    /\ CanApplyVerdict(c)
    /\ SetColor(c, Moderated(c))
    /\ stale' = [stale EXCEPT ![c] =
          @ \cup (IF color[c].status # "pending" THEN {"status"} ELSE {})
            \cup (IF /\ creation[c].profile # "none"
                     /\ color[c].structure # creation[c].structure
                  THEN {"profile"} ELSE {})]
    /\ creation' = [creation EXCEPT ![c] = Returned]
    /\ UNCHANGED <<stored, removal, editor, job, faults>>

VerdictRolledBack(c) ==
    /\ creation[c].step = "judged"
    /\ ~CanApplyVerdict(c)
    /\ creation' = [creation EXCEPT ![c] = Returned]
    /\ UNCHANGED <<color, stored, removal, editor, job, stale, faults>>

-----------------------------------------------------------------------------
(* Mutant of MayApprove: the profile is not required.                        *)
MutantMayApprove(c) == color[c].structure \in Structures

MayApprove(c) == color[c].structure # "unspecified" => color[c].profile # "none"

(* admin_action: approve and restore, reject, hide.  restore is an approval   *)
(* whose color must be hidden, which approve allows too.                      *)
Review(c) ==
    /\ Exists(c)
    /\ \E target \in {"approved", "rejected", "hidden"} :
          /\ target \in Transitions(color[c].status)
          /\ target = "approved" => MayApprove(c)
          /\ SetColor(c, [color[c] EXCEPT !.status = target,
                                          !.approvedAt = @ \/ target = "approved"])
          /\ MatchesApproval(color'[c])
    /\ UNCHANGED <<stored, creation, removal, editor, job, stale, faults>>

(* cleanup_key_for_version                                                   *)
Unretained(c) == color[c].count = 0

(* service.delete, by the owner or an administrator: the tombstone commits,   *)
(* and the request goes on to remove the object if no job retained it.        *)
Delete(c) ==
    /\ Exists(c)
    /\ "deleted" \in Transitions(color[c].status)
    /\ SetColor(c, [color[c] EXCEPT !.status = "deleted"])
    /\ removal' = IF Unretained(c) THEN removal \cup {c} ELSE removal
    /\ UNCHANGED <<stored, creation, editor, job, stale, faults>>

RemoveObject(c) ==
    /\ c \in removal
    /\ stored' = stored \ {c}
    /\ removal' = removal \ {c}
    /\ UNCHANGED <<color, creation, editor, job, stale, faults>>

(* The profile an edit computes from the version it read: none without a     *)
(* structure, the existing one under an unchanged structure, else a new one.  *)
EditedProfile(target, structure, profile) ==
    IF target = "unspecified" THEN "none"
    ELSE IF target = structure /\ profile # "none" THEN profile
    ELSE target

(* service.edit_details up to the lock: current_version reads the version,    *)
(* and a new analysis reads the object.                                       *)
StartEdit(e) ==
    /\ editor[e].color = NoColor
    /\ \E c \in Colors, target \in Structures :
          /\ Active(c)
          /\ c \in stored \/ EditedProfile(target, color[c].structure, color[c].profile)
                             \in {"none", color[c].profile}
          /\ editor' = [editor EXCEPT ![e] =
                [color |-> c, target |-> target,
                 structure |-> color[c].structure, profile |-> color[c].profile]]
    /\ UNCHANGED <<color, stored, creation, removal, job, stale, faults>>

(* repository.edit_details and its commit.  Only the columns whose new value  *)
(* differs from the loaded one are written; a changed finish rewrites the     *)
(* profile although its structure stays.                                      *)
CommitEdit(e) ==
    LET c == editor[e].color
        target == editor[e].target
        profile == EditedProfile(target, editor[e].structure, editor[e].profile)
    IN
    /\ c # NoColor
    /\ Active(c)
    /\ \E refinished \in BOOLEAN :
          /\ refinished => target # "unspecified"
          /\ SetColor(c, [color[c] EXCEPT
                !.structure = IF target = editor[e].structure THEN @ ELSE target,
                !.profile = IF profile = editor[e].profile /\ ~refinished THEN @ ELSE profile])
    /\ Outdated(c, "profile", \/ color[c].structure # editor[e].structure
                              \/ color[c].profile # editor[e].profile)
    /\ editor' = [editor EXCEPT ![e] = NoEdit]
    /\ UNCHANGED <<stored, creation, removal, job, faults>>

(* The analysis fails, the object is missing or the color is gone.           *)
EditFails(e) ==
    /\ editor[e].color # NoColor
    /\ editor' = [editor EXCEPT ![e] = NoEdit]
    /\ UNCHANGED <<color, stored, creation, removal, job, stale, faults>>

-----------------------------------------------------------------------------
(* _resolve_custom_intent: resolve_approved_version loads the version         *)
(* without a lock.                                                            *)
Resolve(j) ==
    /\ job[j].step = "none"
    /\ \E c \in Colors :
          /\ color[c].status = "approved"
          /\ job' = [job EXCEPT ![j] =
                [step |-> "resolved", color |-> c, count |-> color[c].count]]
    /\ UNCHANGED <<color, stored, creation, removal, editor, stale, faults>>

(* Mutant of Retain: the color is not checked again under its lock.          *)
MutantRetain(j) ==
    LET c == job[j].color IN
    /\ job[j].step = "resolved"
    /\ SetColor(c, [color[c] EXCEPT !.count = job[j].count + 1])
    /\ Outdated(c, "count", color[c].count # job[j].count)
    /\ job' = [job EXCEPT ![j] = [@ EXCEPT !.step = "held", !.count = 0]]
    /\ UNCHANGED <<stored, creation, removal, editor, faults>>

(* retain, and the commit of the accepted job: the color row is fresh and     *)
(* locked, the version is the instance loaded by Resolve.                     *)
Retain(j) ==
    LET c == job[j].color IN
    /\ job[j].step = "resolved"
    /\ color[c].status = "approved"
    /\ SetColor(c, [color[c] EXCEPT !.count = job[j].count + 1])
    /\ Outdated(c, "count", color[c].count # job[j].count)
    /\ job' = [job EXCEPT ![j] = [@ EXCEPT !.step = "held", !.count = 0]]
    /\ UNCHANGED <<stored, creation, removal, editor, faults>>

(* retain refuses, or a later step of the acceptance does, and it rolls back. *)
AcceptanceRolledBack(j) ==
    /\ job[j].step = "resolved"
    /\ job' = [job EXCEPT ![j] = NoSubmission]
    /\ UNCHANGED <<color, stored, creation, removal, editor, stale, faults>>

(* Mutant of Finish: the reference is kept.                                  *)
MutantFinishKeeps(j) ==
    /\ job[j].step = "held"
    /\ color[job[j].color].count > 0
    /\ job' = [job EXCEPT ![j] = [NoSubmission EXCEPT !.step = "ended"]]
    /\ UNCHANGED <<color, stored, creation, removal, editor, stale, faults>>

(* _finish_job releases the reference when the job ends, whatever its end.    *)
(* release rereads the count; at zero it raises, and the job cannot end.      *)
Finish(j) ==
    LET c == job[j].color IN
    /\ job[j].step = "held"
    /\ color[c].count > 0
    /\ SetColor(c, [color[c] EXCEPT !.count = @ - 1])
    /\ job' = [job EXCEPT ![j] = [NoSubmission EXCEPT !.step = "ended"]]
    /\ UNCHANGED <<stored, creation, removal, editor, stale, faults>>

(* The API process dies: every request in flight is gone.                    *)
Crash ==
    /\ faults < MaxFaults
    /\ faults' = faults + 1
    /\ creation' = [c \in Colors |-> IF creation[c].step = "none" THEN creation[c]
                                     ELSE Returned]
    /\ removal' = {}
    /\ editor' = [e \in Editors |-> NoEdit]
    /\ job' = [j \in Jobs |-> IF job[j].step = "resolved" THEN NoSubmission ELSE job[j]]
    /\ UNCHANGED <<color, stored, stale>>

Next ==
    \/ \E c \in Colors :
          \/ PutObject(c) \/ CreateColor(c) \/ CreateRefused(c)
          \/ Judge(c) \/ ApplyVerdict(c) \/ VerdictRolledBack(c)
          \/ Review(c) \/ Delete(c) \/ RemoveObject(c)
    \/ \E e \in Editors : StartEdit(e) \/ CommitEdit(e) \/ EditFails(e)
    \/ \E j \in Jobs : Resolve(j) \/ Retain(j) \/ AcceptanceRolledBack(j) \/ Finish(j)
    \/ Crash

Spec == Init /\ [][Next]_vars

-----------------------------------------------------------------------------
(* Unless an acceptance wrote a count it had read before another transaction  *)
(* changed it, retain_count is the number of unfinished jobs on the color.    *)
ReferencesCounted ==
    \A c \in Colors : "count" \notin stale[c] => color[c].count = Cardinality(Holders(c))

(* The object of a reference is there until its last job has ended, in every  *)
(* order of acceptance, deletion, removal and crash: delete decides on the     *)
(* count under the color's lock, retain takes a reference under the same one.  *)
HeldReferenceIsStored ==
    \A c \in Colors :
        (stale[c] \cap {"status", "count"} = {} /\ Holders(c) # {}) => c \in stored

(* A color that is not deleted has its object and no removal is on its way,   *)
(* unless moderation overwrote a tombstone.                                    *)
ActiveIsStored ==
    \A c \in Colors :
        ("status" \notin stale[c] /\ Active(c)) => (c \in stored /\ c \notin removal)

(* A profile describes the structure of its version, and a structured color   *)
(* is published only with one, through moderation, review and edits alike.    *)
UsableProfile ==
    \A c \in Colors : "profile" \notin stale[c] =>
        /\ color[c].profile \in {"none", color[c].structure}
        /\ (color[c].status \in {"approved", "hidden"} /\ color[c].structure # "unspecified")
              => color[c].profile # "none"

(* The owner never has more live colors than the quota, however uploads,      *)
(* deletions and failures interleave, unless a tombstone was overwritten.     *)
QuotaRespected ==
    (\A c \in Colors : "status" \notin stale[c])
        => Cardinality({c \in Colors : Active(c)}) <= Quota

(* Once approved, a color never goes back into review or to rejected: a late   *)
(* moderation verdict meets the constraint and is rolled back.                 *)
ApprovedIsNotReviewedAgain ==
    [][\A c \in Colors :
          color[c].approvedAt => color'[c].status \in {"approved", "hidden", "deleted"}]_vars

(* A tombstone is final: _TRANSITIONS leads nowhere from DELETED.             *)
DeletedIsFinal ==
    [][\A c \in Colors : color[c].status = "deleted" => color'[c].status = "deleted"]_vars

(* delete removes only the object of an unretained color: one that an         *)
(* unfinished job still holds is in the store (status overwrites set aside).   *)
OnlyUnretainedIsRemoved ==
    \A c \in Colors : ("status" \notin stale[c] /\ Holders(c) # {}) => c \in stored

===============================================================================
