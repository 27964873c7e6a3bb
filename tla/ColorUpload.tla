------------------------------ MODULE ColorUpload ------------------------------
(***************************************************************************)
(* How one user makes a custom color: the upload dialog of the bot            *)
(* (bot/router.py), the upload of the Mini App (api/custom_colors.py), and     *)
(* what both go through: the intake of the file (custom_colors/media.py), its  *)
(* moderation (moderation.py) and analysis (ReferenceAnalysis).              *)
(*                                                                         *)
(* The dialog is a dictionary of the bot's process; messages and taps are     *)
(* handled concurrently, and a handler lets the others run at every await.     *)
(* CustomColors has the life of a color after its upload, and its quota.       *)
(***************************************************************************)
EXTENDS ReferenceAnalysis

CONSTANTS
    Messages,    \* numbers of the photos and files sent to the bot, in order
    Requests,    \* idempotency keys of the Mini App's uploads
    Files,       \* the image files the user has
    Sent,        \* Sent[m]: those that message m may be
    File,        \* File[f]: what is in f
    Replies,     \* what may come of a moderation request
    Reply,       \* Reply[r]
    Forms,       \* the forms the Mini App may post
    Finishes,    \* matte, satin, gloss
    None,        \* not chosen; no dialog
    MaxBytes, MaxSide, MaxPixels, OutputEdge,   \* MediaPolicy
    MaxColors,   \* bound on the colors
    MaxFaults    \* bound on restarts, failures and lost responses

ASSUME ConstantsAssumption ==
    /\ Messages \subseteq Nat
    /\ Messages \cap Requests = {}
    /\ OutputEdge <= MaxSide
    /\ {MaxBytes, MaxSide, MaxPixels, OutputEdge} \subseteq Nat \ {0}
    /\ {MaxColors, MaxFaults} \subseteq Nat

Uploads == Messages \cup Requests
Structures == {"solid", "multicolor"}

VARIABLES
    dialog,    \* pending_uploads of the user
    upload,    \* how far the handler of each message or request is
    colors,    \* custom_colors and their current versions, by number
    asked,     \* the file the bot last asked for, if that is what it last said
    orderly,   \* no fault, and nothing else done while an upload was handled
    faults

vars == <<dialog, upload, colors, asked, orderly, faults>>

(* CustomColorUploadState; in a form, both None say "unspecified".            *)
Choice == [structure : Structures \cup {None}, finish : Finishes \cup {None}]

Unchosen == [structure |-> None, finish |-> None]

ASSUME InputsAssumption ==
    /\ None \notin Structures \cup Finishes \cup Files \cup Choice \cup {"car", "silent"}
    /\ \A m \in Messages : Sent[m] \subseteq Files
    /\ \A form \in Forms :
          form.key \in BOOLEAN /\ form.file \in Files /\ form.chosen \in Choice

(* A decision whose areas are not within the picture is refused when it is     *)
(* parsed.                                                                   *)
ASSUME ContentsAssumption ==
    \A r \in Replies : Reply[r].kind = "decision" => Reply[r].located.material \in Seq(Regions)

Answers == {None, "car", "guided", "failed", "ready", "review", "retake",
            "silent", "refused", "accepted"}

Upload == [step : {"unsent", "downloading", "created", "judged", "done"},
           chosen : Choice, file : Files \cup {None}, color : Nat, answer : Answers]

Unsent == [step |-> "unsent", chosen |-> Unchosen, file |-> None, color |-> 0, answer |-> None]

Color == [by : Uploads, chosen : Choice, file : Files, reply : Replies \cup {None},
          status : {"pending", "approved", "rejected", "needs_review"}, profiled : BOOLEAN]

TypeOK ==
    /\ dialog \in Choice \cup {None}
    /\ upload \in [Uploads -> Upload]
    /\ colors \in Seq(Color)
    /\ asked \in {"nothing", "sample", "retake"}
    /\ orderly \in BOOLEAN
    /\ faults \in 0..MaxFaults

Init ==
    /\ dialog = None
    /\ upload = [u \in Uploads |-> Unsent]
    /\ colors = <<>>
    /\ asked = "nothing"
    /\ orderly = TRUE
    /\ faults = 0

InFlight(u) == upload[u].step \in {"downloading", "created", "judged"}

Answered(u, answer) == [upload EXCEPT ![u] = [Unsent EXCEPT !.step = "done", !.answer = answer]]

-----------------------------------------------------------------------------
(* Intake of a file.                                                         *)

(* ClamdInstreamScanner.scan: anything but an explicit OK raises.             *)
ScanPasses(file) == file.scan = "OK"

(* _detected_mimes: what the signature of the file may be declared as.        *)
DetectedMimes(file) ==
    CASE file.signature = "ftyp" -> {"image/heic", "image/heif"}
      [] file.signature \in {"image/jpeg", "image/png", "image/webp"} -> {file.signature}
      [] OTHER -> {}

(* _decode_canonical, in a process that is killed when it takes too long.     *)
Decodes(file) ==
    /\ file.decoder = "image"
    /\ file.width \in 1..MaxSide /\ file.height \in 1..MaxSide
    /\ file.width * file.height <= MaxPixels
    /\ file.frames = 1

(* normalize_reference.                                                      *)
IntakeAccepts(file) ==
    /\ file.bytes \in 1..MaxBytes
    /\ file.declared \in DetectedMimes(file)
    /\ ScanPasses(file)
    /\ Decodes(file)

(* The image that is stored: its longer side is OutputEdge at most.           *)
Canonical(file) ==
    LET longest == Max({file.width, file.height})
        Side(n) == IF longest <= OutputEdge THEN n
                   ELSE Max({1, Rounded(n * OutputEdge, longest)})
    IN  [width |-> Side(file.width), height |-> Side(file.height), scene |-> file.scene]

-----------------------------------------------------------------------------
(* Moderation and analysis.                                                  *)

(* moderate_reference and _parse_response.  A request that fails, a status    *)
(* other than 200, a body too long or of another shape: needs_review.         *)
Disposition(reply) ==
    CASE reply.kind # "decision" -> "needs_review"
      [] reply.kind = "decision" /\ (~reply.safe \/ reply.flags # {}) -> "rejected"
      [] reply.kind = "decision" /\ reply.safe /\ reply.flags = {} ->
            IF reply.wrap /\ reply.safety >= 90 /\ reply.domain >= 85
            THEN "approved" ELSE "needs_review"

NothingLocated == [confidence |-> 0, material |-> <<>>, excluded |-> <<>>]

LocatedBy(r) == IF Reply[r].kind = "decision" THEN Reply[r].located ELSE NothingLocated

(* The profiles of the reference files, for every reply and structure.        *)
ProfileOf ==
    [f \in {g \in Files : IntakeAccepts(File[g])} |->
        [r \in Replies |->
            [s \in Structures |-> Analyzed(Canonical(File[f]), LocatedBy(r), s)]]]

(* Mutant of Judged: an uncertain analysis leaves the disposition alone.      *)
MutantApprovesUncertain(color, r) ==
    LET disposition == Disposition(Reply[r])
        analysed == color.chosen.structure # None /\ disposition # "rejected"
    IN  [color EXCEPT !.reply = r, !.status = disposition,
            !.profiled = analysed /\ ProfileOf[color.file][r][color.chosen.structure].known]

(* The verdict on a color, in create after the answer of the moderation.      *)
Judged(color, r) ==
    LET disposition == Disposition(Reply[r])
        analysed == color.chosen.structure # None /\ disposition # "rejected"
        profiled == analysed /\ ProfileOf[color.file][r][color.chosen.structure].known
    IN  [color EXCEPT !.reply = r, !.profiled = profiled,
            !.status = IF analysed /\ ~profiled THEN "needs_review" ELSE disposition]

-----------------------------------------------------------------------------
(* The dialog.                                                               *)

(* The user does one thing at a time, so far.                                *)
Alone == orderly /\ \A u \in Messages : ~InFlight(u)

(* handle_custom_color_request.                                              *)
StartDialog ==
    /\ dialog' = Unchosen
    /\ asked' = "nothing"
    /\ orderly' = Alone
    /\ UNCHANGED <<upload, colors, faults>>

(* request_custom_color_prompt: the Mini App has the bot ask for the           *)
(* structure; the dictionary is another process's and stays as it is.         *)
PromptFromApp ==
    /\ asked' = "nothing"
    /\ orderly' = Alone
    /\ UNCHANGED <<dialog, upload, colors, faults>>

(* handle_custom_color_structure; the buttons of old messages still work.     *)
ChooseStructure(s) ==
    /\ dialog' = [structure |-> s, finish |-> None]
    /\ asked' = "nothing"
    /\ orderly' = Alone
    /\ UNCHANGED <<upload, colors, faults>>

(* handle_custom_color_finish.                                               *)
ChooseFinish(f) ==
    /\ dialog # None
    /\ dialog' = IF dialog.structure = None THEN dialog ELSE [dialog EXCEPT !.finish = f]
    /\ asked' = IF dialog.structure = None THEN "nothing" ELSE "sample"
    /\ orderly' = Alone
    /\ UNCHANGED <<upload, colors, faults>>

(* media_handler and handle_custom_color_message up to its first await.  A     *)
(* message for which there is no dialog is a photo of the car; one that comes  *)
(* before the choices are made, or is no file, is answered with what is wanted. *)
ReceiveMessage(m, isFile, f) ==
    /\ upload[m].step = "unsent"
    /\ \A n \in Messages : n < m => upload[n].step # "unsent"
    /\ LET complete == dialog # None /\ dialog.finish # None
       IN  /\ upload' = CASE dialog = None -> Answered(m, "car")
                          [] complete /\ isFile ->
                                [upload EXCEPT ![m] = [Unsent EXCEPT !.step = "downloading",
                                                           !.chosen = dialog, !.file = f]]
                          [] OTHER -> Answered(m, "guided")
           /\ asked' = CASE dialog = None \/ (complete /\ isFile) -> asked
                         [] complete /\ ~isFile -> "sample"
                         [] OTHER -> "nothing"
    /\ orderly' = Alone
    /\ UNCHANGED <<dialog, colors, faults>>

-----------------------------------------------------------------------------
(* The upload of the Mini App.                                               *)

(* parse_custom_color_upload, with the header the route wants before it.      *)
FormStatus(form) ==
    CASE ~form.key -> 400
      [] form.key /\ form.type # "multipart/form-data" -> 415
      [] form.key /\ form.type = "multipart/form-data" ->
            IF form.length > MaxBytes + 64 * 1024 THEN 413
            ELSE IF /\ form.fields \in {{"name", "image"},
                                        {"name", "image", "color_structure", "finish"}}
                    /\ form.files = {"image"}
                    /\ File[form.file].declared \in
                          {"image/jpeg", "image/png", "image/webp", "image/heic", "image/heif"}
                    /\ File[form.file].bytes <= MaxBytes
                    /\ "finish" \in form.fields =>
                          form.chosen.structure \in Structures /\ form.chosen.finish \in Finishes
                 THEN 202 ELSE 422

PostForm(r, form) ==
    /\ upload[r].step = "unsent"
    /\ upload' = IF FormStatus(form) # 202 THEN Answered(r, "refused")
                 ELSE [upload EXCEPT ![r] =
                         [Unsent EXCEPT !.step = "downloading", !.file = form.file,
                             !.chosen = IF "finish" \in form.fields THEN form.chosen
                                        ELSE Unchosen]]
    /\ UNCHANGED <<dialog, colors, asked, orderly, faults>>

-----------------------------------------------------------------------------
(* CustomColorService.create, for both.                                      *)

(* Mutant of ChosenFor: the dialog is read again after the download.          *)
MutantReadsDialogLate(u) == IF u \in Messages /\ dialog # None THEN dialog ELSE upload[u].chosen

(* What the color of an upload is said to be.                                *)
ChosenFor(u) == upload[u].chosen

(* Mutant of RejectSample: a failure ends the dialog too.                    *)
MutantFailureEndsDialog(u) ==
    /\ upload[u].step = "downloading"
    /\ upload' = Answered(u, IF u \in Messages THEN "failed" ELSE "refused")
    /\ asked' = IF u \in Messages THEN "sample" ELSE asked
    /\ dialog' = IF u \in Messages THEN None ELSE dialog
    /\ UNCHANGED <<colors, orderly, faults>>

(* The download fails, the intake refuses the file, or the quota is used up:   *)
(* the bot asks for the file again and keeps the dialog.                      *)
RejectSample(u) ==
    /\ upload[u].step = "downloading"
    /\ upload' = Answered(u, IF u \in Messages THEN "failed" ELSE "refused")
    /\ asked' = IF u \in Messages THEN "sample" ELSE asked
    /\ UNCHANGED <<dialog, colors, orderly, faults>>

NewColor(u) == [by |-> u, chosen |-> ChosenFor(u), file |-> upload[u].file, reply |-> None,
                status |-> "pending", profiled |-> FALSE]

(* Mutant of CreateColor: the dialog ends once the color is stored.           *)
MutantEndsDialogEarly(u) ==
    /\ upload[u].step = "downloading"
    /\ IntakeAccepts(File[upload[u].file])
    /\ Len(colors) < MaxColors
    /\ colors' = Append(colors, NewColor(u))
    /\ upload' = [upload EXCEPT ![u] = [@ EXCEPT !.step = "created", !.color = Len(colors')]]
    /\ dialog' = IF u \in Messages THEN None ELSE dialog
    /\ UNCHANGED <<asked, orderly, faults>>

(* The color is inserted, pending, and the transaction committed.            *)
CreateColor(u) ==
    /\ upload[u].step = "downloading"
    /\ IntakeAccepts(File[upload[u].file])
    /\ Len(colors) < MaxColors
    /\ colors' = Append(colors, NewColor(u))
    /\ upload' = [upload EXCEPT ![u] = [@ EXCEPT !.step = "created", !.color = Len(colors')]]
    /\ UNCHANGED <<dialog, asked, orderly, faults>>

(* The moderation has answered and the verdict is committed.                 *)
Judge(u, r) ==
    /\ upload[u].step = "created"
    /\ colors' = [colors EXCEPT ![upload[u].color] = Judged(@, r)]
    /\ upload' = [upload EXCEPT ![u] = [@ EXCEPT !.step = "judged"]]
    /\ UNCHANGED <<dialog, asked, orderly, faults>>

(* The commit of the verdict fails, with an error no handler catches.         *)
JudgeFails(u) ==
    /\ upload[u].step = "created"
    /\ faults < MaxFaults
    /\ faults' = faults + 1
    /\ orderly' = FALSE
    /\ upload' = Answered(u, "silent")
    /\ UNCHANGED <<dialog, colors, asked>>

(* What the bot says of a color.                                             *)
Told(c) ==
    CASE c.status = "approved" -> "ready"
      [] c.status = "needs_review" /\ c.chosen.structure # None /\ ~c.profiled -> "retake"
      [] OTHER -> "review"

(* The last steps of handle_custom_color_message, after its pause: the dialog *)
(* is deleted, whichever dialog it is, and the verdict told.  If there is       *)
(* none, KeyError: nothing is told.                                          *)
EndDialog(m) ==
    /\ upload[m].step = "judged"
    /\ dialog' = None
    /\ LET verdict == Told(colors[upload[m].color])
       IN  IF dialog = None
           THEN upload' = Answered(m, "silent") /\ UNCHANGED asked
           ELSE /\ upload' = Answered(m, verdict)
                /\ asked' = IF verdict = "retake" THEN "retake" ELSE "nothing"
    /\ UNCHANGED <<colors, orderly, faults>>

(* The response reaches the Mini App.                                        *)
Respond(r) ==
    /\ upload[r].step = "judged"
    /\ upload' = Answered(r, "accepted")
    /\ UNCHANGED <<dialog, colors, asked, orderly, faults>>

(* It is lost, and the Mini App sends the request again with its key.         *)
LoseResponse(r) ==
    /\ upload[r].step = "judged"
    /\ faults < MaxFaults
    /\ faults' = faults + 1
    /\ upload' = [upload EXCEPT ![r] = Unsent]
    /\ UNCHANGED <<dialog, colors, asked, orderly>>

(* The bot restarts: its dialogs are gone, and so are its handlers; Telegram  *)
(* delivers a message again if it was not yet acknowledged.                   *)
Restart ==
    /\ faults < MaxFaults
    /\ faults' = faults + 1
    /\ dialog' = None
    /\ orderly' = FALSE
    /\ \E again \in SUBSET {m \in Messages : InFlight(m)} :
          upload' = [u \in Uploads |->
              IF u \in again THEN Unsent
              ELSE IF u \in Messages /\ InFlight(u)
                   THEN [Unsent EXCEPT !.step = "done", !.answer = "silent"]
              ELSE upload[u]]
    /\ UNCHANGED <<colors, asked>>

-----------------------------------------------------------------------------

Next ==
    \/ StartDialog \/ PromptFromApp \/ Restart
    \/ \E s \in Structures : ChooseStructure(s)
    \/ \E f \in Finishes : ChooseFinish(f)
    \/ \E m \in Messages : \/ \E isFile \in BOOLEAN, f \in Sent[m] : ReceiveMessage(m, isFile, f)
                           \/ EndDialog(m)
    \/ \E r \in Requests : \/ \E form \in Forms : PostForm(r, form)
                           \/ Respond(r) \/ LoseResponse(r)
    \/ \E u \in Uploads : \/ RejectSample(u) \/ CreateColor(u) \/ JudgeFails(u)
                          \/ \E r \in Replies : Judge(u, r)

Spec == Init /\ [][Next]_vars

-----------------------------------------------------------------------------
(***************************************************************************)
(* Properties.                                                             *)
(***************************************************************************)

(* Publication fails closed: a color others may use passed the malware scan,  *)
(* was found safe and a wrap with confidence, and, if it has a structure, has *)
(* the profile the worker needs to use it.                                   *)
ApprovedIsSafe ==
    \A i \in DOMAIN colors : LET c == colors[i] IN c.status = "approved" =>
        /\ File[c.file].scan = "OK"
        /\ LET reply == Reply[c.reply]
           IN  reply.kind = "decision" /\ reply.safe /\ reply.flags = {} /\ reply.wrap
               /\ reply.safety >= 90 /\ reply.domain >= 85
        /\ c.chosen.structure # None => c.profiled

(* Structure and finish of a color are those of the dialog its file was sent  *)
(* in, and both or neither, whatever is tapped while the file is handled.     *)
SurfaceAsChosen ==
    \A u \in Uploads : upload[u].color # 0 =>
        LET chosen == colors[upload[u].color].chosen
        IN  chosen = upload[u].chosen /\ (chosen.structure = None) = (chosen.finish = None)

Usable ==
    [f \in {g \in Files : IntakeAccepts(File[g])} |->
        [r \in Replies |->
            [s \in Structures |->
                LET picture == Canonical(File[f])
                    profile == ProfileOf[f][r][s]
                IN  profile.known =>
                        /\ Readable(profile)
                        /\ \A i \in DOMAIN profile.palette :
                              Samples(picture, profile.palette[i], Tiles(picture, LocatedBy(r), s))]]]

(* A stored profile is read back, by the worker and by an edit; and the sample  *)
(* box of each of its colors, which the worker cuts out of the stored image for *)
(* a solid color, is a part of that image that passed the tests of the          *)
(* analysis, though it was measured in a smaller copy and rounded twice.       *)
ProfileIsUsable ==
    \A i \in DOMAIN colors : LET c == colors[i] IN
        c.profiled => Usable[c.file][c.reply][c.chosen.structure]

(* The user always hears what became of a color: a handler is silent only     *)
(* after a fault, or when something else was sent or tapped meanwhile.        *)
VerdictIsTold ==
    \A m \in Messages : upload[m].answer = "silent" => ~orderly

(* A file sent because the bot asked for a sample is not taken for a photo of  *)
(* the car: a failed sample, in particular, may be sent again.  (When it asks  *)
(* for a retake it is: by then the dialog has ended.)                         *)
SampleIsNotTheCar ==
    [][\A m \in Messages :
          upload[m].step = "unsent" /\ upload'[m].answer = "car" /\ asked = "sample"
              => ~orderly]_vars

===============================================================================
