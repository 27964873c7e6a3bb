--------------------------- MODULE ColorUploadProofs ---------------------------
(***************************************************************************)
(* Proofs about ColorUpload, for any messages, forms, files, replies and      *)
(* bounds: what is published is safe, the user hears the verdict, and a        *)
(* profile that is stored can be used (ReferenceAnalysisProofs).              *)
(***************************************************************************)
EXTENDS ColorUpload, ReferenceAnalysisProofs

(* A finish is chosen after a structure.                                     *)
DialogInv == (dialog # None /\ dialog.finish # None) => dialog.structure # None

(* An upload is of both structure and finish or of neither, and has a color   *)
(* from its creation until it is answered.                                   *)
UploadInv ==
    \A u \in Uploads :
        /\ upload[u].chosen.structure = None <=> upload[u].chosen.finish = None
        /\ upload[u].step = "unsent" => upload[u].answer = None
        /\ upload[u].step = "downloading" => upload[u].file \in Files
        /\ upload[u].color # 0 <=> upload[u].step \in {"created", "judged"}
        /\ upload[u].color # 0 => upload[u].color \in DOMAIN colors

(* A color is of a file that passed the intake, and a profile of an answer and *)
(* a structure.                                                              *)
ColorInv ==
    \A i \in DOMAIN colors :
        /\ IntakeAccepts(File[colors[i].file])
        /\ colors[i].profiled =>
              colors[i].reply \in Replies /\ colors[i].chosen.structure \in Structures

(* While nothing disturbs an upload its dialog is open, as it is while the     *)
(* bot waits for a sample.                                                   *)
OrderlyInv ==
    orderly =>
        /\ \A m, n \in Messages : InFlight(m) /\ InFlight(n) => m = n
        /\ \A m \in Messages : InFlight(m) => dialog # None
        /\ asked = "sample" => dialog # None

IInv ==
    /\ TypeOK
    /\ DialogInv
    /\ UploadInv
    /\ ColorInv
    /\ OrderlyInv
    /\ ApprovedIsSafe
    /\ SurfaceAsChosen
    /\ VerdictIsTold

-----------------------------------------------------------------------------
(* The rows.                                                                 *)

Done(answer) == [Unsent EXCEPT !.step = "done", !.answer = answer]

LEMMA UnsentIs ==
    /\ Unchosen \in Choice /\ Unchosen.structure = None /\ Unchosen.finish = None
    /\ Unsent \in Upload /\ Unsent.step = "unsent" /\ Unsent.color = 0
    /\ Unsent.chosen = Unchosen /\ Unsent.answer = None
  <1>1. Unchosen \in Choice /\ Unchosen.structure = None /\ Unchosen.finish = None
    BY DEF Unchosen, Choice
  <1> QED BY <1>1 DEF Unsent, Upload, Answers

LEMMA DoneIs ==
    ASSUME NEW answer \in Answers
    PROVE  /\ Done(answer) \in Upload /\ Done(answer).step = "done" /\ Done(answer).color = 0
           /\ Done(answer).chosen = Unchosen /\ Done(answer).answer = answer
  BY UnsentIs DEF Done, Upload

Sending(chosen, file) ==
    [Unsent EXCEPT !.step = "downloading", !.chosen = chosen, !.file = file]

LEMMA SendingIs ==
    ASSUME NEW chosen \in Choice, NEW file \in Files
    PROVE  /\ Sending(chosen, file) \in Upload /\ Sending(chosen, file).step = "downloading"
           /\ Sending(chosen, file).color = 0 /\ Sending(chosen, file).chosen = chosen
           /\ Sending(chosen, file).file = file /\ Sending(chosen, file).answer = None
  BY UnsentIs DEF Sending, Upload

LEMMA InitInv == Init => IInv
  <1> SUFFICES ASSUME Init PROVE IInv
    OBVIOUS
  <1>1. TypeOK
    BY UnsentIs, ConstantsAssumption DEF Init, TypeOK, ConstantsAssumption
  <1>2. \A u \in Uploads : upload[u] = Unsent
    BY DEF Init
  <1>3. DialogInv /\ ColorInv /\ ApprovedIsSafe
    BY DEF Init, DialogInv, ColorInv, ApprovedIsSafe
  <1>4. UploadInv /\ SurfaceAsChosen
    BY <1>2, UnsentIs DEF UploadInv, SurfaceAsChosen
  <1>5. \A m \in Messages : ~InFlight(m) /\ upload[m].answer # "silent"
    BY <1>2, UnsentIs, InputsAssumption DEF InFlight, Uploads, InputsAssumption
  <1>6. OrderlyInv /\ VerdictIsTold
    BY <1>5 DEF Init, OrderlyInv, VerdictIsTold
  <1> QED BY <1>1, <1>3, <1>4, <1>6 DEF IInv

-----------------------------------------------------------------------------
(* What may change when one upload moves on and nothing is published.        *)
Only(u) == \A v \in Uploads : v # u => upload'[v] = upload[v]

LEMMA UploadMoves ==
    ASSUME IInv, NEW u \in Uploads, NEW row \in Upload,
           upload' = [upload EXCEPT ![u] = row],
           row.color = 0, row.step \notin {"created", "judged"},
           row.step = "unsent" => row.answer = None,
           row.step = "downloading" => row.file \in Files,
           row.chosen.structure = None <=> row.chosen.finish = None,
           colors' = colors
    PROVE  /\ upload' \in [Uploads -> Upload] /\ upload'[u] = row /\ Only(u)
           /\ UploadInv' /\ ColorInv' /\ ApprovedIsSafe' /\ SurfaceAsChosen'
  <1>t. TypeOK /\ UploadInv /\ ColorInv /\ ApprovedIsSafe /\ SurfaceAsChosen
    BY DEF IInv
  <1>1. upload' \in [Uploads -> Upload] /\ upload'[u] = row /\ Only(u)
    BY <1>t DEF TypeOK, Only
  <1>2. UploadInv'
    BY <1>t, <1>1 DEF UploadInv, Only
  <1>3. ColorInv' /\ ApprovedIsSafe'
    BY <1>t DEF ColorInv, ApprovedIsSafe
  <1>4. SurfaceAsChosen'
    BY <1>t, <1>1 DEF SurfaceAsChosen, Only
  <1> QED BY <1>1, <1>2, <1>3, <1>4

(* A choice in the dialog, while no upload of the user is handled if the user  *)
(* is still orderly.                                                         *)
LEMMA DialogStep ==
    ASSUME IInv,
           \/ StartDialog \/ PromptFromApp \/ (\E s \in Structures : ChooseStructure(s))
           \/ (\E f \in Finishes : ChooseFinish(f))
    PROVE  IInv'
  <1>t. TypeOK /\ DialogInv /\ UploadInv /\ ColorInv /\ OrderlyInv /\ ApprovedIsSafe
        /\ SurfaceAsChosen /\ VerdictIsTold
    BY DEF IInv
  <1>0. None \notin Structures /\ None \notin Finishes /\ None \notin Choice
    BY InputsAssumption DEF InputsAssumption
  <1>1. /\ UNCHANGED <<upload, colors, faults>> /\ orderly' = Alone
    BY DEF StartDialog, PromptFromApp, ChooseStructure, ChooseFinish
  <1>2. /\ dialog' \in Choice \cup {None} /\ DialogInv'
        /\ asked' \in {"nothing", "sample"}
        /\ asked' = "sample" => dialog' # None
    <2>1. CASE StartDialog
      BY <2>1, UnsentIs DEF StartDialog, DialogInv
    <2>2. CASE PromptFromApp
      BY <1>t, <2>2 DEF PromptFromApp, DialogInv, TypeOK
    <2>3. CASE \E s \in Structures : ChooseStructure(s)
      <3>1. PICK s \in Structures : dialog' = [structure |-> s, finish |-> None]
                                    /\ asked' = "nothing"
        BY <2>3 DEF ChooseStructure
      <3>2. /\ [structure |-> s, finish |-> None] \in Choice
            /\ [structure |-> s, finish |-> None].finish = None
        BY DEF Choice
      <3> QED BY <3>1, <3>2 DEF DialogInv
    <2>4. CASE \E f \in Finishes : ChooseFinish(f)
      <3>1. PICK f \in Finishes : ChooseFinish(f)
        BY <2>4
      <3>2. dialog \in Choice
        BY <1>t, <3>1 DEF ChooseFinish, TypeOK
      <3>3. /\ [dialog EXCEPT !.finish = f] \in Choice
            /\ [dialog EXCEPT !.finish = f].structure = dialog.structure
        BY <3>2 DEF Choice
      <3>4. /\ dialog' = IF dialog.structure = None THEN dialog ELSE [dialog EXCEPT !.finish = f]
            /\ asked' = IF dialog.structure = None THEN "nothing" ELSE "sample"
        BY <3>1 DEF ChooseFinish
      <3> QED BY <1>0, <1>t, <3>2, <3>3, <3>4 DEF DialogInv
    <2> QED BY <2>1, <2>2, <2>3, <2>4
  <1>3. TypeOK'
    BY <1>t, <1>1, <1>2 DEF TypeOK, Alone
  <1>4. UploadInv' /\ ColorInv' /\ ApprovedIsSafe' /\ SurfaceAsChosen'
    BY <1>t, <1>1 DEF UploadInv, ColorInv, ApprovedIsSafe, SurfaceAsChosen
  <1>5. OrderlyInv'
    BY <1>t, <1>1, <1>2 DEF OrderlyInv, Alone, InFlight
  <1>6. VerdictIsTold'
    BY <1>t, <1>1 DEF VerdictIsTold, Alone
  <1> QED BY <1>2, <1>3, <1>4, <1>5, <1>6 DEF IInv

(* handle_custom_color_message up to its first await.                        *)
LEMMA ReceiveStep ==
    ASSUME IInv, NEW m \in Messages, NEW isFile \in BOOLEAN, NEW f \in Sent[m],
           ReceiveMessage(m, isFile, f)
    PROVE  /\ IInv'
           /\ upload'[m].answer = "car" => dialog = None
           /\ Only(m)
  <1>t. TypeOK /\ DialogInv /\ OrderlyInv /\ VerdictIsTold
    BY DEF IInv
  <1>0. m \in Uploads /\ f \in Files /\ None \notin {"car", "silent"} /\ None \notin Choice
    BY InputsAssumption DEF InputsAssumption, Uploads
  <1> DEFINE complete == dialog # None /\ dialog.finish # None
             sending == Sending(dialog, f)
  <1>1. /\ UNCHANGED <<dialog, colors, faults>> /\ orderly' = Alone /\ upload[m].step = "unsent"
    BY DEF ReceiveMessage
  <1>2. /\ upload' = CASE dialog = None -> [upload EXCEPT ![m] = Done("car")]
                       [] complete /\ isFile -> [upload EXCEPT ![m] = sending]
                       [] OTHER -> [upload EXCEPT ![m] = Done("guided")]
        /\ asked' = CASE dialog = None \/ (complete /\ isFile) -> asked
                      [] complete /\ ~isFile -> "sample"
                      [] OTHER -> "nothing"
    BY DEF ReceiveMessage, Answered, Done, Sending
  <1>3. /\ dialog = None => upload' = [upload EXCEPT ![m] = Done("car")]
        /\ complete /\ isFile => upload' = [upload EXCEPT ![m] = sending]
        /\ dialog # None /\ ~(complete /\ isFile) => upload' = [upload EXCEPT ![m] = Done("guided")]
    <2>1. CASE dialog = None
      BY <1>2, <2>1, Zenon
    <2>2. CASE complete /\ isFile
      BY <1>2, <2>2, Zenon
    <2>3. CASE dialog # None /\ ~(complete /\ isFile)
      BY <1>2, <2>3, Zenon
    <2> QED BY <2>1, <2>2, <2>3
  <1>4. /\ asked' \in {asked, "sample", "nothing"}
        /\ asked' # "sample" \/ asked' = asked \/ dialog # None
    <2>1. CASE dialog = None \/ (complete /\ isFile)
      BY <1>2, <2>1, Zenon
    <2>2. CASE complete /\ ~isFile
      <3>1. asked' = "sample"
        BY <1>2, <2>2, Zenon
      <3> QED BY <2>2, <3>1
    <2>3. CASE dialog # None /\ ~complete
      <3>1. asked' = "nothing"
        BY <1>2, <2>3, Zenon
      <3> QED BY <3>1
    <2> QED BY <2>1, <2>2, <2>3
  <1>5. PICK row \in Upload :
           /\ upload' = [upload EXCEPT ![m] = row]
           /\ row.color = 0 /\ row.step \in {"downloading", "done"}
           /\ row.chosen.structure = None <=> row.chosen.finish = None
           /\ row.answer # "silent" /\ (row.answer = "car" => dialog = None)
           /\ row.step = "downloading" => dialog # None /\ row.file \in Files
    <2>1. CASE dialog = None
      <3>1. "car" \in Answers
        BY DEF Answers
      <3> QED BY <1>3, <2>1, <3>1, DoneIs, UnsentIs
    <2>2. CASE complete /\ isFile
      <3>1. dialog \in Choice /\ dialog.structure # None
        BY <1>t, <2>2 DEF TypeOK, DialogInv
      <3>2. /\ sending \in Upload /\ sending.step = "downloading" /\ sending.color = 0
            /\ sending.chosen = dialog /\ sending.answer = None /\ sending.file = f
        BY <1>0, <3>1, SendingIs
      <3>3. upload' = [upload EXCEPT ![m] = sending]
        BY <1>3, <2>2
      <3> HIDE DEF sending
      <3> QED BY <1>0, <2>2, <3>1, <3>2, <3>3
    <2>3. CASE dialog # None /\ ~(complete /\ isFile)
      <3>1. "guided" \in Answers
        BY DEF Answers
      <3> QED BY <1>3, <2>3, <3>1, DoneIs, UnsentIs
    <2> QED BY <2>1, <2>2, <2>3
  <1>6. /\ upload' \in [Uploads -> Upload] /\ upload'[m] = row /\ Only(m)
        /\ UploadInv' /\ ColorInv' /\ ApprovedIsSafe' /\ SurfaceAsChosen'
    BY <1>0, <1>1, <1>5, UploadMoves
  <1>7. TypeOK'
    BY <1>t, <1>1, <1>4, <1>6 DEF TypeOK, Alone
  <1>8. DialogInv'
    BY <1>t, <1>1 DEF DialogInv
  <1>9. \A n \in Messages : n # m => upload'[n] = upload[n]
    BY <1>6 DEF Only, Uploads
  <1>10. OrderlyInv'
    BY <1>t, <1>1, <1>4, <1>5, <1>6, <1>9 DEF OrderlyInv, Alone, InFlight
  <1>11. VerdictIsTold'
    BY <1>t, <1>1, <1>5, <1>6, <1>9 DEF VerdictIsTold, Alone
  <1> QED BY <1>5, <1>6, <1>7, <1>8, <1>10, <1>11 DEF IInv

LEMMA FormAccepted ==
    ASSUME NEW form, form.key \in BOOLEAN, FormStatus(form) = 202, "finish" \in form.fields
    PROVE  form.chosen.structure \in Structures /\ form.chosen.finish \in Finishes
  <1> DEFINE multipart == form.type = "multipart/form-data"
             wellFormed == /\ form.fields \in {{"name", "image"},
                                               {"name", "image", "color_structure", "finish"}}
                           /\ form.files = {"image"}
                           /\ File[form.file].declared \in
                                 {"image/jpeg", "image/png", "image/webp", "image/heic", "image/heif"}
                           /\ File[form.file].bytes <= MaxBytes
                           /\ "finish" \in form.fields =>
                                 form.chosen.structure \in Structures /\ form.chosen.finish \in Finishes
             status == IF form.length > MaxBytes + 64 * 1024 THEN 413
                       ELSE IF wellFormed THEN 202 ELSE 422
  <1>1. FormStatus(form) = CASE ~form.key -> 400
                             [] form.key /\ ~multipart -> 415
                             [] form.key /\ multipart -> status
    BY Zenon DEF FormStatus
  <1> HIDE DEF status, multipart
  <1>2. CASE ~form.key
    <2>1. FormStatus(form) = 400
      BY <1>1, <1>2, Zenon
    <2> QED BY <2>1
  <1>3. CASE form.key /\ ~multipart
    <2>1. FormStatus(form) = 415
      BY <1>1, <1>3, Zenon
    <2> QED BY <2>1
  <1>4. CASE form.key /\ multipart
    <2>1. FormStatus(form) = status
      BY <1>1, <1>4, Zenon
    <2> HIDE DEF wellFormed
    <2>2. wellFormed
      BY <2>1 DEF status
    <2> QED BY <2>2 DEF wellFormed
  <1> QED BY <1>2, <1>3, <1>4

(* A request of the Mini App that is refused, answered or repeated.          *)
LEMMA RequestStep ==
    ASSUME IInv, NEW r \in Requests,
           (\E form \in Forms : PostForm(r, form)) \/ Respond(r) \/ LoseResponse(r)
    PROVE  IInv'
  <1>t. TypeOK /\ DialogInv /\ OrderlyInv /\ VerdictIsTold
    BY DEF IInv
  <1>0. r \in Uploads /\ r \notin Messages
    BY ConstantsAssumption DEF ConstantsAssumption, Uploads
  <1>a. MaxFaults \in Nat /\ faults \in 0..MaxFaults
    BY <1>t, ConstantsAssumption DEF TypeOK, ConstantsAssumption
  <1>b. /\ UNCHANGED <<dialog, colors, asked, orderly>>
        /\ faults' = faults \/ (faults < MaxFaults /\ faults' = faults + 1)
    BY Zenon DEF PostForm, Respond, LoseResponse
  <1>1. /\ UNCHANGED <<dialog, colors, asked, orderly>> /\ faults' \in 0..MaxFaults
    BY <1>a, <1>b
  <1>2. PICK row \in Upload :
           /\ upload' = [upload EXCEPT ![r] = row]
           /\ row.color = 0 /\ row.step \notin {"created", "judged"}
           /\ row.step = "unsent" => row.answer = None
           /\ row.step = "downloading" => row.file \in Files
           /\ row.chosen.structure = None <=> row.chosen.finish = None
    <2>1. ASSUME NEW form \in Forms, PostForm(r, form)
          PROVE  \E row \in Upload :
                    /\ upload' = [upload EXCEPT ![r] = row]
                    /\ row.color = 0 /\ row.step \notin {"created", "judged"}
                    /\ row.step = "unsent" => row.answer = None
                    /\ row.step = "downloading" => row.file \in Files
                    /\ row.chosen.structure = None <=> row.chosen.finish = None
      <3>1. CASE FormStatus(form) # 202
        <4>1. "refused" \in Answers /\ upload' = [upload EXCEPT ![r] = Done("refused")]
          BY <2>1, <3>1 DEF PostForm, Answered, Done, Answers
        <4>2. /\ Done("refused") \in Upload /\ Done("refused").step = "done"
              /\ Done("refused").color = 0 /\ Done("refused").chosen = Unchosen
          BY <4>1, DoneIs
        <4> QED BY <4>1, <4>2, UnsentIs
      <3>2. CASE FormStatus(form) = 202
        <4> DEFINE chosen == IF "finish" \in form.fields THEN form.chosen ELSE Unchosen
                   row == Sending(chosen, form.file)
        <4>1. /\ form.file \in Files /\ form.chosen \in Choice /\ form.key \in BOOLEAN
              /\ None \notin Structures \cup Finishes
          BY InputsAssumption DEF InputsAssumption
        <4>2. /\ chosen \in Choice
              /\ chosen.structure = None <=> chosen.finish = None
          BY <3>2, <4>1, FormAccepted, UnsentIs
        <4>3. upload' = [upload EXCEPT ![r] = [Unsent EXCEPT !.step = "downloading",
                                                 !.file = form.file, !.chosen = chosen]]
          BY <2>1, <3>2 DEF PostForm
        <4> HIDE DEF chosen
        <4>4. row = [Unsent EXCEPT !.step = "downloading", !.file = form.file, !.chosen = chosen]
          BY DEF Unsent, Sending
        <4>5. /\ row \in Upload /\ row.step = "downloading" /\ row.color = 0
              /\ row.chosen = chosen /\ row.file = form.file
          BY <4>1, <4>2, SendingIs
        <4> HIDE DEF row
        <4> QED BY <4>1, <4>2, <4>3, <4>4, <4>5
      <3> QED BY <3>1, <3>2
    <2>2. CASE Respond(r)
      <3>1. "accepted" \in Answers /\ upload' = [upload EXCEPT ![r] = Done("accepted")]
        BY <2>2 DEF Respond, Answered, Done, Answers
      <3>2. /\ Done("accepted") \in Upload /\ Done("accepted").step = "done"
            /\ Done("accepted").color = 0 /\ Done("accepted").chosen = Unchosen
        BY <3>1, DoneIs
      <3> QED BY <3>1, <3>2, UnsentIs
    <2>3. CASE LoseResponse(r)
      BY <2>3, UnsentIs DEF LoseResponse
    <2> QED BY <2>1, <2>2, <2>3
  <1>3. /\ upload' \in [Uploads -> Upload] /\ Only(r)
        /\ UploadInv' /\ ColorInv' /\ ApprovedIsSafe' /\ SurfaceAsChosen'
    BY <1>0, <1>1, <1>2, UploadMoves
  <1>4. \A m \in Messages : upload'[m] = upload[m]
    BY <1>0, <1>3 DEF Only, Uploads
  <1>5. TypeOK' /\ DialogInv'
    BY <1>t, <1>1, <1>3 DEF TypeOK, DialogInv
  <1>6. OrderlyInv' /\ VerdictIsTold'
    BY <1>t, <1>1, <1>4 DEF OrderlyInv, VerdictIsTold, InFlight
  <1> QED BY <1>3, <1>5, <1>6 DEF IInv

(* The upload fails, or its verdict does.                                    *)
LEMMA FailureStep ==
    ASSUME IInv, NEW u \in Uploads, RejectSample(u) \/ JudgeFails(u)
    PROVE  IInv'
  <1>t. TypeOK /\ DialogInv /\ OrderlyInv /\ VerdictIsTold
    BY DEF IInv
  <1>a. MaxFaults \in Nat /\ faults \in 0..MaxFaults
    BY <1>t, ConstantsAssumption DEF TypeOK, ConstantsAssumption
  <1>b. /\ UNCHANGED <<dialog, colors>>
        /\ faults' = faults \/ (faults < MaxFaults /\ faults' = faults + 1)
        /\ asked' = asked \/ asked' = "sample"
        /\ orderly' = orderly \/ orderly' = FALSE
        /\ upload[u].step = "downloading" \/ upload[u].step = "created"
    <2>1. CASE RejectSample(u)
      BY <2>1, Zenon DEF RejectSample
    <2>2. CASE JudgeFails(u)
      BY <2>2, Zenon DEF JudgeFails
    <2> QED BY <2>1, <2>2
  <1>c. orderly \in BOOLEAN
    BY <1>t DEF TypeOK
  <1>1. /\ UNCHANGED <<dialog, colors>> /\ faults' \in 0..MaxFaults
        /\ asked' \in {asked, "sample"} /\ InFlight(u)
    BY <1>a, <1>b DEF InFlight
  <1>d. orderly' \in BOOLEAN /\ (orderly' => orderly)
    <2>1. CASE orderly' = orderly
      BY <1>c, <2>1, Zenon
    <2>2. CASE orderly' = FALSE
      BY <2>2, Zenon
    <2> QED BY <1>b, <2>1, <2>2
  <1>2. PICK answer \in Answers :
           /\ upload' = [upload EXCEPT ![u] = Done(answer)]
           /\ answer = "silent" => ~orderly'
           /\ asked' = "sample" /\ orderly' => u \in Messages \/ asked = "sample"
    <2>1. CASE RejectSample(u)
      <3>1. PICK answer \in {"failed", "refused"} : upload' = [upload EXCEPT ![u] = Done(answer)]
        BY <2>1 DEF RejectSample, Answered, Done
      <3> QED BY <2>1, <3>1 DEF RejectSample, Answers
    <2>2. CASE JudgeFails(u)
      <3>1. "silent" \in Answers /\ upload' = [upload EXCEPT ![u] = Done("silent")] /\ ~orderly'
        BY <2>2 DEF JudgeFails, Answered, Done, Answers
      <3> QED BY <3>1
    <2> QED BY <2>1, <2>2
  <1>3. /\ Done(answer) \in Upload /\ Done(answer).step = "done" /\ Done(answer).color = 0
        /\ Done(answer).chosen = Unchosen /\ Done(answer).answer = answer
    BY DoneIs
  <1>4. /\ upload' \in [Uploads -> Upload] /\ upload'[u] = Done(answer) /\ Only(u)
        /\ UploadInv' /\ ColorInv' /\ ApprovedIsSafe' /\ SurfaceAsChosen'
    BY <1>1, <1>2, <1>3, UnsentIs, UploadMoves
  <1>5. TypeOK' /\ DialogInv'
    BY <1>t, <1>1, <1>d, <1>4 DEF TypeOK, DialogInv
  <1>6. \A m \in Messages : m = u \/ upload'[m] = upload[m]
    BY <1>4 DEF Only, Uploads
  <1>7. OrderlyInv'
    BY <1>t, <1>1, <1>d, <1>2, <1>3, <1>4, <1>6 DEF OrderlyInv, InFlight
  <1>8. VerdictIsTold'
    BY <1>t, <1>1, <1>d, <1>2, <1>3, <1>4, <1>6 DEF VerdictIsTold
  <1> QED BY <1>4, <1>5, <1>7, <1>8 DEF IInv

(* An upload that fails the intake never becomes a color.                    *)
LEMMA CreateStep ==
    ASSUME IInv, NEW u \in Uploads, CreateColor(u)
    PROVE  IInv'
  <1>t. TypeOK /\ DialogInv /\ UploadInv /\ ColorInv /\ OrderlyInv /\ ApprovedIsSafe
        /\ SurfaceAsChosen /\ VerdictIsTold
    BY DEF IInv
  <1> DEFINE fresh == NewColor(u)
             number == Len(colors) + 1
             row == [upload[u] EXCEPT !.step = "created", !.color = number]
  <1>1. /\ colors \in Seq(Color) /\ upload[u] \in Upload /\ upload[u].step = "downloading"
        /\ IntakeAccepts(File[upload[u].file]) /\ upload[u].file \in Files
    BY <1>t DEF TypeOK, CreateColor, UploadInv
  <1>2. /\ fresh \in Color /\ fresh.chosen = upload[u].chosen /\ fresh.file = upload[u].file
        /\ fresh.status = "pending" /\ ~fresh.profiled
    BY <1>1 DEF NewColor, ChosenFor, Upload, Color
  <1>3. colors' = Append(colors, fresh) /\ UNCHANGED <<dialog, asked, orderly, faults>>
    BY DEF CreateColor
  <1> HIDE DEF fresh
  <1>4. /\ colors' \in Seq(Color) /\ Len(colors') = number /\ DOMAIN colors' = 1..number
        /\ colors'[number] = fresh /\ \A i \in DOMAIN colors : colors'[i] = colors[i]
        /\ DOMAIN colors = 1..Len(colors) /\ number \in Nat \ {0}
    BY <1>1, <1>2, <1>3
  <1>5. upload' = [upload EXCEPT ![u] = row]
    BY <1>4, <1>t DEF CreateColor, TypeOK
  <1> HIDE DEF number
  <1>6. /\ row \in Upload /\ row.step = "created" /\ row.color = number
        /\ row.chosen = upload[u].chosen /\ row.answer = upload[u].answer
    BY <1>1, <1>4 DEF Upload
  <1> HIDE DEF row
  <1>7. upload' \in [Uploads -> Upload] /\ upload'[u] = row /\ Only(u)
    BY <1>t, <1>5, <1>6 DEF TypeOK, Only
  <1>8. DOMAIN colors \subseteq DOMAIN colors' /\ number \in DOMAIN colors'
        /\ \A i \in DOMAIN colors' : i = number \/ i \in DOMAIN colors
    BY <1>4 DEF number
  <1>9. UploadInv'
    BY <1>t, <1>4, <1>6, <1>7, <1>8 DEF UploadInv, Only
  <1>10. ColorInv'
    BY <1>t, <1>1, <1>2, <1>4, <1>8 DEF ColorInv
  <1>11. ApprovedIsSafe'
    <2>1. \A i \in DOMAIN colors' :
             colors'[i].status = "approved" => i \in DOMAIN colors /\ colors'[i] = colors[i]
      BY <1>2, <1>4, <1>8
    <2> QED BY <1>t, <2>1, Zenon DEF ApprovedIsSafe
  <1>12. SurfaceAsChosen'
    <2> SUFFICES ASSUME NEW v \in Uploads, upload'[v].color # 0
                 PROVE  /\ colors'[upload'[v].color].chosen = upload'[v].chosen
                        /\ (upload'[v].chosen.structure = None) = (upload'[v].chosen.finish = None)
      BY DEF SurfaceAsChosen
    <2>1. CASE v = u
      BY <1>t, <1>2, <1>4, <1>6, <1>7, <2>1 DEF UploadInv
    <2>2. CASE v # u
      BY <1>t, <1>4, <1>7, <2>2 DEF UploadInv, SurfaceAsChosen, Only
    <2> QED BY <2>1, <2>2
  <1>13. \A m \in Messages : /\ InFlight(m)' = InFlight(m)
                             /\ upload'[m].answer = upload[m].answer
    <2> SUFFICES ASSUME NEW m \in Messages
                 PROVE  /\ InFlight(m)' = InFlight(m)
                        /\ upload'[m].answer = upload[m].answer
      OBVIOUS
    <2>1. CASE m = u
      BY <1>1, <1>6, <1>7, <2>1 DEF InFlight
    <2>2. CASE m # u
      BY <1>7, <2>2 DEF InFlight, Only, Uploads
    <2> QED BY <2>1, <2>2
  <1>14. TypeOK' /\ DialogInv' /\ OrderlyInv' /\ VerdictIsTold'
    BY <1>t, <1>3, <1>4, <1>7, <1>13 DEF TypeOK, DialogInv, OrderlyInv, VerdictIsTold
  <1> QED BY <1>9, <1>10, <1>11, <1>12, <1>14 DEF IInv

LEMMA DispositionIs ==
    ASSUME NEW reply
    PROVE  /\ Disposition(reply) \in {"approved", "rejected", "needs_review"}
           /\ Disposition(reply) = "approved" =>
                /\ reply.kind = "decision" /\ reply.safe /\ reply.flags = {} /\ reply.wrap
                /\ reply.safety >= 90 /\ reply.domain >= 85
  <1>1. CASE reply.kind # "decision"
    <2>1. Disposition(reply) = "needs_review"
      BY <1>1, Zenon DEF Disposition
    <2> QED BY <2>1
  <1>2. CASE reply.kind = "decision" /\ (~reply.safe \/ reply.flags # {})
    <2>1. Disposition(reply) = "rejected"
      BY <1>2, Zenon DEF Disposition
    <2> QED BY <2>1
  <1>3. CASE reply.kind = "decision" /\ reply.safe /\ reply.flags = {}
    <2> DEFINE sure == reply.wrap /\ reply.safety >= 90 /\ reply.domain >= 85
    <2>1. Disposition(reply) = IF sure THEN "approved" ELSE "needs_review"
      BY <1>3, Zenon DEF Disposition
    <2>2. CASE sure
      <3>1. Disposition(reply) = "approved"
        BY <2>1, <2>2, Zenon
      <3> QED BY <1>3, <2>2, <3>1, Zenon
    <2>3. CASE ~sure
      <3>1. Disposition(reply) = "needs_review"
        BY <2>1, <2>3, Zenon
      <3> QED BY <3>1
    <2> QED BY <2>2, <2>3
  <1> QED BY <1>1, <1>2, <1>3, Zenon

(* What create does with the answer of the moderation.                       *)
LEMMA JudgedIs ==
    ASSUME NEW c \in Color, NEW r \in Replies
    PROVE  /\ Judged(c, r) \in Color
           /\ Judged(c, r).chosen = c.chosen /\ Judged(c, r).file = c.file
           /\ Judged(c, r).reply = r
           /\ Judged(c, r).profiled => c.chosen.structure \in Structures
           /\ Judged(c, r).status = "approved" =>
                /\ Disposition(Reply[r]) = "approved"
                /\ c.chosen.structure # None => Judged(c, r).profiled
  <1> DEFINE disposition == Disposition(Reply[r])
             analysed == c.chosen.structure # None /\ disposition # "rejected"
             profiled == analysed /\ ProfileOf[c.file][r][c.chosen.structure].known
             status == IF analysed /\ ~profiled THEN "needs_review" ELSE disposition
             judged == [c EXCEPT !.reply = r, !.profiled = profiled, !.status = status]
  <1>1. Judged(c, r) = judged
    BY Zenon DEF Judged
  <1>2. disposition \in {"approved", "rejected", "needs_review"}
    BY DispositionIs
  <1>3. profiled \in BOOLEAN /\ (profiled => c.chosen.structure # None)
    BY Zenon
  <1> HIDE DEF disposition
  <1>4. /\ status \in {"approved", "rejected", "needs_review"}
        /\ status = "approved" => disposition = "approved" /\ (analysed => profiled)
        /\ status = "approved" /\ c.chosen.structure # None => analysed
    <2> DEFINE known == ProfileOf[c.file][r][c.chosen.structure].known
    <2> HIDE DEF known
    <2>1. profiled = (analysed /\ known)
      BY Zenon DEF known
    <2> HIDE DEF profiled
    <2>2. CASE analysed /\ ~profiled
      BY <2>2
    <2>3. CASE ~(analysed /\ ~profiled)
      <3>1. status = disposition
        BY <2>3
      <3> QED BY <1>2, <2>3, <3>1
    <2> QED BY <2>2, <2>3
  <1> HIDE DEF profiled, status
  <1>5. /\ judged \in Color /\ judged.chosen = c.chosen /\ judged.file = c.file
        /\ judged.reply = r /\ judged.status = status /\ judged.profiled = profiled
    BY <1>3, <1>4 DEF Color
  <1>6. c.chosen.structure \in Structures \cup {None}
    BY DEF Color, Choice
  <1> HIDE DEF judged
  <1> QED BY <1>1, <1>3, <1>4, <1>5, <1>6 DEF disposition

(* The verdict on the color of an upload.                                    *)
LEMMA JudgeStep ==
    ASSUME IInv, NEW u \in Uploads, NEW r \in Replies, Judge(u, r)
    PROVE  IInv'
  <1>t. TypeOK /\ DialogInv /\ UploadInv /\ ColorInv /\ OrderlyInv /\ ApprovedIsSafe
        /\ SurfaceAsChosen /\ VerdictIsTold
    BY DEF IInv
  <1> DEFINE k == upload[u].color
             judged == Judged(colors[k], r)
             row == [upload[u] EXCEPT !.step = "judged"]
  <1>1. /\ upload[u] \in Upload /\ upload[u].step = "created" /\ k # 0 /\ k \in DOMAIN colors
        /\ colors \in Seq(Color) /\ colors[k] \in Color
    BY <1>t DEF TypeOK, UploadInv, Judge
  <1>2. UNCHANGED <<dialog, asked, orderly, faults>>
    BY DEF Judge
  <1>3. /\ judged \in Color /\ judged.chosen = colors[k].chosen /\ judged.file = colors[k].file
        /\ judged.reply = r
        /\ judged.profiled => judged.chosen.structure \in Structures
        /\ judged.status = "approved" =>
             /\ Disposition(Reply[r]) = "approved"
             /\ colors[k].chosen.structure # None => judged.profiled
    BY <1>1, JudgedIs
  <1>4. colors' = [colors EXCEPT ![k] = judged]
    BY DEF Judge
  <1>5. upload' = [upload EXCEPT ![u] = row]
    BY DEF Judge
  <1> HIDE DEF judged
  <1>6. /\ colors' \in Seq(Color) /\ DOMAIN colors' = DOMAIN colors /\ colors'[k] = judged
        /\ \A i \in DOMAIN colors : i # k => colors'[i] = colors[i]
    BY <1>1, <1>3, <1>4
  <1>7. /\ row \in Upload /\ row.step = "judged" /\ row.color = k
        /\ row.chosen = upload[u].chosen /\ row.answer = upload[u].answer
    BY <1>1 DEF Upload
  <1> HIDE DEF row
  <1>8. upload' \in [Uploads -> Upload] /\ upload'[u] = row /\ Only(u)
    BY <1>t, <1>5, <1>7 DEF TypeOK, Only
  <1>9. UploadInv'
    BY <1>t, <1>1, <1>6, <1>7, <1>8 DEF UploadInv, Only
  <1>10. ColorInv'
    BY <1>t, <1>3, <1>6 DEF ColorInv
  <1>11. ApprovedIsSafe'
    <2>1. judged.status = "approved" =>
             /\ File[judged.file].scan = "OK"
             /\ Reply[judged.reply].kind = "decision" /\ Reply[judged.reply].safe
             /\ Reply[judged.reply].flags = {} /\ Reply[judged.reply].wrap
             /\ Reply[judged.reply].safety >= 90 /\ Reply[judged.reply].domain >= 85
             /\ judged.chosen.structure # None => judged.profiled
      <3>1. File[colors[k].file].scan = "OK"
        BY <1>t, <1>1 DEF ColorInv, IntakeAccepts, ScanPasses
      <3>2. Disposition(Reply[r]) = "approved" =>
              /\ Reply[r].kind = "decision" /\ Reply[r].safe /\ Reply[r].flags = {}
              /\ Reply[r].wrap /\ Reply[r].safety >= 90 /\ Reply[r].domain >= 85
        BY DispositionIs
      <3> QED BY <1>3, <3>1, <3>2, Zenon
    <2>2. \A i \in DOMAIN colors' : colors'[i] = judged
                                    \/ (i \in DOMAIN colors /\ colors'[i] = colors[i])
      BY <1>6
    <2> DEFINE Safe(c) == c.status = "approved" =>
                  /\ File[c.file].scan = "OK"
                  /\ Reply[c.reply].kind = "decision" /\ Reply[c.reply].safe
                  /\ Reply[c.reply].flags = {} /\ Reply[c.reply].wrap
                  /\ Reply[c.reply].safety >= 90 /\ Reply[c.reply].domain >= 85
                  /\ c.chosen.structure # None => c.profiled
    <2>3. Safe(judged) /\ \A i \in DOMAIN colors : Safe(colors[i])
      BY <1>t, <2>1, Zenon DEF ApprovedIsSafe
    <2>4. (\A i \in DOMAIN colors' : Safe(colors'[i])) => ApprovedIsSafe'
      BY Zenon DEF ApprovedIsSafe
    <2> HIDE DEF Safe
    <2>5. \A i \in DOMAIN colors' : Safe(colors'[i])
      BY <2>2, <2>3, Zenon
    <2> QED BY <2>4, <2>5
  <1>12. SurfaceAsChosen'
    <2>1. \A i \in DOMAIN colors : colors'[i].chosen = colors[i].chosen
      BY <1>3, <1>6
    <2>2. \A v \in Uploads : /\ upload'[v].color = upload[v].color
                             /\ upload'[v].chosen = upload[v].chosen
      BY <1>7, <1>8 DEF Only
    <2> QED BY <1>t, <2>1, <2>2 DEF SurfaceAsChosen, UploadInv
  <1>13. \A m \in Messages : /\ InFlight(m)' = InFlight(m)
                             /\ upload'[m].answer = upload[m].answer
    <2> SUFFICES ASSUME NEW m \in Messages
                 PROVE  /\ InFlight(m)' = InFlight(m)
                        /\ upload'[m].answer = upload[m].answer
      OBVIOUS
    <2>1. CASE m = u
      BY <1>1, <1>7, <1>8, <2>1 DEF InFlight
    <2>2. CASE m # u
      BY <1>8, <2>2 DEF InFlight, Only, Uploads
    <2> QED BY <2>1, <2>2
  <1>14. TypeOK' /\ DialogInv' /\ OrderlyInv' /\ VerdictIsTold'
    BY <1>t, <1>2, <1>6, <1>8, <1>13 DEF TypeOK, DialogInv, OrderlyInv, VerdictIsTold
  <1> QED BY <1>9, <1>10, <1>11, <1>12, <1>14 DEF IInv

LEMMA ToldIs ==
    ASSUME NEW c
    PROVE  Told(c) \in {"ready", "retake", "review"}
  <1>1. CASE c.status = "approved"
    <2>1. Told(c) = "ready"
      BY <1>1, Zenon DEF Told
    <2> QED BY <2>1
  <1>2. CASE /\ c.status # "approved" /\ c.status = "needs_review"
             /\ c.chosen.structure # None /\ ~c.profiled
    <2>1. Told(c) \in {"ready", "retake"}
      BY <1>2, Zenon DEF Told
    <2> QED BY <2>1
  <1>3. CASE /\ c.status # "approved"
             /\ ~(c.status = "needs_review" /\ c.chosen.structure # None /\ ~c.profiled)
    <2>1. Told(c) = "review"
      BY <1>3, Zenon DEF Told
    <2> QED BY <2>1
  <1> QED BY <1>1, <1>2, <1>3

(* The dialog ends: while the user is orderly it is the dialog of this upload, *)
(* and no other upload is handled.                                           *)
LEMMA EndDialogStep ==
    ASSUME IInv, NEW m \in Messages, EndDialog(m)
    PROVE  IInv'
  <1>t. TypeOK /\ DialogInv /\ UploadInv /\ OrderlyInv /\ VerdictIsTold
    BY DEF IInv
  <1>0. m \in Uploads
    BY DEF Uploads
  <1>1. /\ dialog' = None /\ UNCHANGED <<colors, orderly, faults>> /\ InFlight(m)
    BY DEF EndDialog, InFlight
  <1> DEFINE verdict == Told(colors[upload[m].color])
  <1>2. PICK answer \in Answers :
           /\ upload' = [upload EXCEPT ![m] = Done(answer)]
           /\ answer = "silent" => dialog = None
           /\ asked' \in {asked, "retake", "nothing"}
           /\ asked' = asked \/ asked' # "sample"
           /\ dialog # None => asked' # "sample"
    <2>1. CASE dialog = None
      <3>1. upload' = [upload EXCEPT ![m] = Done("silent")] /\ asked' = asked
        BY <2>1 DEF EndDialog, Answered, Done
      <3>2. "silent" \in Answers
        BY DEF Answers
      <3> QED BY <2>1, <3>1, <3>2
    <2>2. CASE dialog # None
      <3>1. verdict \in {"ready", "retake", "review"}
        BY ToldIs
      <3>2. upload' = [upload EXCEPT ![m] = Done(verdict)]
            /\ asked' = IF verdict = "retake" THEN "retake" ELSE "nothing"
        BY <2>2 DEF EndDialog, Answered, Done
      <3> HIDE DEF verdict
      <3>3. verdict \in Answers /\ verdict # "silent"
        BY <3>1 DEF Answers
      <3> QED BY <2>2, <3>2, <3>3
    <2> QED BY <2>1, <2>2
  <1>3. /\ Done(answer) \in Upload /\ Done(answer).step = "done" /\ Done(answer).color = 0
        /\ Done(answer).chosen = Unchosen /\ Done(answer).answer = answer
    BY <1>2, DoneIs
  <1>4. /\ upload' \in [Uploads -> Upload] /\ upload'[m] = Done(answer) /\ Only(m)
        /\ UploadInv' /\ ColorInv' /\ ApprovedIsSafe' /\ SurfaceAsChosen'
    BY <1>0, <1>1, <1>2, <1>3, UnsentIs, UploadMoves
  <1>5. TypeOK' /\ DialogInv'
    BY <1>t, <1>1, <1>2, <1>4 DEF TypeOK, DialogInv
  <1>6. \A n \in Messages : n = m \/ upload'[n] = upload[n]
    BY <1>4 DEF Only, Uploads
  <1>7. orderly' => orderly /\ dialog # None
    <2>1. orderly => dialog # None
      BY <1>t, <1>1 DEF OrderlyInv
    <2> QED BY <1>1, <2>1, Zenon
  <1>8. ~InFlight(m)'
    BY <1>3, <1>4 DEF InFlight
  <1>9. \A n \in Messages : InFlight(n)' => InFlight(n) /\ n # m
    BY <1>6, <1>8 DEF InFlight
  <1>10. orderly' => \A n \in Messages : ~InFlight(n)'
    BY <1>t, <1>1, <1>7, <1>9 DEF OrderlyInv
  <1>11. OrderlyInv'
    <2>1. orderly' => asked' # "sample"
      BY <1>2, <1>7
    <2> QED BY <1>10, <2>1 DEF OrderlyInv
  <1>12. VerdictIsTold'
    <2> SUFFICES ASSUME NEW n \in Messages, upload'[n].answer = "silent", orderly'
                 PROVE  FALSE
      BY DEF VerdictIsTold
    <2>1. CASE n = m
      BY <1>2, <1>3, <1>4, <1>7, <2>1
    <2>2. CASE n # m
      BY <1>t, <1>6, <1>7, <2>2 DEF VerdictIsTold
    <2> QED BY <2>1, <2>2
  <1> QED BY <1>4, <1>5, <1>11, <1>12 DEF IInv

(* The bot restarts: nothing is promised of what was being handled.           *)
LEMMA RestartStep ==
    ASSUME IInv, Restart
    PROVE  IInv'
  <1>t. TypeOK /\ UploadInv /\ ColorInv /\ ApprovedIsSafe /\ SurfaceAsChosen
    BY DEF IInv
  <1>1. /\ dialog' = None /\ orderly' = FALSE /\ UNCHANGED <<colors, asked>>
        /\ faults < MaxFaults /\ faults' = faults + 1
    BY DEF Restart
  <1>2. faults' \in 0..MaxFaults
    BY <1>t, <1>1, ConstantsAssumption DEF TypeOK, ConstantsAssumption
  <1>3. PICK again \in SUBSET {m \in Messages : InFlight(m)} :
           upload' = [u \in Uploads |->
              IF u \in again THEN Unsent
              ELSE IF u \in Messages /\ InFlight(u) THEN Done("silent")
              ELSE upload[u]]
    BY DEF Restart, Done
  <1>4. /\ "silent" \in Answers
        /\ Done("silent") \in Upload /\ Done("silent").step = "done"
        /\ Done("silent").color = 0 /\ Done("silent").chosen = Unchosen
    <2>1. "silent" \in Answers
      BY DEF Answers
    <2> QED BY <2>1, DoneIs
  <1>5. \A u \in Uploads : upload'[u] = Unsent \/ upload'[u] = Done("silent")
                           \/ upload'[u] = upload[u]
    BY <1>3
  <1>6. upload' \in [Uploads -> Upload]
    <2>1. \A u \in Uploads : upload'[u] \in Upload
      BY <1>t, <1>4, <1>5, UnsentIs DEF TypeOK
    <2> QED BY <1>3, <2>1
  <1>7. UploadInv' /\ ColorInv' /\ ApprovedIsSafe' /\ SurfaceAsChosen'
    <2>1. UploadInv'
      BY <1>t, <1>1, <1>4, <1>5, UnsentIs DEF UploadInv
    <2>2. ColorInv' /\ ApprovedIsSafe'
      BY <1>t, <1>1 DEF ColorInv, ApprovedIsSafe
    <2>3. SurfaceAsChosen'
      BY <1>t, <1>1, <1>4, <1>5, UnsentIs DEF SurfaceAsChosen
    <2> QED BY <2>1, <2>2, <2>3
  <1>8. TypeOK'
    BY <1>t, <1>1, <1>2, <1>6 DEF TypeOK
  <1>9. DialogInv' /\ OrderlyInv' /\ VerdictIsTold'
    BY <1>1 DEF DialogInv, OrderlyInv, VerdictIsTold
  <1> QED BY <1>7, <1>8, <1>9 DEF IInv

-----------------------------------------------------------------------------

LEMMA Invariance == IInv /\ [Next]_vars => IInv'
  <1> SUFFICES ASSUME IInv, [Next]_vars PROVE IInv'
    OBVIOUS
  <1>1. CASE UNCHANGED vars
    BY <1>1 DEF vars, IInv, TypeOK, DialogInv, UploadInv, ColorInv, OrderlyInv, InFlight,
                ApprovedIsSafe, SurfaceAsChosen, VerdictIsTold
  <1>2. CASE StartDialog \/ PromptFromApp \/ (\E s \in Structures : ChooseStructure(s))
             \/ (\E f \in Finishes : ChooseFinish(f))
    BY <1>2, DialogStep
  <1>3. CASE Restart
    BY <1>3, RestartStep
  <1>4. CASE \E m \in Messages : \/ \E isFile \in BOOLEAN, f \in Sent[m] :
                                      ReceiveMessage(m, isFile, f)
                                 \/ EndDialog(m)
    BY <1>4, ReceiveStep, EndDialogStep
  <1>5. CASE \E r \in Requests : (\E form \in Forms : PostForm(r, form))
                                 \/ Respond(r) \/ LoseResponse(r)
    BY <1>5, RequestStep
  <1>6. CASE \E u \in Uploads : RejectSample(u) \/ CreateColor(u) \/ JudgeFails(u)
                                \/ \E r \in Replies : Judge(u, r)
    BY <1>6, FailureStep, CreateStep, JudgeStep
  <1> QED BY <1>1, <1>2, <1>3, <1>4, <1>5, <1>6 DEF Next

(* The invariant of the uploads is inductive.                                *)
THEOREM Inductive == Spec => []IInv
  <1> QED BY InitInv, Invariance, PTL DEF Spec

(* The variables have their types, for any bounds.                           *)
THEOREM TypeCorrect == Spec => []TypeOK
  <1>1. IInv => TypeOK
    BY DEF IInv
  <1> QED BY <1>1, Inductive, PTL

(* CustomColorService.create fails closed: whatever the files hold and the     *)
(* moderation answers, a published color was scanned, judged safe and a wrap   *)
(* with confidence, and has its profile if it has a structure.               *)
THEOREM PublishedIsSafe == Spec => []ApprovedIsSafe
  <1>1. IInv => ApprovedIsSafe
    BY DEF IInv
  <1> QED BY <1>1, Inductive, PTL

(* handle_custom_color_message: a color has the structure and finish chosen    *)
(* before its file was sent, however taps and uploads interleave.            *)
THEOREM SurfaceIsKept == Spec => []SurfaceAsChosen
  <1>1. IInv => SurfaceAsChosen
    BY DEF IInv
  <1> QED BY <1>1, Inductive, PTL

(* The handler of an upload ends in silence only after a fault or when the     *)
(* user did something else meanwhile.                                        *)
THEOREM VerdictReachesUser == Spec => []VerdictIsTold
  <1>1. IInv => VerdictIsTold
    BY DEF IInv
  <1> QED BY <1>1, Inductive, PTL

(* media_handler: while the bot waits for a sample it asked for, and nothing   *)
(* else was done meanwhile, a file is not taken for the photo of the car.     *)
THEOREM SampleNotTaken == Spec => SampleIsNotTheCar
  <1> DEFINE A == \A m \in Messages :
                    upload[m].step = "unsent" /\ upload'[m].answer = "car" /\ asked = "sample"
                        => ~orderly
  <1>1. IInv /\ [Next]_vars => A
    <2> SUFFICES ASSUME IInv, [Next]_vars, NEW m \in Messages, upload[m].step = "unsent",
                        upload'[m].answer = "car", asked = "sample"
                 PROVE  ~orderly
      OBVIOUS
    <2>t. TypeOK /\ UploadInv /\ OrderlyInv
      BY DEF IInv
    <2>0. /\ m \in Uploads /\ upload[m].answer # "car" /\ None # "car"
          /\ DOMAIN upload = Uploads
      BY <2>t, InputsAssumption DEF InputsAssumption, Uploads, UploadInv, TypeOK
    <2>1. dialog = None
      <3>1. CASE \E n \in Messages, isFile \in BOOLEAN : \E f \in Sent[n] :
                    ReceiveMessage(n, isFile, f)
        <4>1. PICK n \in Messages, isFile \in BOOLEAN : \E f \in Sent[n] :
                      ReceiveMessage(n, isFile, f)
          BY <3>1
        <4>2. PICK f \in Sent[n] : ReceiveMessage(n, isFile, f)
          BY <4>1
        <4>3. (upload'[n].answer = "car" => dialog = None) /\ Only(n)
          BY <4>2, ReceiveStep
        <4> QED BY <2>0, <4>3 DEF Only
      <3>2. CASE UNCHANGED upload
        BY <2>0, <3>2
      <3>3. CASE Restart
        BY <2>0, <3>3, UnsentIs DEF Restart, InFlight
      <3>4. CASE \E u \in Uploads : \/ RejectSample(u) \/ CreateColor(u) \/ JudgeFails(u)
                                    \/ (u \in Messages /\ EndDialog(u))
                                    \/ (u \in Requests /\ (Respond(u) \/ LoseResponse(u)))
                                    \/ (u \in Requests /\ \E form \in Forms : PostForm(u, form))
                                    \/ \E r \in Replies : Judge(u, r)
        <4> PICK u \in Uploads :
                    \/ RejectSample(u) \/ CreateColor(u) \/ JudgeFails(u)
                    \/ (u \in Messages /\ EndDialog(u))
                    \/ (u \in Requests /\ (Respond(u) \/ LoseResponse(u)))
                    \/ (u \in Requests /\ \E form \in Forms : PostForm(u, form))
                    \/ \E r \in Replies : Judge(u, r)
          BY <3>4
        <4>1. u # m
          BY ConstantsAssumption
             DEF ConstantsAssumption, RejectSample, CreateColor, JudgeFails, EndDialog, Judge
        <4>2. Only(u)
          <5>1. CASE RejectSample(u) \/ JudgeFails(u)
            BY <2>0, <5>1 DEF RejectSample, JudgeFails, Answered, Only
          <5>2. CASE CreateColor(u)
            BY <2>0, <5>2 DEF CreateColor, Only
          <5>3. CASE u \in Messages /\ EndDialog(u)
            <6>1. PICK answer : upload' = [upload EXCEPT ![u] = Done(answer)]
              BY <5>3, Zenon DEF EndDialog, Answered, Done
            <6> QED BY <2>0, <6>1 DEF Only
          <5>4. CASE u \in Requests /\ (Respond(u) \/ LoseResponse(u))
            BY <2>0, <5>4 DEF Respond, LoseResponse, Answered, Only
          <5>5. CASE u \in Requests /\ \E form \in Forms : PostForm(u, form)
            <6>1. PICK form \in Forms : PostForm(u, form)
              BY <5>5
            <6>2. CASE FormStatus(form) # 202
              BY <2>0, <6>1, <6>2 DEF PostForm, Answered, Only
            <6>3. CASE FormStatus(form) = 202
              <7>1. PICK row : upload' = [upload EXCEPT ![u] = row]
                BY <6>1, <6>3, Zenon DEF PostForm
              <7> QED BY <2>0, <7>1 DEF Only
            <6> QED BY <6>2, <6>3
          <5>6. CASE \E r \in Replies : Judge(u, r)
            BY <2>0, <5>6 DEF Judge, Only
          <5> QED BY <5>1, <5>2, <5>3, <5>4, <5>5, <5>6
        <4> QED BY <2>0, <4>1, <4>2 DEF Only
      <3> QED BY <3>1, <3>2, <3>3, <3>4
              DEF Next, vars, StartDialog, PromptFromApp, ChooseStructure, ChooseFinish, Uploads
    <2> QED BY <2>t, <2>1 DEF OrderlyInv
  <1>2. Spec => [][A]_vars
    BY <1>1, Inductive, PTL DEF Spec
  <1> QED BY <1>2 DEF SampleIsNotTheCar

-----------------------------------------------------------------------------
(* What is stored of an accepted file is a picture, and what a moderation      *)
(* located in it are areas of it.                                            *)
LEMMA CanonicalIs ==
    ASSUME NEW f \in Files, IntakeAccepts(File[f])
    PROVE  IsPicture(Canonical(File[f]))
  <1> DEFINE file == File[f]
             longest == Max({file.width, file.height})
             Side(n) == IF longest <= OutputEdge THEN n
                        ELSE Max({1, Rounded(n * OutputEdge, longest)})
  <1>1. file.width \in Nat \ {0} /\ file.height \in Nat \ {0}
    <2>1. file.width \in 1..MaxSide /\ file.height \in 1..MaxSide
      BY DEF IntakeAccepts, Decodes
    <2>2. MaxSide \in Nat
      BY ConstantsAssumption DEF ConstantsAssumption
    <2> HIDE DEF file
    <2> QED BY <2>1, <2>2
  <1>2. OutputEdge \in Nat
    BY ConstantsAssumption DEF ConstantsAssumption
  <1> HIDE DEF file
  <1>3. longest \in Nat \ {0}
    <2>1. file.width \in Int /\ file.height \in Int
      BY <1>1
    <2>2. longest \in {file.width, file.height}
      BY <2>1, MaxOfTwo
    <2> HIDE DEF longest
    <2> QED BY <1>1, <2>2
  <1> HIDE DEF longest
  <1>4. ASSUME NEW n \in Nat \ {0}
        PROVE  Side(n) \in Nat \ {0}
    <2> DEFINE m == n * OutputEdge
               r == Rounded(m, longest)
    <2>1. m \in Int /\ 1 \in Int
      BY <1>2
    <2> HIDE DEF m
    <2>2. r \in Int
      BY <1>3, <2>1, RoundedIs
    <2> HIDE DEF r
    <2>3. Max({1, r}) \in {1, r} /\ Max({1, r}) >= 1
      BY <2>1, <2>2, MaxOfTwo
    <2>4. Max({1, r}) \in Nat \ {0}
      BY <2>2, <2>3
    <2>5. Side(n) = n \/ Side(n) = Max({1, r})
      BY DEF r, m
    <2> HIDE DEF Side
    <2> QED BY <2>4, <2>5
  <1>5. Canonical(File[f]) = [width |-> Side(file.width), height |-> Side(file.height),
                              scene |-> file.scene]
    BY DEF Canonical, longest, file
  <1> HIDE DEF Side
  <1> QED BY <1>1, <1>4, <1>5 DEF IsPicture

(* A profile computed on the way can be used, whatever the file, the answer of *)
(* the moderation and the structure.                                         *)
LEMMA UsableIs ==
    ASSUME NEW f \in Files, IntakeAccepts(File[f]), NEW r \in Replies, NEW s \in Structures
    PROVE  Usable[f][r][s]
  <1> DEFINE picture == Canonical(File[f])
             located == LocatedBy(r)
             tiles == Tiles(picture, located, s)
             profile == ProfileOf[f][r][s]
  <1>1. IsPicture(picture)
    BY CanonicalIs
  <1>2. located.material \in Seq(Regions)
    <2>1. CASE Reply[r].kind = "decision"
      BY <2>1, ContentsAssumption DEF ContentsAssumption, LocatedBy
    <2>2. CASE Reply[r].kind # "decision"
      <3>1. located.material = <<>>
        BY <2>2 DEF LocatedBy, NothingLocated
      <3> HIDE DEF located
      <3> QED BY <3>1
    <2> QED BY <2>1, <2>2
  <1>3. profile = Analyzed(picture, located, s)
    BY DEF ProfileOf
  <1>4. Usable[f][r][s] = IsUsable(profile, picture, tiles)
    BY Zenon DEF Usable, IsUsable
  <1> HIDE DEF picture, located, profile
  <1>5. IsUsable(profile, picture, tiles)
    BY <1>1, <1>2, <1>3, AnalysisIsUsable
  <1> QED BY <1>4, <1>5

(* _commit_profile, ReferenceProfile.from_dict and build_clean_reference: the   *)
(* profile stored with a color is read back by the worker and by an edit, and   *)
(* the sample box of each of its colors cuts out of the stored image a part     *)
(* that passed the tests of the analysis.                                    *)
THEOREM ProfileCanBeUsed == Spec => []ProfileIsUsable
  <1>1. IInv => ProfileIsUsable
    <2> SUFFICES ASSUME IInv, NEW i \in DOMAIN colors, colors[i].profiled
                 PROVE  Usable[colors[i].file][colors[i].reply][colors[i].chosen.structure]
      BY DEF ProfileIsUsable
    <2>1. IntakeAccepts(File[colors[i].file])
      BY DEF IInv, ColorInv
    <2>2. colors[i].reply \in Replies /\ colors[i].chosen.structure \in Structures
      BY DEF IInv, ColorInv
    <2>3. colors[i].file \in Files
      <3>1. colors[i] \in Color
        BY DEF IInv, TypeOK
      <3> QED BY <3>1 DEF Color
    <2> QED BY <2>1, <2>2, <2>3, UsableIs
  <1> QED BY <1>1, Inductive, PTL
===============================================================================
