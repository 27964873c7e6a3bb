---------------------------- MODULE ExecutionCalls ----------------------------
(***************************************************************************)
(* The outside calls of one claimed attempt: what worker/service.py reads    *)
(* from Telegram and from the reference storage, asks of the image provider  *)
(* and posts in the user's chat, in which order, and what it concludes from   *)
(* each answer.  JobExecution has the rows these calls are marked in and the *)
(* other workers; here the rows are reduced to what this attempt commits, and *)
(* a lost lease, a failed transaction or a dead process to giving up.         *)
(*                                                                         *)
(* Images are records of the few facts the checks read.  A request or a      *)
(* photo that was sent may arrive at once, later, or never; only a definite   *)
(* answer says which.  Telegram's error answers other than network failures   *)
(* are taken to mean that nothing was posted.                                *)
(***************************************************************************)
EXTENDS Naturals

CONSTANTS
    Files,         \* what Telegram may return for a file id
    Missing,       \* the download fails
    Allowlist,     \* document_mime_allowlist
    MaxBytes, MinSide, MaxSide, MaxPixels,      \* limits on a source photo
    References,    \* custom color versions as the worker may find them
    NoReference,   \* the job uses a built-in color, or surprise
    Images,        \* <<width, height>> of images the provider may return
    MaxSideSum     \* telegram_result_max_side_sum

ASSUME ConstantsAssumption ==
    /\ Files \subseteq [content : STRING, bytes : Nat, width : Nat, height : Nat,
                        frames : Nat, decodes : BOOLEAN]
    /\ Missing \notin Files
    /\ NoReference \notin References
    /\ Images \subseteq (Nat \ {0}) \X (Nat \ {0})
    /\ MaxSideSum \in Nat \ {0, 1}

VARIABLES
    step,        \* where execute stands
    job,         \* the accepted photo, its snapshot and the custom color, if any
    source,      \* what the download of the photo returned
    connects,    \* connection failures of generate
    requests,    \* image requests that reached the provider
    photos,      \* photos that reached the chat
    travelling,  \* what was sent and may still arrive
    answer,      \* what generate concluded from the provider
    receipt,     \* what send_result concluded from Telegram
    floods,      \* times send_result slept for TelegramRetryAfter
    image,       \* the image in hand: as returned, then as normalized
    code,        \* the ExecutionErrorCode of the failure being handled
    outcome,     \* what this attempt committed
    told         \* the recovery copy that reached the user

vars == <<step, job, source, connects, requests, photos, travelling, answer, receipt, floods,
          image, code, outcome, told>>

Steps == {"claimed", "resolved", "read", "source_ready", "provider_started", "asking",
          "generated", "provider_succeeded", "normalized", "delivering", "posting",
          "sent", "failing", "failed", "over"}

Codes == {"none", "source_unavailable", "source_changed", "custom_reference_unavailable",
          "provider_unavailable", "provider_rejected", "provider_invalid_response",
          "provider_ambiguous", "result_invalid", "delivery_unavailable",
          "delivery_ambiguous", "internal_failure"}

NoImage == <<0, 0>>

-----------------------------------------------------------------------------
(* Reading a photo: bot/media.py and eval/image_validation.py.               *)

Signatures == {"image/jpeg", "image/png", "image/webp"}

(* CappedBytesIO refuses the write that would pass its cap.                  *)
WithinCap(file) == file.bytes <= MaxBytes

(* _observed_mime_type: the content tells its type, and a type we know.      *)
Observed(file) == file.content \in Signatures

(* _inspect_dimensions.                                                      *)
DimensionsAllowed(file) ==
    /\ file.frames = 1
    /\ {file.width, file.height} \subseteq MinSide..MaxSide
    /\ file.width * file.height <= MaxPixels

(* validate_image_bytes: a complete decode within limits.                    *)
Validates(file, side, pixels) ==
    /\ file.bytes > 0
    /\ file.content \in Signatures
    /\ {file.width, file.height} \subseteq 1..side
    /\ file.width * file.height <= pixels
    /\ file.frames = 1
    /\ file.decodes

(* download_validated_bytes, for the type somebody declared.                 *)
Readable(file, declared) ==
    /\ declared \in Allowlist
    /\ file # Missing
    /\ WithinCap(file)
    /\ Observed(file)
    /\ file.content = declared
    /\ DimensionsAllowed(file)
    /\ Validates(file, MaxSide, MaxPixels)

(* _media_contract: Telegram recompresses a photo to JPEG; a document keeps  *)
(* the type its sender's client declared.                                    *)
Declared(kind, type) == IF kind = "photo" THEN "image/jpeg" ELSE type

(* read_supported_media, in the bot: it accepts a file under the type that   *)
(* Telegram declares for it.                                                 *)
AcceptedByBot(file, kind, type) == Readable(file, Declared(kind, type))

(* Mutant of Snapshot: it keeps the type of the message's kind only.         *)
MutantSnapshotForgetsType(file) == [type |-> "image/jpeg", bytes |-> file.bytes,
                                    width |-> file.width, height |-> file.height]

(* AcceptedMedia, which the job snapshots.                                   *)
Snapshot(file) == [type |-> file.content, bytes |-> file.bytes,
                   width |-> file.width, height |-> file.height]

(* read_snapshotted_media: the file still is what was accepted.              *)
Matches(file, snapshot) ==
    /\ file.bytes = snapshot.bytes
    /\ file.width = snapshot.width
    /\ file.height = snapshot.height

-----------------------------------------------------------------------------
(* A custom color version as _resolve_intent finds it: its row, its object    *)
(* against the row's sha256, what the row says of the object, and its profile. *)
ReferenceState == [found : BOOLEAN, intact : BOOLEAN, described : BOOLEAN,
                   profile : {"none", "valid", "invalid"}, structured : BOOLEAN]

(* _resolve_intent succeeds: a built-in or surprise color always; a custom    *)
(* one if the object is the retained one and, when the color was analysed,    *)
(* its profile is readable.                                                  *)
Resolves(v) ==
    v # NoReference =>
       /\ v.found /\ v.intact /\ v.described
       /\ IF v.profile = "none" THEN ~v.structured ELSE v.profile = "valid"

(* build_generation_payload: the reference goes with a custom color only, and *)
(* both images have a type the provider takes.                               *)
Buildable(snapshot) == snapshot.type \in Signatures

-----------------------------------------------------------------------------
(* The provider's answers and what generate and decode_and_validate_response  *)
(* make of them.                                                             *)

Responses ==
    [status : {200, 302, 400, 429, 500},
     body   : {"cut", "oversized", "malformed", "bad_image", "bad_usage", "image"}]

(* _read_bounded_response: a declared or an observed length beyond the cap.  *)
BodyFits(r) == r.body # "oversized"

(* _validate_response_headers.                                               *)
HeadersValid(r) == r.status = 200

(* _validate_image and _safe_usage.                                          *)
ImageValid(r) == r.body # "bad_image"
UsageValid(r) == r.body # "bad_usage"

(* decode_and_validate_response.                                             *)
Decodes(r) == HeadersValid(r) /\ r.body # "malformed" /\ ImageValid(r) /\ UsageValid(r)

(* generate: an error status decides before the body is read; then the body,  *)
(* before the status is required to be a success.                            *)
ProviderVerdict(r) ==
    CASE r.status \in {429, 500} -> "provider_unavailable"
      [] r.status = 400 -> "provider_rejected"
      [] r.status \in {200, 302} /\ r.body = "cut" -> "provider_ambiguous"
      [] r.body # "cut" /\ BodyFits(r) /\ Decodes(r) -> "none"
      [] OTHER -> "provider_invalid_response"

-----------------------------------------------------------------------------
(* normalize_telegram_photo, on sizes.                                       *)

Longest(w, h) == IF w > h THEN w ELSE h
Shortest(w, h) == IF w > h THEN h ELSE w
AtLeastOne(n) == IF n = 0 THEN 1 ELSE n

(* _resized by num/den.                                                      *)
Resized(size, num, den) == <<AtLeastOne((size[1] * num) \div den),
                             AtLeastOne((size[2] * num) \div den)>>

Sendable(size) == Longest(size[1], size[2]) <= 20 * Shortest(size[1], size[2])

(* Mutant of Fitted: only the longer side is held to the limit.              *)
MutantFittedByLongest(size) ==
    IF Longest(size[1], size[2]) > MaxSideSum
    THEN Resized(size, MaxSideSum, Longest(size[1], size[2]))
    ELSE size

(* Scaled down to the largest sum of sides Telegram takes.                   *)
Fitted(size) ==
    IF size[1] + size[2] > MaxSideSum
    THEN Resized(size, MaxSideSum, size[1] + size[2])
    ELSE size

(* The rounds of the quality ladder: 15% smaller each time no quality fits.  *)
Shrunk(size, rounds) ==
    LET f[n \in 0..rounds] == IF n = 0 THEN size ELSE Resized(f[n - 1], 85, 100)
    IN f[rounds]

MaxDownscaleRounds == 4

-----------------------------------------------------------------------------

TypeOK ==
    /\ step \in Steps
    /\ job.file \in Files
    /\ job.reference \in References \cup {NoReference}
    /\ source \in Files \cup {Missing}
    /\ connects \in 0..1
    /\ requests \in Nat
    /\ photos \in Nat
    /\ travelling \subseteq {"request", "photo"}
    /\ answer \in {"none", "unsent", "answered", "lost"}
    /\ receipt \in {"none", "receipt", "refused", "lost"}
    /\ floods \in 0..1
    /\ image \in Nat \X Nat
    /\ code \in Codes
    /\ outcome \in Codes \cup {"running", "succeeded"}
    /\ told \in Codes

(* A job whose photo the bot accepted, in the chat as a photo or a document. *)
Init ==
    /\ step = "claimed"
    /\ \E file \in Files, kind \in {"photo", "document"}, type \in Signatures,
          reference \in References \cup {NoReference} :
          /\ AcceptedByBot(file, kind, type)
          /\ job = [file |-> file, snapshot |-> Snapshot(file), reference |-> reference]
    /\ source = Missing
    /\ connects = 0
    /\ requests = 0
    /\ photos = 0
    /\ travelling = {}
    /\ answer = "none"
    /\ receipt = "none"
    /\ floods = 0
    /\ image = NoImage
    /\ code = "none"
    /\ outcome = "running"
    /\ told = "none"

outside == <<connects, requests, photos, travelling, answer, receipt, floods>>

GoFail(error) == step' = "failing" /\ code' = error

(* The intent is resolved, after a best-effort message that the work started. *)
ResolveIntent ==
    /\ step = "claimed"
    /\ \/ Resolves(job.reference) /\ step' = "resolved" /\ UNCHANGED code
       \/ ~Resolves(job.reference) /\ GoFail("custom_reference_unavailable")
    /\ UNCHANGED <<job, source, outside, image, outcome, told>>

(* The photo is downloaded again, and may have changed since it was accepted. *)
ReadSource ==
    /\ step = "resolved"
    /\ source' \in Files \cup {Missing}
    /\ LET readable == Readable(source', job.snapshot.type)
       IN \/ /\ readable /\ Matches(source', job.snapshot)
             /\ step' = "read"
             /\ UNCHANGED code
          \/ readable /\ ~Matches(source', job.snapshot) /\ GoFail("source_changed")
          \/ ~readable /\ GoFail("source_unavailable")
    /\ UNCHANGED <<job, outside, image, outcome, told>>

MarkSourceReady ==
    /\ step = "read"
    /\ step' = "source_ready"
    /\ UNCHANGED <<job, source, outside, image, code, outcome, told>>

(* The payload is built, then mark_provider_started commits.                 *)
MarkProviderStarted ==
    /\ step = "source_ready"
    /\ Buildable(job.snapshot)
    /\ step' = "provider_started"
    /\ UNCHANGED <<job, source, outside, image, code, outcome, told>>

(* Mutant of ConnectFails: a read timeout gets the retry of a connection     *)
(* failure.                                                                  *)
MutantRetriesLostAnswer ==
    /\ \/ step = "provider_started"
       \/ step = "asking"
    /\ \/ connects = 0 /\ connects' = 1 /\ step' = "provider_started"
                       /\ UNCHANGED <<answer, code>>
       \/ connects = 1 /\ answer' = "unsent" /\ GoFail("provider_unavailable")
                       /\ UNCHANGED connects
    /\ UNCHANGED <<job, source, requests, photos, travelling, receipt, floods, image,
                   outcome, told>>

(* No connection, so nothing was sent: once it is tried again, after the hook *)
(* recorded that.                                                            *)
ConnectFails ==
    /\ step = "provider_started"
    /\ \/ connects = 0 /\ connects' = 1 /\ UNCHANGED <<step, answer, code>>
       \/ connects = 1 /\ answer' = "unsent" /\ GoFail("provider_unavailable")
                       /\ UNCHANGED connects
    /\ UNCHANGED <<job, source, requests, photos, travelling, receipt, floods, image,
                   outcome, told>>

(* No OPENROUTER_API_KEY.                                                    *)
NoKey ==
    /\ step = "provider_started"
    /\ connects = 0
    /\ answer' = "unsent"
    /\ GoFail("provider_unavailable")
    /\ UNCHANGED <<job, source, connects, requests, photos, travelling, receipt, floods,
                   image, outcome, told>>

(* The request leaves; it arrives, is on its way, or is lost.                *)
AskProvider ==
    /\ step = "provider_started"
    /\ step' = "asking"
    /\ \/ requests' = requests + 1 /\ UNCHANGED travelling
       \/ travelling' = travelling \cup {"request"} /\ UNCHANGED requests
       \/ UNCHANGED <<requests, travelling>>
    /\ UNCHANGED <<job, source, connects, photos, answer, receipt, floods, image, code,
                   outcome, told>>

(* The provider answers what it received.                                    *)
ProviderAnswers ==
    /\ step = "asking"
    /\ requests > 0
    /\ \E r \in Responses :
          /\ answer' = IF ProviderVerdict(r) = "provider_ambiguous" THEN "lost"
                       ELSE "answered"
          /\ \/ /\ ProviderVerdict(r) = "none"
                /\ image' \in Images
                /\ step' = "generated"
                /\ UNCHANGED code
             \/ /\ ProviderVerdict(r) # "none"
                /\ GoFail(ProviderVerdict(r))
                /\ UNCHANGED image
    /\ UNCHANGED <<job, source, connects, requests, photos, travelling, receipt, floods,
                   outcome, told>>

(* A write, read or protocol error before any answer.                        *)
AnswerLost ==
    /\ step = "asking"
    /\ answer' = "lost"
    /\ GoFail("provider_ambiguous")
    /\ UNCHANGED <<job, source, connects, requests, photos, travelling, receipt, floods,
                   image, outcome, told>>

MarkProviderSucceeded ==
    /\ step = "generated"
    /\ step' = "provider_succeeded"
    /\ UNCHANGED <<job, source, outside, image, code, outcome, told>>

(* normalize_telegram_photo: the image is re-rendered until some quality is   *)
(* small enough, or refused.                                                 *)
Normalize ==
    /\ step = "provider_succeeded"
    /\ \/ /\ Sendable(image)
          /\ \E rounds \in 0..MaxDownscaleRounds : image' = Shrunk(Fitted(image), rounds)
          /\ step' = "normalized"
          /\ UNCHANGED code
       \/ GoFail("result_invalid") /\ UNCHANGED image
    /\ UNCHANGED <<job, source, outside, outcome, told>>

MarkDelivering ==
    /\ step = "normalized"
    /\ step' = "delivering"
    /\ UNCHANGED <<job, source, outside, image, code, outcome, told>>

(* send_photo: the photo arrives, is on its way, or goes nowhere.             *)
PostPhoto ==
    /\ step = "delivering"
    /\ step' = "posting"
    /\ \/ photos' = photos + 1 /\ UNCHANGED travelling
       \/ travelling' = travelling \cup {"photo"} /\ UNCHANGED photos
       \/ UNCHANGED <<photos, travelling>>
    /\ UNCHANGED <<job, source, connects, requests, answer, receipt, floods, image, code,
                   outcome, told>>

NothingPosted == photos = 0 /\ "photo" \notin travelling

(* TelegramRetryAfter of at most 30 seconds, the first time.                 *)
FloodLimit ==
    /\ step = "posting"
    /\ NothingPosted
    /\ floods = 0
    /\ floods' = 1
    /\ step' = "delivering"
    /\ UNCHANGED <<job, source, connects, requests, photos, travelling, answer, receipt,
                   image, code, outcome, told>>

(* The message comes back with this chat and a message id.                   *)
PhotoReceived ==
    /\ step = "posting"
    /\ photos > 0
    /\ receipt' = "receipt"
    /\ step' = "sent"
    /\ UNCHANGED <<job, source, connects, requests, photos, travelling, answer, floods,
                   image, code, outcome, told>>

(* Any other TelegramRetryAfter, and every other error answer.               *)
PhotoRefused ==
    /\ step = "posting"
    /\ NothingPosted
    /\ receipt' = "refused"
    /\ GoFail("delivery_unavailable")
    /\ UNCHANGED <<job, source, connects, requests, photos, travelling, answer, floods,
                   image, outcome, told>>

(* A network error, or an unusable receipt.                                  *)
ReceiptLost ==
    /\ step = "posting"
    /\ receipt' = "lost"
    /\ GoFail("delivery_ambiguous")
    /\ UNCHANGED <<job, source, connects, requests, photos, travelling, answer, floods,
                   image, outcome, told>>

MarkSucceeded ==
    /\ step = "sent"
    /\ outcome' = "succeeded"
    /\ step' = "over"
    /\ UNCHANGED <<job, source, outside, image, code, told>>

(* Any other exception in the body of execute.                               *)
UnexpectedError ==
    /\ step \notin {"posting", "failing", "failed", "over"}
    /\ GoFail("internal_failure")
    /\ UNCHANGED <<job, source, outside, image, outcome, told>>

(* _fail: mark_failed commits, and only then the user is told.               *)
Fail ==
    /\ step = "failing"
    /\ outcome' = code
    /\ step' = "failed"
    /\ UNCHANGED <<job, source, outside, image, code, told>>

(* Mutant of SendRecovery: the user is told before the failure commits.      *)
MutantRecoveryFirst ==
    /\ step \in {"failing", "failed"}
    /\ told' = code
    /\ IF step = "failed" THEN step' = "over" ELSE UNCHANGED step
    /\ UNCHANGED <<job, source, outside, image, code, outcome>>

(* send_recovery, best effort.                                               *)
SendRecovery ==
    /\ step = "failed"
    /\ told' \in {"none", code}
    /\ step' = "over"
    /\ UNCHANGED <<job, source, outside, image, code, outcome>>

(* LostLeaseError, a failed mark_failed, or the death of the process: nobody  *)
(* is told, and nothing is committed.                                        *)
GiveUp ==
    /\ step # "over"
    /\ step' = "over"
    /\ UNCHANGED <<job, source, outside, image, code, outcome, told>>

(* What was on its way arrives after all.                                    *)
Arrives(what) ==
    /\ what \in travelling
    /\ travelling' = travelling \ {what}
    /\ IF what = "request"
       THEN requests' = requests + 1 /\ UNCHANGED photos
       ELSE photos' = photos + 1 /\ UNCHANGED requests
    /\ UNCHANGED <<step, job, source, connects, answer, receipt, floods, image, code,
                   outcome, told>>

Next ==
    \/ ResolveIntent \/ ReadSource \/ MarkSourceReady \/ MarkProviderStarted
    \/ ConnectFails \/ NoKey \/ AskProvider \/ ProviderAnswers \/ AnswerLost
    \/ MarkProviderSucceeded \/ Normalize \/ MarkDelivering
    \/ PostPhoto \/ FloodLimit \/ PhotoReceived \/ PhotoRefused \/ ReceiptLost
    \/ MarkSucceeded \/ UnexpectedError \/ Fail \/ SendRecovery \/ GiveUp
    \/ \E what \in {"request", "photo"} : Arrives(what)

Spec == Init /\ [][Next]_vars

-----------------------------------------------------------------------------
(***************************************************************************)
(* Properties.                                                             *)
(***************************************************************************)

(* What generate's answer, and send_result's, says about the call.            *)
RequestVerdict ==
    CASE answer = "none"     -> "pending"
      [] answer = "unsent"   -> "not_done"
      [] answer = "answered" -> "done"
      [] answer = "lost"     -> "unknown"

PhotoVerdict ==
    CASE receipt = "none"    -> "pending"
      [] receipt = "refused" -> "not_done"
      [] receipt = "receipt" -> "done"
      [] receipt = "lost"    -> "unknown"

RequestCall == INSTANCE AtMostOnce WITH effects <- requests, verdict <- RequestVerdict

PhotoCall == INSTANCE AtMostOnce WITH effects <- photos, verdict <- PhotoVerdict

(* The image request of an attempt is a call made at most once, and so is its *)
(* photo.  A request is repeated only after a failed connection, send_photo    *)
(* only after an answer that nothing was posted; a failure reported as         *)
(* definite is one whose fate is known for good, a receipt means that the      *)
(* photo is in the chat, and what may still arrive is reported as ambiguous.   *)
CallsAtMostOnce == RequestCall!Spec /\ PhotoCall!Spec

(* The bot and the worker read a photo under the same contract: one the bot   *)
(* accepted and that has not changed since is never blamed for a failure.     *)
UnchangedPhotoIsRead ==
    code \in {"source_unavailable", "source_changed"} => source # job.file

(* A photo in the chat, or on its way there, keeps Telegram's bound on the    *)
(* sum of its sides, through both kinds of rescaling and their rounding.      *)
PhotoFits ==
    photos > 0 \/ "photo" \in travelling => image[1] + image[2] <= MaxSideSum

(* Nobody is told of a failure that the database does not have; in particular *)
(* a user whose job succeeded is never told that it failed.                   *)
ToldWhatIsCommitted == told # "none" => outcome = told
===============================================================================
