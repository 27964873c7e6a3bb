------------------------- MODULE ExecutionCallsProofs -------------------------
(***************************************************************************)
(* Proofs about ExecutionCalls, for every set of files, references and       *)
(* images and every limit: the two paid or visible calls of an attempt are    *)
(* made at most once, what the user is told is committed, an unchanged photo   *)
(* is read again, and a photo in the chat fits Telegram's bound.             *)
(***************************************************************************)
EXTENDS ExecutionCalls, TLAPS

-----------------------------------------------------------------------------
(* The arithmetic of normalize_telegram_photo.                               *)

Sizes == (Nat \ {0}) \X (Nat \ {0})

(* A quotient rounded down is not larger than the quotient.                  *)
LEMMA Quotient ==
    ASSUME NEW n \in Nat, NEW d \in Nat \ {0}
    PROVE  n \div d \in Nat /\ d * (n \div d) <= n /\ n < d * (n \div d) + d
  OBVIOUS

(* The parts of a whole M in the ratio of w to h, rounded down, sum to at     *)
(* most M; and a part of zero leaves the other one below M.                   *)
LEMMA Parts ==
    ASSUME NEW w \in Nat \ {0}, NEW h \in Nat \ {0}, NEW M \in Nat \ {0, 1}
    PROVE  LET a == (w * M) \div (w + h)
               b == (h * M) \div (w + h)
           IN  a \in Nat /\ b \in Nat /\ a + b <= M /\ a < M /\ b < M
  <1> DEFINE s == w + h
             a == (w * M) \div s
             b == (h * M) \div s
  <1>1. s \in Nat \ {0} /\ w * M \in Nat /\ h * M \in Nat
    OBVIOUS
  <1>2. a \in Nat /\ s * a <= w * M
    BY <1>1, Quotient
  <1>3. b \in Nat /\ s * b <= h * M
    BY <1>1, Quotient
  <1>4. w * M + h * M = s * M /\ w * M < s * M /\ h * M < s * M
    OBVIOUS
  <1> HIDE DEF a, b, s
  <1>5. s * (a + b) <= s * M
    BY <1>1, <1>2, <1>3, <1>4
  <1>6. a + b <= M
    BY <1>1, <1>2, <1>3, <1>5
  <1>7. a < M /\ b < M
    BY <1>1, <1>2, <1>3, <1>4
  <1> QED BY <1>2, <1>3, <1>6, <1>7 DEF a, b, s
(* Fitted keeps the sum of the sides within the limit.                       *)
LEMMA FittedFits ==
    ASSUME NEW size \in Sizes
    PROVE  LET fitted == Fitted(size)
           IN  fitted \in Sizes /\ fitted[1] + fitted[2] <= MaxSideSum
  <1>1. PICK w \in Nat \ {0}, h \in Nat \ {0} : size = <<w, h>>
    BY DEF Sizes
  <1>2. MaxSideSum \in Nat \ {0, 1}
    BY ConstantsAssumption DEF ConstantsAssumption
  <1>3. CASE w + h > MaxSideSum
    <2> DEFINE a == (w * MaxSideSum) \div (w + h)
               b == (h * MaxSideSum) \div (w + h)
    <2>1. a \in Nat /\ b \in Nat /\ a + b <= MaxSideSum /\ a < MaxSideSum /\ b < MaxSideSum
      BY <1>2, Parts
    <2>2. Fitted(size) = <<AtLeastOne(a), AtLeastOne(b)>>
      BY <1>1, <1>3 DEF Fitted, Resized
    <2> HIDE DEF a, b
    <2>3. /\ AtLeastOne(a) \in Nat \ {0} /\ AtLeastOne(b) \in Nat \ {0}
          /\ AtLeastOne(a) + AtLeastOne(b) <= MaxSideSum
      BY <1>2, <2>1 DEF AtLeastOne
    <2> QED BY <2>2, <2>3 DEF Sizes
  <1>4. CASE ~(w + h > MaxSideSum)
    BY <1>1, <1>2, <1>4 DEF Fitted, Sizes
  <1> QED BY <1>3, <1>4

(* A round of the quality ladder makes no side longer and none vanish.       *)
LEMMA RoundShrinks ==
    ASSUME NEW size \in Sizes
    PROVE  LET smaller == Resized(size, 85, 100)
           IN  /\ smaller \in Sizes
               /\ smaller[1] + smaller[2] <= size[1] + size[2]
  <1>1. ASSUME NEW n \in Nat \ {0}
        PROVE  AtLeastOne((n * 85) \div 100) \in 1..n
    BY DEF AtLeastOne
  <1>2. PICK w \in Nat \ {0}, h \in Nat \ {0} : size = <<w, h>>
    BY DEF Sizes
  <1>3. AtLeastOne((w * 85) \div 100) \in 1..w /\ AtLeastOne((h * 85) \div 100) \in 1..h
    BY <1>1
  <1> QED BY <1>2, <1>3 DEF Resized, Sizes

(* So do up to four rounds.                                                  *)
LEMMA ShrunkShrinks ==
    ASSUME NEW size \in Sizes, NEW rounds \in 0..MaxDownscaleRounds
    PROVE  LET small == Shrunk(size, rounds)
           IN  small \in Sizes /\ small[1] + small[2] <= size[1] + size[2]
  <1> DEFINE r(s) == Resized(s, 85, 100)
             g == [n \in 0..rounds |-> IF n = 0 THEN size
                                       ELSE IF n = 1 THEN r(size)
                                       ELSE IF n = 2 THEN r(r(size))
                                       ELSE IF n = 3 THEN r(r(r(size)))
                                       ELSE r(r(r(r(size))))]
             IsLadder(f) == f = [n \in 0..rounds |->
                                   IF n = 0 THEN size ELSE Resized(f[n - 1], 85, 100)]
             f == CHOOSE f : IsLadder(f)
  <1>1. rounds \in {0, 1, 2, 3, 4}
    BY DEF MaxDownscaleRounds
  <1>2. IsLadder(g)
    <2>1. ASSUME NEW n \in 0..rounds
          PROVE  g[n] = IF n = 0 THEN size ELSE Resized(g[n - 1], 85, 100)
      BY <1>1
    <2>2. g = [n \in 0..rounds |-> g[n]]
      OBVIOUS
    <2> HIDE DEF g
    <2> QED BY <2>1, <2>2
  <1>3. IsLadder(f)
    <2> HIDE DEF IsLadder, g
    <2> QED BY <1>2
  <1>4. Shrunk(size, rounds) = f[rounds]
    BY DEF Shrunk
  <1>5. f[0] = size /\ \A n \in 1..rounds : f[n] = r(f[n - 1])
    <2> HIDE DEF f
    <2> QED BY <1>1, <1>3
  <1> HIDE DEF f, g, IsLadder
  <1>6. \A s \in Sizes : r(s) \in Sizes /\ r(s)[1] + r(s)[2] <= s[1] + s[2]
    BY RoundShrinks
  <1>7. \A s \in Sizes : s[1] \in Nat /\ s[2] \in Nat
    BY DEF Sizes
  <1> HIDE DEF r
  <1> DEFINE Fits(s) == s \in Sizes /\ s[1] + s[2] <= size[1] + size[2]
  <1>8. ASSUME NEW s, Fits(s) PROVE Fits(r(s))
    BY <1>6, <1>7, <1>8
  <1>9. Fits(f[0])
    BY <1>5, <1>7
  <1> HIDE DEF Fits
  <1>10. 1 \in 1..rounds => Fits(f[1]) BY <1>5, <1>8, <1>9
  <1>11. 2 \in 1..rounds => Fits(f[2]) BY <1>1, <1>5, <1>8, <1>10
  <1>12. 3 \in 1..rounds => Fits(f[3]) BY <1>1, <1>5, <1>8, <1>11
  <1>13. 4 \in 1..rounds => Fits(f[4]) BY <1>1, <1>5, <1>8, <1>12
  <1>14. Fits(f[rounds])
    BY <1>1, <1>9, <1>10, <1>11, <1>12, <1>13
  <1> QED BY <1>4, <1>14 DEF Fits

-----------------------------------------------------------------------------
(* The inductive invariant.                                                  *)

Unasked == {"claimed", "resolved", "read", "source_ready", "provider_started"}

Unposted == Unasked \cup {"asking", "generated", "provider_succeeded", "normalized",
                          "delivering"}

(* The request is made once, and what is concluded of it stays true.         *)
RequestInv ==
    /\ requests \in {0, 1}
    /\ "request" \in travelling => requests = 0
    /\ step \in Unasked => requests = 0 /\ "request" \notin travelling
    /\ step \in Unasked \cup {"asking"} => answer = "none"
    /\ answer = "unsent" => requests = 0 /\ "request" \notin travelling
    /\ answer = "answered" => requests = 1

(* The photo likewise; after a flood limit it is posted again.               *)
PhotoInv ==
    /\ photos \in {0, 1}
    /\ "photo" \in travelling => photos = 0
    /\ step \in Unposted => NothingPosted
    /\ step \in Unposted \cup {"posting"} => receipt = "none"
    /\ receipt = "refused" => NothingPosted
    /\ receipt = "receipt" => photos = 1

(* The message follows the commit.                                           *)
ToldInv ==
    /\ told # "none" => step = "over" /\ outcome = told
    /\ step = "failed" => outcome = code

(* The photo is one the bot accepted, under the type in its snapshot.        *)
SourceInv ==
    /\ Readable(job.file, job.snapshot.type)
    /\ Matches(job.file, job.snapshot)
    /\ step \in {"claimed", "resolved"} => code = "none"
    /\ UnchangedPhotoIsRead

(* The image is one that fits from its normalization on.                     *)
SizeInv ==
    /\ step \in {"generated", "provider_succeeded"} => image \in Sizes
    /\ step \in {"normalized", "delivering", "posting", "sent"} =>
          image \in Sizes /\ image[1] + image[2] <= MaxSideSum
    /\ PhotoFits

IInv == TypeOK /\ RequestInv /\ PhotoInv /\ ToldInv /\ SourceInv /\ SizeInv

(* A photo the bot accepts is readable under the type its snapshot keeps.    *)
LEMMA AcceptedIsReadable ==
    ASSUME NEW file \in Files, NEW kind \in {"photo", "document"}, NEW type \in Signatures,
           AcceptedByBot(file, kind, type)
    PROVE  Readable(file, Snapshot(file).type) /\ Matches(file, Snapshot(file))
  BY DEF AcceptedByBot, Readable, Snapshot, Matches

LEMMA InitInv == Init => IInv
  <1> SUFFICES ASSUME Init PROVE IInv
    OBVIOUS
  <1>1. PICK file \in Files, kind \in {"photo", "document"}, type \in Signatures,
             reference \in References \cup {NoReference} :
             /\ AcceptedByBot(file, kind, type)
             /\ job = [file |-> file, snapshot |-> Snapshot(file), reference |-> reference]
    BY DEF Init
  <1>2. TypeOK
    BY <1>1 DEF Init, TypeOK, Steps, Codes, NoImage
  <1>3. SourceInv
    BY <1>1, AcceptedIsReadable DEF Init, SourceInv, UnchangedPhotoIsRead
  <1>4. RequestInv /\ PhotoInv /\ ToldInv /\ SizeInv
    BY DEF Init, RequestInv, PhotoInv, ToldInv, SizeInv, PhotoFits, NothingPosted, Unasked,
           Unposted
  <1> QED BY <1>2, <1>3, <1>4 DEF IInv

(* What generate concludes is one of its four outcomes.                      *)
LEMMA VerdictType ==
    ASSUME NEW r \in Responses
    PROVE  ProviderVerdict(r) \in {"none", "provider_unavailable", "provider_rejected",
                                   "provider_ambiguous", "provider_invalid_response"}
  BY DEF ProviderVerdict

(* The image in hand, by step.                                               *)
LEMMA ImageStep ==
    ASSUME IInv, Next
    PROVE  /\ image' \in Nat \X Nat
           /\ SizeInv'
  <1>1. \A s \in Sizes : s \in Nat \X Nat BY DEF Sizes
  <1>2. CASE ProviderAnswers
    <2>1. Images \subseteq Sizes
      BY ConstantsAssumption DEF ConstantsAssumption, Sizes
    <2>2. NothingPosted' /\ step' \in {"generated", "failing"}
      BY <1>2 DEF IInv, PhotoInv, ProviderAnswers, NothingPosted, Unposted, GoFail
    <2>3. step' = "generated" => image' \in Sizes
      BY <1>2, <2>1 DEF ProviderAnswers, GoFail
    <2>4. image' \in Nat \X Nat
      BY <1>1, <1>2, <2>1 DEF ProviderAnswers, IInv, TypeOK
    <2> QED BY <2>2, <2>3, <2>4 DEF SizeInv, PhotoFits, NothingPosted
  <1>3. CASE Normalize
    <2>1. NothingPosted' /\ image \in Sizes
      BY <1>3 DEF IInv, PhotoInv, SizeInv, Normalize, NothingPosted, Unposted, outside
    <2>2. CASE step' = "normalized"
      <3>1. PICK rounds \in 0..MaxDownscaleRounds : image' = Shrunk(Fitted(image), rounds)
        BY <1>3, <2>2 DEF Normalize, GoFail
      <3>2. Fitted(image) \in Sizes /\ Fitted(image)[1] + Fitted(image)[2] <= MaxSideSum
        BY <2>1, FittedFits
      <3>3. image' \in Sizes
            /\ image'[1] + image'[2] <= Fitted(image)[1] + Fitted(image)[2]
        BY <3>1, <3>2, ShrunkShrinks
      <3>4. \A s \in Sizes : s[1] \in Nat /\ s[2] \in Nat
        BY DEF Sizes
      <3>5. image'[1] + image'[2] <= MaxSideSum
        BY <3>2, <3>3, <3>4, ConstantsAssumption DEF ConstantsAssumption
      <3> QED BY <1>1, <2>1, <2>2, <3>3, <3>5 DEF SizeInv, PhotoFits, NothingPosted
    <2>3. CASE step' # "normalized"
      BY <1>1, <1>3, <2>1, <2>3 DEF Normalize, GoFail, SizeInv, PhotoFits, NothingPosted
    <2> QED BY <2>2, <2>3
  <1>4. CASE PostPhoto
    BY <1>4 DEF IInv, TypeOK, SizeInv, PhotoFits, PostPhoto
  <1>5. ASSUME NEW what \in {"request", "photo"}, Arrives(what)
        PROVE  image' \in Nat \X Nat /\ SizeInv'
    BY <1>5 DEF IInv, TypeOK, SizeInv, PhotoFits, Arrives
  <1>6. CASE \/ ResolveIntent \/ ReadSource \/ MarkSourceReady \/ MarkProviderStarted
             \/ ConnectFails \/ NoKey \/ AskProvider \/ AnswerLost
             \/ MarkProviderSucceeded \/ MarkDelivering
             \/ FloodLimit \/ PhotoReceived \/ PhotoRefused \/ ReceiptLost
             \/ MarkSucceeded \/ UnexpectedError \/ Fail \/ SendRecovery \/ GiveUp
    <2>1. /\ image' = image /\ photos' = photos
          /\ "photo" \in travelling' <=> "photo" \in travelling
      BY <1>6 DEF ResolveIntent, ReadSource, MarkSourceReady, MarkProviderStarted,
         ConnectFails, NoKey, AskProvider, AnswerLost, MarkProviderSucceeded,
         MarkDelivering, FloodLimit, PhotoReceived, PhotoRefused, ReceiptLost,
         MarkSucceeded, UnexpectedError, Fail, SendRecovery, GiveUp, outside
    <2>2. /\ step' \in {"generated", "provider_succeeded"} =>
                step \in {"generated", "provider_succeeded"}
          /\ step' \in {"normalized", "delivering", "posting", "sent"} =>
                step \in {"normalized", "delivering", "posting", "sent"}
      BY <1>6 DEF ResolveIntent, ReadSource, MarkSourceReady, MarkProviderStarted,
         ConnectFails, NoKey, AskProvider, AnswerLost, MarkProviderSucceeded,
         MarkDelivering, FloodLimit, PhotoReceived, PhotoRefused, ReceiptLost,
         MarkSucceeded, UnexpectedError, Fail, SendRecovery, GiveUp, GoFail
    <2> QED BY <2>1, <2>2 DEF IInv, TypeOK, SizeInv, PhotoFits
  <1> QED BY <1>2, <1>3, <1>4, <1>5, <1>6 DEF Next

(* The types, action by action.                                              *)
LEMMA TypeStep ==
    ASSUME IInv, [Next]_vars
    PROVE  TypeOK'
  <1>t. TypeOK BY DEF IInv
  <1>1. CASE ResolveIntent
    BY <1>t, <1>1 DEF TypeOK, ResolveIntent, GoFail, outside, Steps, Codes
  <1>2. CASE ReadSource
    BY <1>t, <1>2 DEF TypeOK, ReadSource, GoFail, outside, Steps, Codes
  <1>3. CASE MarkSourceReady \/ MarkProviderStarted \/ MarkProviderSucceeded \/ MarkDelivering
    BY <1>t, <1>3 DEF TypeOK, MarkSourceReady, MarkProviderStarted, MarkProviderSucceeded,
                      MarkDelivering, outside, Steps
  <1>4. CASE ConnectFails
    BY <1>t, <1>4 DEF TypeOK, ConnectFails, GoFail, Steps, Codes
  <1>5. CASE NoKey \/ AnswerLost
    <2>1. /\ step' \in Steps /\ code' \in Codes /\ answer' \in {"unsent", "lost"}
          /\ UNCHANGED <<job, source, connects, requests, photos, travelling, receipt, floods,
                         image, outcome, told>>
      BY <1>5 DEF NoKey, AnswerLost, GoFail, Steps, Codes
    <2> QED BY <1>t, <2>1 DEF TypeOK
  <1>a. CASE AskProvider
    <2>1. /\ step' \in Steps
          /\ requests' \in {requests, requests + 1}
          /\ travelling' \in {travelling, travelling \cup {"request"}}
          /\ UNCHANGED <<job, source, connects, photos, answer, receipt, floods, image, code,
                         outcome, told>>
      BY <1>a DEF AskProvider, Steps
    <2> QED BY <1>t, <2>1 DEF TypeOK
  <1>p. CASE PostPhoto
    <2>1. /\ step' \in Steps
          /\ photos' \in {photos, photos + 1}
          /\ travelling' \in {travelling, travelling \cup {"photo"}}
          /\ UNCHANGED <<job, source, connects, requests, answer, receipt, floods, image, code,
                         outcome, told>>
      BY <1>p DEF PostPhoto, Steps
    <2> QED BY <1>t, <2>1 DEF TypeOK
  <1>6. CASE ProviderAnswers
    <2>1. image' \in Nat \X Nat
      BY <1>6, ImageStep DEF Next
    <2> QED BY <1>t, <1>6, <2>1, VerdictType DEF TypeOK, ProviderAnswers, GoFail, Steps, Codes
  <1>7. CASE Normalize
    <2>1. image' \in Nat \X Nat
      BY <1>7, ImageStep DEF Next
    <2> QED BY <1>t, <1>7, <2>1 DEF TypeOK, Normalize, GoFail, outside, Steps, Codes
  <1>8. CASE FloodLimit \/ PhotoReceived \/ PhotoRefused \/ ReceiptLost
    <2>1. /\ step' \in Steps /\ code' \in Codes \cup {code}
          /\ receipt' \in {receipt, "receipt", "refused", "lost"} /\ floods' \in {floods, 1}
          /\ UNCHANGED <<job, source, connects, requests, photos, travelling, answer, image,
                         outcome, told>>
      BY <1>8 DEF FloodLimit, PhotoReceived, PhotoRefused, ReceiptLost, GoFail, Steps, Codes
    <2> QED BY <1>t, <2>1 DEF TypeOK
  <1>9. CASE MarkSucceeded \/ GiveUp
    BY <1>t, <1>9 DEF TypeOK, MarkSucceeded, GiveUp, outside, Steps
  <1>u. CASE UnexpectedError
    BY <1>t, <1>u DEF TypeOK, UnexpectedError, GoFail, outside, Steps, Codes
  <1>f. CASE Fail
    BY <1>t, <1>f DEF TypeOK, Fail, outside, Steps
  <1>s. CASE SendRecovery
    BY <1>t, <1>s DEF TypeOK, SendRecovery, outside, Steps, Codes
  <1>10. ASSUME NEW what \in {"request", "photo"}, Arrives(what) PROVE TypeOK'
    BY <1>t, <1>10 DEF TypeOK, Arrives
  <1>11. CASE UNCHANGED vars
    BY <1>t, <1>11 DEF TypeOK, vars
  <1> QED
    BY <1>1, <1>2, <1>3, <1>4, <1>5, <1>6, <1>7, <1>8, <1>9, <1>10, <1>11, <1>a, <1>p,
       <1>u, <1>f, <1>s DEF Next

(* A request leaves in one step only, from provider_started, where none has.  *)
LEMMA RequestStep ==
    ASSUME IInv, [Next]_vars
    PROVE  RequestInv'
  <1>t. RequestInv BY DEF IInv
  <1> USE DEF RequestInv, Unasked
  <1>1. CASE ResolveIntent \/ ReadSource \/ MarkSourceReady \/ MarkProviderStarted
    BY <1>t, <1>1 DEF ResolveIntent, ReadSource, MarkSourceReady, MarkProviderStarted, GoFail,
                      outside
  <1>2. CASE ConnectFails \/ NoKey
    BY <1>t, <1>2 DEF ConnectFails, NoKey, GoFail
  <1>3. CASE AskProvider
    BY <1>t, <1>3 DEF AskProvider
  <1>4. CASE AnswerLost
    BY <1>t, <1>4 DEF AnswerLost, GoFail
  <1>5. CASE ProviderAnswers
    BY <1>t, <1>5 DEF ProviderAnswers, GoFail
  <1>6. CASE PostPhoto \/ FloodLimit \/ PhotoReceived \/ PhotoRefused \/ ReceiptLost
    BY <1>t, <1>6 DEF PostPhoto, FloodLimit, PhotoReceived, PhotoRefused, ReceiptLost, GoFail
  <1>7. CASE MarkProviderSucceeded \/ Normalize \/ MarkDelivering
             \/ MarkSucceeded \/ UnexpectedError \/ Fail \/ SendRecovery \/ GiveUp
    BY <1>t, <1>7 DEF MarkProviderSucceeded, Normalize, MarkDelivering, MarkSucceeded,
                      UnexpectedError, Fail, SendRecovery, GiveUp, GoFail, outside
  <1>8. ASSUME NEW what \in {"request", "photo"}, Arrives(what) PROVE RequestInv'
    BY <1>t, <1>8 DEF Arrives
  <1>9. CASE UNCHANGED vars
    BY <1>t, <1>9 DEF vars
  <1> QED BY <1>1, <1>2, <1>3, <1>4, <1>5, <1>6, <1>7, <1>8, <1>9 DEF Next

(* A photo is posted when none was, also after a flood limit.                *)
LEMMA PhotoStep ==
    ASSUME IInv, [Next]_vars
    PROVE  PhotoInv'
  <1>t. PhotoInv BY DEF IInv
  <1> USE DEF PhotoInv, Unposted, Unasked, NothingPosted
  <1>1. CASE ResolveIntent \/ ReadSource \/ MarkSourceReady \/ MarkProviderStarted
    BY <1>t, <1>1 DEF ResolveIntent, ReadSource, MarkSourceReady, MarkProviderStarted, GoFail,
                      outside
  <1>2. CASE ConnectFails \/ NoKey \/ AskProvider \/ AnswerLost \/ ProviderAnswers
    BY <1>t, <1>2 DEF ConnectFails, NoKey, AskProvider, AnswerLost, ProviderAnswers, GoFail
  <1>3. CASE MarkProviderSucceeded \/ Normalize \/ MarkDelivering
    BY <1>t, <1>3 DEF MarkProviderSucceeded, Normalize, MarkDelivering, GoFail, outside
  <1>4. CASE PostPhoto
    BY <1>t, <1>4 DEF PostPhoto
  <1>5. CASE FloodLimit \/ PhotoReceived \/ PhotoRefused \/ ReceiptLost
    BY <1>t, <1>5 DEF FloodLimit, PhotoReceived, PhotoRefused, ReceiptLost, GoFail
  <1>6. CASE MarkSucceeded \/ UnexpectedError \/ Fail \/ SendRecovery \/ GiveUp
    BY <1>t, <1>6 DEF MarkSucceeded, UnexpectedError, Fail, SendRecovery, GiveUp, GoFail, outside
  <1>7. ASSUME NEW what \in {"request", "photo"}, Arrives(what) PROVE PhotoInv'
    BY <1>t, <1>7 DEF Arrives
  <1>8. CASE UNCHANGED vars
    BY <1>t, <1>8 DEF vars
  <1> QED BY <1>1, <1>2, <1>3, <1>4, <1>5, <1>6, <1>7, <1>8 DEF Next

(* Only Fail and MarkSucceeded commit, and only SendRecovery tells.          *)
LEMMA ToldStep ==
    ASSUME IInv, [Next]_vars
    PROVE  ToldInv'
  <1>t. ToldInv BY DEF IInv
  <1> USE DEF ToldInv
  <1>1. CASE ResolveIntent \/ ReadSource \/ MarkSourceReady \/ MarkProviderStarted
             \/ ConnectFails \/ NoKey \/ AskProvider \/ ProviderAnswers \/ AnswerLost
    BY <1>t, <1>1 DEF ResolveIntent, ReadSource, MarkSourceReady, MarkProviderStarted,
       ConnectFails, NoKey, AskProvider, ProviderAnswers, AnswerLost, GoFail
  <1>2. CASE MarkProviderSucceeded \/ Normalize \/ MarkDelivering \/ PostPhoto
             \/ FloodLimit \/ PhotoReceived \/ PhotoRefused \/ ReceiptLost \/ MarkSucceeded
             \/ UnexpectedError
    BY <1>t, <1>2 DEF MarkProviderSucceeded, Normalize, MarkDelivering, PostPhoto, FloodLimit,
       PhotoReceived, PhotoRefused, ReceiptLost, MarkSucceeded, UnexpectedError, GoFail
  <1>3. CASE Fail \/ SendRecovery \/ GiveUp
    BY <1>t, <1>3 DEF Fail, SendRecovery, GiveUp
  <1>4. ASSUME NEW what \in {"request", "photo"}, Arrives(what) PROVE ToldInv'
    BY <1>t, <1>4 DEF Arrives
  <1>5. CASE UNCHANGED vars
    BY <1>t, <1>5 DEF vars
  <1> QED BY <1>1, <1>2, <1>3, <1>4, <1>5 DEF Next

(* The worker blames the photo in ReadSource only, when it is another one.   *)
LEMMA SourceStep ==
    ASSUME IInv, [Next]_vars
    PROVE  SourceInv'
  <1>t. SourceInv BY DEF IInv
  <1>j. job' = job
    BY DEF Next, vars, ResolveIntent, ReadSource, MarkSourceReady, MarkProviderStarted,
       ConnectFails, NoKey, AskProvider, ProviderAnswers, AnswerLost, MarkProviderSucceeded,
       Normalize, MarkDelivering, PostPhoto, FloodLimit, PhotoReceived, PhotoRefused,
       ReceiptLost, MarkSucceeded, UnexpectedError, Fail, SendRecovery, GiveUp, Arrives
  <1>1. CASE ReadSource
    BY <1>t, <1>j, <1>1 DEF SourceInv, UnchangedPhotoIsRead, ReadSource, GoFail
  <1>2. CASE ProviderAnswers
    BY <1>t, <1>j, <1>2, VerdictType DEF SourceInv, UnchangedPhotoIsRead, ProviderAnswers, GoFail
  <1>3. CASE \/ ResolveIntent \/ MarkSourceReady \/ MarkProviderStarted
             \/ ConnectFails \/ NoKey \/ AskProvider \/ AnswerLost \/ MarkProviderSucceeded
             \/ Normalize \/ MarkDelivering \/ PostPhoto \/ FloodLimit \/ PhotoReceived
             \/ PhotoRefused \/ ReceiptLost \/ MarkSucceeded \/ UnexpectedError \/ Fail
             \/ SendRecovery \/ GiveUp \/ UNCHANGED vars
             \/ \E what \in {"request", "photo"} : Arrives(what)
    <2>1. /\ source' = source
          /\ code' = code \/ code' \notin {"source_unavailable", "source_changed"}
          /\ step' \in {"claimed", "resolved"} =>
                step \in {"claimed", "resolved"} /\ code' = code
      BY <1>3 DEF ResolveIntent, MarkSourceReady, MarkProviderStarted, ConnectFails, NoKey,
         AskProvider, AnswerLost, MarkProviderSucceeded, Normalize, MarkDelivering, PostPhoto,
         FloodLimit, PhotoReceived, PhotoRefused, ReceiptLost, MarkSucceeded, UnexpectedError,
         Fail, SendRecovery, GiveUp, Arrives, GoFail, vars
    <2> QED BY <1>t, <1>j, <2>1 DEF SourceInv, UnchangedPhotoIsRead
  <1> QED BY <1>1, <1>2, <1>3 DEF Next

THEOREM Invariance == Spec => []IInv
  <1>1. IInv /\ [Next]_vars => IInv'
    <2> SUFFICES ASSUME IInv, [Next]_vars PROVE IInv'
      OBVIOUS
    <2>1. SizeInv'
      BY ImageStep DEF IInv, SizeInv, PhotoFits, vars
    <2> QED BY <2>1, TypeStep, RequestStep, PhotoStep, ToldStep, SourceStep DEF IInv
  <1> QED BY <1>1, InitInv, PTL DEF Spec

-----------------------------------------------------------------------------
(* The two calls.                                                            *)

(* The values of the mappings.                                               *)
LEMMA RequestVerdicts ==
    /\ answer = "none" => RequestVerdict = "pending"
    /\ answer = "unsent" => RequestVerdict = "not_done"
    /\ answer = "answered" => RequestVerdict = "done"
    /\ answer = "lost" => RequestVerdict = "unknown"
    /\ answer' = "none" => RequestVerdict' = "pending"
    /\ answer' = "unsent" => RequestVerdict' = "not_done"
    /\ answer' = "answered" => RequestVerdict' = "done"
    /\ answer' = "lost" => RequestVerdict' = "unknown"
    /\ answer' = answer => RequestVerdict' = RequestVerdict
  BY Zenon DEF RequestVerdict

LEMMA PhotoVerdicts ==
    /\ receipt = "none" => PhotoVerdict = "pending"
    /\ receipt = "refused" => PhotoVerdict = "not_done"
    /\ receipt = "receipt" => PhotoVerdict = "done"
    /\ receipt = "lost" => PhotoVerdict = "unknown"
    /\ receipt' = "none" => PhotoVerdict' = "pending"
    /\ receipt' = "refused" => PhotoVerdict' = "not_done"
    /\ receipt' = "receipt" => PhotoVerdict' = "done"
    /\ receipt' = "lost" => PhotoVerdict' = "unknown"
    /\ receipt' = receipt => PhotoVerdict' = PhotoVerdict
  BY Zenon DEF PhotoVerdict

(* A request that reaches the provider is the first, and one generate has    *)
(* not excluded; an answer concludes what it must.                           *)
LEMMA RequestCallStep ==
    ASSUME IInv, [Next]_vars
    PROVE  [RequestCall!Next]_(RequestCall!vars)
  <1>t. RequestInv /\ answer \in {"none", "unsent", "answered", "lost"}
    BY DEF IInv, TypeOK
  <1> USE DEF RequestCall!Next, RequestCall!vars, RequestCall!Happen, RequestCall!Conclude
  <1>1. CASE UNCHANGED <<requests, answer>>
    BY <1>1, RequestVerdicts
  <1>2. CASE requests' = requests + 1 /\ answer' = answer
    <2>1. requests = 0 /\ answer \in {"none", "lost"}
      <3>1. CASE AskProvider
        BY <1>t, <3>1 DEF AskProvider, RequestInv, Unasked
      <3>2. CASE Arrives("request")
        BY <1>t, <3>2 DEF Arrives, RequestInv
      <3>3. requests' = requests \/ AskProvider \/ Arrives("request")
        BY DEF Next, vars, ResolveIntent, ReadSource, MarkSourceReady, MarkProviderStarted,
           ConnectFails, NoKey, ProviderAnswers, AnswerLost, MarkProviderSucceeded,
           Normalize, MarkDelivering, PostPhoto, FloodLimit, PhotoReceived, PhotoRefused,
           ReceiptLost, MarkSucceeded, UnexpectedError, Fail, SendRecovery, GiveUp, Arrives,
           outside
      <3> QED BY <1>t, <1>2, <3>1, <3>2, <3>3 DEF RequestInv
    <2> QED BY <1>2, <2>1, RequestVerdicts
  <1>3. CASE ConnectFails \/ NoKey
    BY <1>t, <1>1, <1>3, RequestVerdicts DEF ConnectFails, NoKey, RequestInv, Unasked
  <1>4. CASE ProviderAnswers \/ AnswerLost
    BY <1>t, <1>4, RequestVerdicts DEF ProviderAnswers, AnswerLost, RequestInv, Unasked
  <1>5. \/ UNCHANGED <<requests, answer>>
        \/ requests' = requests + 1 /\ answer' = answer
        \/ ConnectFails \/ NoKey \/ ProviderAnswers \/ AnswerLost
    BY DEF Next, vars, ResolveIntent, ReadSource, MarkSourceReady, MarkProviderStarted,
       AskProvider, MarkProviderSucceeded, Normalize, MarkDelivering, PostPhoto, FloodLimit,
       PhotoReceived, PhotoRefused, ReceiptLost, MarkSucceeded, UnexpectedError, Fail,
       SendRecovery, GiveUp, Arrives, outside
  <1> QED BY <1>1, <1>2, <1>3, <1>4, <1>5

(* The same of the photo.                                                    *)
LEMMA PhotoCallStep ==
    ASSUME IInv, [Next]_vars
    PROVE  [PhotoCall!Next]_(PhotoCall!vars)
  <1>t. PhotoInv /\ receipt \in {"none", "receipt", "refused", "lost"}
    BY DEF IInv, TypeOK
  <1> USE DEF PhotoCall!Next, PhotoCall!vars, PhotoCall!Happen, PhotoCall!Conclude
  <1>1. CASE UNCHANGED <<photos, receipt>>
    BY <1>1, PhotoVerdicts
  <1>2. CASE photos' = photos + 1 /\ receipt' = receipt
    <2>1. photos = 0 /\ receipt \in {"none", "lost"}
      <3>1. CASE PostPhoto
        BY <1>t, <3>1 DEF PostPhoto, PhotoInv, Unposted, NothingPosted
      <3>2. CASE Arrives("photo")
        BY <1>t, <3>2 DEF Arrives, PhotoInv, NothingPosted
      <3>3. photos' = photos \/ PostPhoto \/ Arrives("photo")
        BY DEF Next, vars, ResolveIntent, ReadSource, MarkSourceReady, MarkProviderStarted,
           ConnectFails, NoKey, AskProvider, ProviderAnswers, AnswerLost,
           MarkProviderSucceeded, Normalize, MarkDelivering, FloodLimit, PhotoReceived,
           PhotoRefused, ReceiptLost, MarkSucceeded, UnexpectedError, Fail, SendRecovery,
           GiveUp, Arrives, outside
      <3> QED BY <1>t, <1>2, <3>1, <3>2, <3>3 DEF PhotoInv
    <2> QED BY <1>2, <2>1, PhotoVerdicts
  <1>3. CASE PhotoReceived \/ PhotoRefused \/ ReceiptLost
    BY <1>t, <1>3, PhotoVerdicts DEF PhotoReceived, PhotoRefused, ReceiptLost, PhotoInv,
       Unposted, NothingPosted
  <1>4. \/ UNCHANGED <<photos, receipt>>
        \/ photos' = photos + 1 /\ receipt' = receipt
        \/ PhotoReceived \/ PhotoRefused \/ ReceiptLost
    BY DEF Next, vars, ResolveIntent, ReadSource, MarkSourceReady, MarkProviderStarted,
       ConnectFails, NoKey, AskProvider, ProviderAnswers, AnswerLost, MarkProviderSucceeded,
       Normalize, MarkDelivering, PostPhoto, FloodLimit, MarkSucceeded, UnexpectedError, Fail,
       SendRecovery, GiveUp, Arrives, outside
  <1> QED BY <1>1, <1>2, <1>3, <1>4

-----------------------------------------------------------------------------
(* The theorems.                                                             *)

THEOREM TypeCorrect == Spec => []TypeOK
  BY Invariance, PTL DEF IInv

(* Whatever is lost, late or refused, an attempt asks the provider and posts  *)
(* the photo at most once each, and what it concludes stays true.            *)
THEOREM CallsOnce == Spec => CallsAtMostOnce
  <1>1. Init => RequestCall!Init /\ PhotoCall!Init
    BY RequestVerdicts, PhotoVerdicts DEF Init, RequestCall!Init, PhotoCall!Init
  <1>2. IInv /\ [Next]_vars => [RequestCall!Next]_(RequestCall!vars)
    BY RequestCallStep
  <1>3. IInv /\ [Next]_vars => [PhotoCall!Next]_(PhotoCall!vars)
    BY PhotoCallStep
  <1> QED BY <1>1, <1>2, <1>3, Invariance, PTL
          DEF Spec, CallsAtMostOnce, RequestCall!Spec, PhotoCall!Spec

(* The bot's and the worker's contract for a photo agree, under any limits.   *)
THEOREM UnchangedIsRead == Spec => []UnchangedPhotoIsRead
  BY Invariance, PTL DEF IInv, SourceInv

(* Telegram's bound on a photo is kept for every size of image and every      *)
(* bound of at least two.                                                    *)
THEOREM PhotosFit == Spec => []PhotoFits
  BY Invariance, PTL DEF IInv, SizeInv

(* The user is told of a failure only after its commit.                      *)
THEOREM ToldIsCommitted == Spec => []ToldWhatIsCommitted
  <1>1. IInv => ToldWhatIsCommitted
    BY DEF IInv, ToldInv, ToldWhatIsCommitted
  <1> QED BY <1>1, Invariance, PTL
===============================================================================
