-------------------------------- MODULE MiniApp --------------------------------
(***************************************************************************)
(* The Mini App of one user: the sessions that services/telegram_auth.py      *)
(* issues for launches of the app, the active photo that bot messages set      *)
(* (services/active_source.py, handle_media_message), and the endpoints of     *)
(* api/routes/palette.py that show it, forget it and read it.  Every exchange  *)
(* and every message records the user (Audience) before it is handled.         *)
(*                                                                         *)
(* Requests and messages are handled concurrently; each step between two      *)
(* awaits that another handler can tell is an action.  A token is a number:    *)
(* the code draws 32 random bytes, so no two are equal and none is guessed.    *)
(* The signature of a launch is out of scope: every launch here is one that    *)
(* Telegram signed.                                                          *)
(***************************************************************************)
EXTENDS Audience, FiniteSetsExt

CONSTANTS
    Launches,     \* launch data Telegram signed for this user
    AuthDate,     \* AuthDate[l]: when
    MaxAge,       \* auth_max_age_seconds
    FutureSkew,   \* auth_future_skew_seconds
    TTL,          \* session_ttl_seconds
    Exchanges,    \* exchange requests in flight at once
    Previews,     \* preview requests in flight at once
    Messages,     \* message ids of the photos the user sends, in order
    FileOf,       \* FileOf[m]: the telegram_file_id of message m
    NoLaunch, NoSource,
    MaxTokens     \* bound on the tokens issued

ASSUME ConstantsAssumption ==
    /\ AuthDate \in [Launches -> Nat]
    /\ {MaxAge, FutureSkew, MaxTokens} \subseteq Nat
    /\ TTL \in Nat \ {0}
    /\ Messages \subseteq Nat
    /\ NoLaunch \notin Launches
    /\ NoSource \notin Messages
    /\ IsFiniteSet(Messages)

Files == {FileOf[m] : m \in Messages}

VARIABLES
    sessions,   \* mini_app_sessions
    issued,     \* tokens issued so far
    exchange,   \* exchange requests
    cookie,     \* the session cookie of the user's web view; 0 is none
    message,    \* how far the bot is with each message
    stamp,      \* when the bot read the clock for it
    source,     \* active_sources: the message of the user's row
    preview,    \* requests for the image of the active source
    lost,       \* files Telegram no longer serves to this bot
    considered, \* messages that asked for the row since it was last deleted
    failed      \* history: the files of which a preview failed

sessionVars == <<sessions, issued, exchange, cookie>>
sourceVars == <<message, stamp, source, preview, lost, considered, failed>>
vars == <<now, audienceVars, faults, sessionVars, sourceVars>>

SessionRow == [token : 1..MaxTokens, launch : Launches, expires : Nat]

Exchange == [step : {"idle", "unseen", "answered"}, launch : Launches \cup {NoLaunch},
             token : 0..MaxTokens, expires : Nat]

NoExchange == [step |-> "idle", launch |-> NoLaunch, token |-> 0, expires |-> 0]

Preview == [step : {"idle", "downloading", "failed"}, message : Messages \cup {NoSource}]

NoPreview == [step |-> "idle", message |-> NoSource]

(* "set": the row was asked for it; "settled": it was turned down before.     *)
Progress == {"unsent", "arrived", "received", "accepted", "set", "settled"}

TypeOK ==
    /\ AudienceTypeOK
    /\ sessions \subseteq SessionRow
    /\ issued \in 0..MaxTokens
    /\ exchange \in [Exchanges -> Exchange]
    /\ cookie \in 0..MaxTokens
    /\ message \in [Messages -> Progress]
    /\ stamp \in [Messages -> 0..MaxTime]
    /\ source \in Messages \cup {NoSource}
    /\ preview \in [Previews -> Preview]
    /\ lost \subseteq Files
    /\ considered \subseteq Messages
    /\ failed \subseteq Files

Init ==
    /\ AudienceInit
    /\ sessions = {}
    /\ issued = 0
    /\ exchange = [e \in Exchanges |-> NoExchange]
    /\ cookie = 0
    /\ message = [m \in Messages |-> "unsent"]
    /\ stamp = [m \in Messages |-> 0]
    /\ source = NoSource
    /\ preview = [p \in Previews |-> NoPreview]
    /\ lost = {}
    /\ considered = {}
    /\ failed = {}

-----------------------------------------------------------------------------
(* Sessions.                                                                 *)

(* validate_init_data: the launch is neither too old nor from the future.     *)
Fresh(l) == now - AuthDate[l] <= MaxAge /\ now - AuthDate[l] >= -FutureSkew

(* Mutant of Stored: no unique constraint on the launch.                     *)
MutantStoredAgain(l, token, expires) ==
    sessions \cup {[token |-> token, launch |-> l, expires |-> expires]}

(* The row of a launch, inserted or rotated: init_data_sha256 is unique.      *)
Stored(l, token, expires) ==
    {row \in sessions : row.launch # l}
        \cup {[token |-> token, launch |-> l, expires |-> expires]}

(* exchange_init_data up to its SELECT FOR UPDATE.  A row it finds is locked  *)
(* and rotated in the same transaction, which also records the user; if it     *)
(* finds none, another exchange of the same launch may still be first.        *)
BeginExchange(e, l) ==
    /\ exchange[e].step = "idle"
    /\ Fresh(l)
    /\ issued < MaxTokens
    /\ issued' = issued + 1
    /\ LET seen == \E row \in sessions : row.launch = l
           begun == [step |-> "unseen", launch |-> l, token |-> issued', expires |-> now + TTL]
       IN  IF seen /\ SeenInOrder(Upserted(now))
           THEN /\ exchange' = [exchange EXCEPT ![e] = [begun EXCEPT !.step = "answered"]]
                /\ sessions' = Stored(l, issued', now + TTL)
                /\ user' = Upserted(now)
           ELSE /\ exchange' = [exchange EXCEPT ![e] = IF seen THEN NoExchange ELSE begun]
                /\ UNCHANGED <<sessions, user>>
    /\ UNCHANGED <<now, report, marked, sent, unmarked, figure, faults, cookie, sourceVars>>

(* The insert succeeds, or the unique index refuses it: then the transaction  *)
(* is rolled back and the row of the winner is rotated.  The user is recorded  *)
(* with a clock read after the exchange began, and all is committed; or the    *)
(* CHECK on the user's row fails, and nothing is.                            *)
InsertOrRotate(e) ==
    /\ exchange[e].step = "unseen"
    /\ \E at \in (exchange[e].expires - TTL)..now :
          IF SeenInOrder(Upserted(at))
          THEN /\ user' = Upserted(at)
               /\ sessions' = Stored(exchange[e].launch, exchange[e].token, exchange[e].expires)
               /\ exchange' = [exchange EXCEPT ![e] = [@ EXCEPT !.step = "answered"]]
          ELSE /\ exchange' = [exchange EXCEPT ![e] = NoExchange]
               /\ UNCHANGED <<user, sessions>>
    /\ UNCHANGED <<now, report, marked, sent, unmarked, figure, faults, issued, cookie, sourceVars>>

(* The response sets the cookie; responses may overtake one another.         *)
ReceiveCookie(e) ==
    /\ exchange[e].step = "answered"
    /\ cookie' = exchange[e].token
    /\ exchange' = [exchange EXCEPT ![e] = NoExchange]
    /\ UNCHANGED <<now, audienceVars, faults, sessions, issued, sourceVars>>

(* The response, or the connection before it, is lost.                       *)
LoseResponse(e) ==
    /\ exchange[e].step = "answered"
    /\ exchange' = [exchange EXCEPT ![e] = NoExchange]
    /\ UNCHANGED <<now, audienceVars, faults, sessions, issued, cookie, sourceVars>>

(* require_mini_app_session.                                                 *)
Accepts(token) == \E row \in sessions : row.token = token /\ row.expires > now

Tick ==
    /\ now < MaxTime
    /\ now' = now + 1
    /\ UNCHANGED <<audienceVars, faults, sessionVars, sourceVars>>

-----------------------------------------------------------------------------
(* The active source.                                                        *)

(* Telegram numbers the messages of a chat in the order they were sent, and   *)
(* hands them to handlers that run concurrently.                             *)
SendPhoto(m) ==
    /\ message[m] = "unsent"
    /\ \A n \in Messages : n < m => message[n] # "unsent"
    /\ message' = [message EXCEPT ![m] = "arrived"]
    /\ stamp' = [stamp EXCEPT ![m] = now]
    /\ UNCHANGED <<now, audienceVars, faults, sessionVars, source, preview, lost, considered,
                   failed>>

(* UserTrackingMiddleware: without the row, the message is not handled.        *)
RecordSender(m) ==
    /\ message[m] = "arrived"
    /\ IF SeenInOrder(Upserted(stamp[m]))
       THEN user' = Upserted(stamp[m]) /\ message' = [message EXCEPT ![m] = "received"]
       ELSE UNCHANGED user /\ message' = [message EXCEPT ![m] = "settled"]
    /\ stamp' = [stamp EXCEPT ![m] = 0]
    /\ UNCHANGED <<now, report, marked, sent, unmarked, figure, faults, sessionVars, source,
                   preview, lost, considered, failed>>

(* read_supported_media downloads the file and accepts it, or does not and    *)
(* the user is told why.                                                     *)
ReadPhoto(m) ==
    /\ message[m] = "received"
    /\ message' \in {[message EXCEPT ![m] = "accepted"], [message EXCEPT ![m] = "settled"]}
    /\ FileOf[m] \in lost => message'[m] = "settled"
    /\ UNCHANGED <<now, audienceVars, faults, sessionVars, stamp, source, preview, lost,
                   considered, failed>>

(* Mutant of Newer: the last handler to commit wins.                         *)
MutantLastCommitWins(m) == TRUE

(* The WHERE of the upsert.                                                  *)
Newer(m) == source = NoSource \/ source < m

(* set_active_source.                                                        *)
SetActiveSource(m) ==
    /\ message[m] = "accepted"
    /\ source' = IF Newer(m) THEN m ELSE source
    /\ considered' = considered \cup {m}
    /\ message' = [message EXCEPT ![m] = "set"]
    /\ UNCHANGED <<now, audienceVars, faults, sessionVars, stamp, preview, lost, failed>>

(* active_source_image reads the row, then downloads the file it names.       *)
BeginPreview(p) ==
    /\ preview[p].step = "idle"
    /\ Accepts(cookie)
    /\ source # NoSource
    /\ preview' = [preview EXCEPT ![p] = [step |-> "downloading", message |-> source]]
    /\ UNCHANGED <<now, audienceVars, faults, sessionVars, message, stamp, source, lost,
                   considered, failed>>

PreviewShown(p) ==
    /\ preview[p].step = "downloading"
    /\ FileOf[preview[p].message] \notin lost
    /\ preview' = [preview EXCEPT ![p] = NoPreview]
    /\ UNCHANGED <<now, audienceVars, faults, sessionVars, message, stamp, source, lost,
                   considered, failed>>

(* Any MediaRejection: the file is gone, or this download failed.            *)
PreviewFails(p) ==
    /\ preview[p].step = "downloading"
    /\ \/ FileOf[preview[p].message] \in lost /\ UNCHANGED faults
       \/ faults < MaxFaults /\ faults' = faults + 1
    /\ preview' = [preview EXCEPT ![p] = [@ EXCEPT !.step = "failed"]]
    /\ failed' = failed \cup {FileOf[preview[p].message]}
    /\ UNCHANGED <<now, audienceVars, sessionVars, message, stamp, source, lost, considered>>

(* Mutant of Forgettable: the DELETE names the user only.                    *)
MutantForgetsAnySource(p) == source # NoSource

(* The WHERE of the DELETE: the row still names the file that failed.        *)
Forgettable(p) == source # NoSource /\ FileOf[source] = FileOf[preview[p].message]

ForgetSource(p) ==
    /\ preview[p].step = "failed"
    /\ source' = IF Forgettable(p) THEN NoSource ELSE source
    /\ considered' = IF Forgettable(p) THEN {} ELSE considered
    /\ preview' = [preview EXCEPT ![p] = NoPreview]
    /\ UNCHANGED <<now, audienceVars, faults, sessionVars, message, stamp, lost, failed>>

(* The bot is replaced, or Telegram drops a file.                            *)
LoseFile(f) ==
    /\ f \notin lost
    /\ faults < MaxFaults
    /\ faults' = faults + 1
    /\ lost' = lost \cup {f}
    /\ UNCHANGED <<now, audienceVars, sessionVars, message, stamp, source, preview, considered,
                   failed>>

-----------------------------------------------------------------------------

Next ==
    \/ \E e \in Exchanges : \/ \E l \in Launches : BeginExchange(e, l)
                            \/ InsertOrRotate(e) \/ ReceiveCookie(e) \/ LoseResponse(e)
    \/ Tick
    \/ ReportStep /\ UNCHANGED <<sessionVars, sourceVars>>
    \/ \E m \in Messages : SendPhoto(m) \/ RecordSender(m) \/ ReadPhoto(m) \/ SetActiveSource(m)
    \/ \E p \in Previews : \/ BeginPreview(p) \/ PreviewShown(p) \/ PreviewFails(p)
                           \/ ForgetSource(p)
    \/ \E f \in Files : LoseFile(f)

Spec == Init /\ [][Next]_vars

-----------------------------------------------------------------------------
(***************************************************************************)
(* Properties.                                                             *)
(***************************************************************************)

(* A launch has one live session, whatever exchanges of it overlap: the       *)
(* token of an earlier exchange stops working.                               *)
OneSessionPerLaunch ==
    \A s, t \in 1..issued :
        Accepts(s) /\ Accepts(t) /\ s # t =>
            \E r1, r2 \in sessions : r1.token = s /\ r2.token = t /\ r1.launch # r2.launch

(* The active photo is the newest of those accepted since it was last        *)
(* forgotten, in whatever order their handlers finish.                       *)
NewestIsActive ==
    IF considered = {} THEN source = NoSource ELSE source = Max(considered)

(* The newest photo the bot accepted is the one the Mini App shows, unless a   *)
(* download of that very file failed: a preview of an earlier photo that ends    *)
(* after the newer one is set, in whatever order handlers and requests finish,  *)
(* does not take it away, and nothing else does.                             *)
UnfailedPhotoStays ==
    LET set == {m \in Messages : message[m] = "set"}
    IN  set # {} /\ FileOf[Max(set)] \notin failed => source = Max(set)
===============================================================================
