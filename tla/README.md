# Verification of the car-wrap image bot

TLA+ models of the program in `src/src/car_wrap`, the TLC configurations that check them, and proofs
that TLAPS checks. Paths below are relative to `src/src/car_wrap` unless they start with `src/`.

A user sends a photo of a car to a Telegram bot, chooses a color in a Mini App, and gets the
car back in that color. Submissions become jobs in PostgreSQL, which worker processes
execute against an image provider; they are paid with allowances that are bought through a payment
gateway; users can upload colors of their own, which are moderated and reviewed.

## 1. Inventory

### Processes

| process | entry point | what it does |
|---|---|---|
| api | `api/app.py` | Mini App and admin HTTP API, the callback of the payment gateway |
| bot | `bot/main.py` | Telegram dialogs; also runs the subscription renewal scan |
| relay | `jobs/main.py` | publishes outbox rows as Redis hints |
| worker | `worker/main.py` | executes jobs |
| daily stats | `stats/main.py` | one report a day |

PostgreSQL (READ COMMITTED) is the only authority. Redis carries hints, which may be lost or repeated.
Sessions are made with `expire_on_commit=False` (`db/session.py`), so a session keeps showing the
instance it loaded, after a commit and after a later `SELECT ... FOR UPDATE` of the same row.
The bot keeps the upload dialogs in a dictionary of its process.

### Components

| component | state | operations | hard behaviour | what makes it correct |
|---|---|---|---|---|
| Generation worker (`jobs/worker_repository.py`, `worker/`) | jobs, attempts, leases | claim, heartbeat, mark_*, reconcile_expired | leases that expire under a live worker, crashes around a paid request, ambiguous answers | one request and one photo per job, one settlement, no way back from an end, every job ends |
| Job acceptance (`jobs/service.py`, `jobs/repository.py`) | jobs, outbox | accept | retries and parallel submissions | one job per submission, the limits hold |
| Allowances (`billing/allowances.py`) | balances, reservations, ledger | reserve, consume, release | jobs that end after a renewal | balances equal the ledger, a reserved unit belongs to one running job |
| Payments (`billing/payments.py`, `billing/subscriptions.py`) | orders, payments, saved card, subscriptions | checkout, repeat charge, renewal, confirm, cancel | results before, after and without the answer of the request; overlapping scans | no period charged twice, what was paid is granted once |
| Custom colors (`custom_colors/`, `api/custom_colors.py`) | colors, versions, reference counts, object store | upload, moderate, review, edit, delete, retain, release | work between two transactions on stale instances; a store outside the transaction | quota, one-way approval, the object outlives its last reference |
| Color media, moderation, analysis (`custom_colors/media.py`, `moderation.py`, `analysis.py`) | none | normalize, scan, judge, analyse, crop | rounding between three pixel grids, answers that fail or are malformed | publication fails closed, a stored profile can be used |
| Delivery, provider client (`bot/delivery.py`, `generation/`) | none | send_result, generate | one safe retry, ambiguous outcomes | the effect happens once, the caller is told the truth about it |
| Bot dialogs (`bot/router.py`) | pending uploads in memory | dialogs | concurrent updates of one user, awaits inside a handler | the user hears the verdict, a sample is not taken for a car |
| Active source (`services/active_source.py`) | one row per user | upsert, delete | reordered handlers, a deletion racing a new photo | the newest message wins |
| Mini App sessions (`services/telegram_auth.py`) | sessions | exchange | identical launches that race | one live session per launch |
| Users and daily statistics (`services/telegram_users.py`, `stats/`) | users, deliveries | record, report | events that commit out of order, a crash between message and record | one report a day, a user is new once |
| Relay (`jobs/relay.py`) | outbox | run_once | publishing before the commit | only wakes workers earlier |
| Configuration, evaluation harness, frontend, operations scripts | none or files | | | |

`PROJECT.json` lists each of them with its status, and every hazard at the line where it bites.

### How they interact

Acceptance writes the job, its outbox row, the reservation and the reference on a custom color in one
transaction, and the worker settles both in the transaction that ends the job. The confirmation of a
payment credits the balances that acceptance spends. Moderation, review, deletion and acceptance
share the rows of a color and the object behind it. So the models overlap at the row of a job:
JobExecution has the settlement of a reservation and a reference as a field of the job, Acceptance what
the settlement does to the account, CustomColors what the reference does to the color, and
ExecutionCalls what one execution asks of the outside. Payments has the orders behind the purchases
that Acceptance takes as given. ColorUpload is how a color comes to be, before CustomColors;
MiniApp is how a photo comes to be the active source that a job takes a snapshot of.

## 2. Modules

| module | role |
|---|---|
| `GenerationJob` | abstract: what the system promises of one job |
| `JobExecution` | the worker protocol |
| `AtMostOnce` | abstract: a call that happens at most once, and what its caller may conclude |
| `ExecutionCalls` | the outside calls of one attempt: download, provider, delivery |
| `CustomColors` | colors, versions, references, object store |
| `ReferenceAnalysis` | operators: tiles, clusters, profile and crop of a reference image |
| `ColorUpload` | the upload dialog and the upload route, through intake, moderation and analysis |
| `Allowance` | abstract: what an account promises about the units of a user |
| `Acceptance` | one user's submissions, balances and ledger |
| `Purchase` | abstract: what becomes of the purchases of a user |
| `Payments` | one user's orders, saved card and subscriptions, with the gateway |
| `Audience` | the row of a user and the daily report |
| `MiniApp` | sessions and the active source; composes `Audience` |
| `*Proofs` | inductive invariants and theorems (section 4) |
| `MC*` | small instances for TLC |

In general one transaction is one action and one effect outside the database is one action; where a
session reads a row, leaves the lock (or never takes one) and writes later, the read and the write
are two actions and the model carries what was read. `map` in `PROJECT.json` gives the
lines behind each definition. Operators called `Mutant...` are plausible bugs of the definition
that follows them; they are used by no specification and show which property notices the bug.

### JobExecution

`job` is `generation_jobs` with its reservation and reference, `attempt` is `generation_attempts`,
`worker` what each process is doing: the step of `execute`, the `ClaimedAttempt` it holds, whether its
heartbeat task lives. `requests` and `photos` count what reached the provider and the chat.

* `Poll` and `Claim` split `run_once`: the `NOT EXISTS` of claim is evaluated on the statement's
  snapshot, and after the row lock only the locked row is rechecked.
* Time: a transaction reads its clock before it waits for a lock, so a lease goes from `live` (all
  transactions see it valid) through `lapsing` (some do) to `expired` (none does).
* `Crash` stands for the death of the process and for a failed transaction of `run_once` or
  `mark_failed`; the heartbeat can die alone, and execute learns of it when it awaits it.
* The reference on a custom color is a field of the job. It is `uncounted` while the version's
  `retain_count` is 0 although the job holds it, which other jobs on the color bring about and undo (`Uncount`,
  `Recount`; finding 3 is how). `release` then raises: a mark that ends the job rolls back
  (`ReleaseRefused`, and `MarkSucceeded` is not enabled but `UnexpectedError` is), and so does a
  poll that would reconcile it. No fairness is assumed of either step.
* A restarted worker is the same element of `Workers`, idle; its id may differ in production, where
  it is then one worker more, which the theorems cover.

### ExecutionCalls

What `worker/service.py` does between two marks, in the order of `execute`: resolve the intent, read
the photo again and compare it with the snapshot, ask the provider, normalize the image, post it,
tell the user of a failure. `step` is where `execute` stands, and the rows are reduced to `outcome`. A
request or a photo that was sent arrives at once, later (`travelling`, `Arrives`) or never, and only a
definite answer tells which. The one retry after a failed connection and the one after
`TelegramRetryAfter` are `ConnectFails` and `FloodLimit`. `GiveUp` stands for a lost lease, a failed
transaction and the death of the process. Files, references, responses and images are records of
what the checks of the code read; `Init` takes any photo the bot accepts, by the same operators with
which the worker reads it.

External assumption, from how `delivery.py` treats the errors: an error answer of Telegram other than
a network failure means that nothing was posted.

### CustomColors

A color is one record with its only version (nothing writes `current_version` after create). The
request that uploads, each edit, each deletion and each acceptance is a process: upload stores the
object, inserts the row, calls moderation, applies the verdict; deletion commits the tombstone and
then removes the object; an edit and an acceptance read the version without a lock first. The values
a request loaded stay in `creation`, `editor` and `job`, because SQLAlchemy's identity map returns
the loaded instance and writes only attributes whose value changed.

Three places of the code write from such values after another transaction may have replaced them. The
runs `colors_tombstone` and `colors_retain` show two of them and section 5 describes the third. The
history variable `stale` records such a write per color and part, and the invariants of the passing
run speak of the colors that suffered none: together they say that these writes are the only way to
lose the references, the object, the quota or the profile.

### ColorUpload and ReferenceAnalysis

`dialog` is the user's entry of `pending_uploads`, `upload` how far the handler of each message or
request is, `colors` the rows that were made. A handler is split at its awaits: it reads the dialog
(`ReceiveMessage`), downloads and stores (`RejectSample`, `CreateColor`), waits for the moderation
(`Judge`) and then deletes the dialog, whichever it is by then (`EndDialog`). Taps and other messages
come in between. The Mini App's route shares the service and has `PostForm`, `Respond` and
`LoseResponse`. `asked` is the file the bot last asked for; `orderly` is a history variable, true while
nothing failed and the user did one thing at a time. Intake, moderation and analysis are
operators: `IntakeAccepts`, `Disposition`, and `Analyzed` in ReferenceAnalysis, which has the three
grids (stored image, working copy of 512 pixels, thousandths) with Python's rounding to even, tile by
tile. What is measured of a part of a picture (its median color, mean edge and dispersion) is the
constant `Look`, about which nothing is assumed. Colors are triples of Lab; the tests of a tile, both
distances (`LabDistance`, by which several colors are clustered and every sample is chosen, and
`SolidDistance`, by which a solid color is clustered) and the medians per channel are those of the code,
in integers: squares instead of roots where only the order counts, `Root` and `Hue` for
`math.hypot` and `math.atan2`, the latter to a fifth of a degree.

### Acceptance

One user with five balances, the sums of the ledger entries by kind, the jobs with what each of them
holds, and the subscription as far as it decides what is spendable. Every acceptance and every credit
takes the user's advisory lock and every settlement locks its rows, so each is one action.

`Allowance` is what is left of it for the user: what may be taken of each kind, and what became of the
unit of each job. It has no rows: the free unit is there before `_ensure_account` writes one, and what
was granted, reserved and consumed is one difference.

### Payments

One user's orders with the request in flight for each (`call`), the invoice the gateway made
(`invoice`), the links the user got, the saved card, the subscriptions and the credits. A request
can be accepted and its answer lost, refused, or die with the process; a result can arrive
before the answer, twice, or after a cancellation.

`Purchase` is the same without requests, answers, links, cards and time: a purchase is asked for, paid,
and then granted or dropped. It keeps what those must not break: nothing is granted unpaid or dropped when
paid (an introduction apart, see section 5), a repeat charge needs an introduction that was granted, a
renewal a subscription that was granted, and one per period.

External assumptions, taken from how the code uses the gateway: one invoice per order id, a refused
request makes none, a result is redelivered until it is accepted, nobody pays a link that was
not sent.

### MiniApp and Audience

One user. `BeginExchange` and `InsertOrRotate` split `exchange_init_data` at the unique index of
`init_data_sha256`; `ReceiveCookie` and `LoseResponse` are what becomes of its answer. A
message goes through `SendPhoto`, `RecordSender` (the middleware), `ReadPhoto` and `SetActiveSource`,
and several are handled at once. A preview reads the row, downloads, and on a failure deletes the row if
it still names that file: three actions. Audience has the row of the user, which each of these
events upserts with a clock it read before (so the CHECK of the table can refuse it), and the process
that reports: compute, send to each administrator, record, with a crash or a failed request anywhere.
`considered`, `figure`, `failed` (the files a preview failed to download) and `unmarked` (how often a report
arrived and was not recorded) are history variables.

## 3. Runs

| run | instance | shows |
|---|---|---|
| `job_workers` | 1 job, 2 workers, 3 attempts, 2 faults (335,690 states) | the safety of a job under every interleaving, releases refused included, that it ends once its reference stays counted, and that it implements `GenerationJob` |
| `job_claim_race` | as job_workers | violated: claim supersedes an attempt that has started the provider |
| `execution_attempt` | 1 attempt, files and images on both sides of every limit | request and photo implement `AtMostOnce`; an unchanged photo is read; photos keep Telegram's bound; the user is told what was committed |
| `colors_uploads` | 2 colors, quota 1, 2 faults; or 1 color, 2 jobs, 2 editors | quota, objects, reference counts, profiles, one-way approval |
| `colors_tombstone` | | violated: moderation overwrites a deletion |
| `colors_retain` | | violated: two overlapping acceptances count once |
| `color_upload` | 2 messages or 1 request, 3 files, 2 structures, 2 finishes, 4 moderation answers, 1 fault (764,261 states) | publication fails closed; the chosen surface is kept; profiles are readable and their samples are tiles that passed the tests; the verdict is told |
| `payments_lifecycle` | 3 orders, 2 renewals | credits match confirmed orders, no double charge, confirmations are final; Payments implements `Purchase` |
| `payments_repeat` | | violated: a paid repeat charge whose card was replaced is never granted |
| `acceptance_account` | 5 submissions, 2 active, 3 in the window, 4 purchases (144,865 states) | ledger, reservations, limits, idempotency; what a renewal may carry over; Acceptance implements `Allowance` |
| `acceptance_renewal` | 4 submissions, one at a time | violated: a released unit of the old quota survives a renewal |
| `mini_app` | 2 launches, 2 exchanges, 3 photos, 2 previews, 2 administrators, 5 units of time, 1 fault (578,161 states) | sessions, active source, report |

### Why these bounds

* Two workers are enough for every race over one job: a third could only repeat what one of the two
  does. Three attempts leave one for each of the two faults and one that ends; beyond the bound a
  worker could not claim, so `EveryJobEnds` would notice a bound that is too small. `Recount` is
  bounded by the same number, so that a job that is counted again still has an attempt for itself and one
  for each fault to come. Batches of several
  jobs under one worker are covered by the theorems, which hold for any set of jobs.
* In `execution_attempt` nothing is bounded but the data: the files differ from an acceptable one by one
  unit of one limit each, the images lie on both sides of the bound on the sum of the sides and of
  the ratio, one of them so long that its short side rounds up to one pixel.
* Two colors against a quota of one make the quota bind; two jobs, or two editors and a job, make
  every pair of requests on one color overlap. One version per color is what the code has. The
  constraint `UploadsOrUses` drops the states where two uploads and the users of a color are in
  progress at the same time: they share nothing but the quota, which the users do not touch.
  Faults (crashes, failed inserts) matter to uploads and deletions and are enabled there. The
  theorems have none of these restrictions.
* Two messages are needed for two handlers of one dialog; taps are not counted, so a dialog can be
  started again at any moment. The three files are a wide and a tall picture, whose sides round
  on every grid, and one the scanner does not pass; their scenes are horizontal bands
  (`BandLook`): two close colors within a tile, which is accepted; two grays and an orange, which the two
  distances arrange differently; an overexposed half, whose tiles are dropped; the four answers are a confident one with a region
  at the border, a doubtful one, an unsafe one, and none. `BotOrApp` keeps the bot's uploads and the
  Mini App's apart: they share the table of colors, where each handler touches its own row.
* Three orders are a checkout, a charge that depends on it and a competing one. Periods are bounded
  by two renewals, which with three orders is no restriction.
* The free unit and the two of the bonus are taken before the monthly ones, so it is the fourth and the
  fifth submission that hold monthly units, two at once, while a renewal or two retire the old quota; the bound
  of `OldQuotaIsBounded` is reached. Four purchases allow a subscription
  and as many renewals as are needed to notice one that kept the old quota, or a package besides.
  `InOrder` takes jobs and submissions in the order of their numbers, since ids carry no order.
  `ExtrasOrMonthly` is the union of two instances: at most three jobs and three purchases, one of them exempt and one an
  introduction, which only pass by; and five jobs and four purchases without these (the fourth not with a
  package), whose window moves on only to let the next job in. The theorems have neither restriction.
* In the violation run of Acceptance the active limit is the default of the settings, one.
* In `mini_app` a day has two units and the clock passes the last moment a token can work. Three photos
  over two files let a newer message name a forgotten file. `PartsApart` keeps one exchange while
  photos are handled and no more than events without consequences while reports are sent; again
  the theorems hold without it.

`TypeOK` is an invariant of the run of the largest protocol, `job_workers`; the other components' types
are theorems.

`AtMostOnePhoto`, `GiftsOnce` and `ConfirmationIsFinal` are theorems (section 4) that no run states
separately: the runs check the refinements, of which they are a part.

Symmetry is used only in runs without liveness, over sets no action tells apart: colors, jobs, editors,
exchanges, previews, administrators, orders, finishes.
`CHECK_DEADLOCK FALSE` stands where the users may have done all they can within the bounds.

### Fairness

Only `job_workers` has a liveness property. Weak fairness is assumed of a worker's poll, of its claim,
of the progress of an execution (every external call has a timeout, the loop never stops and compose
restarts the process) and of the passing of time for a lease that nobody renews. Nothing is
assumed of users, heartbeats or other jobs, and no fault is forced. `EveryJobEnds` uses no hint: polling
suffices. Its premise, that from some time on no job is without a count, is needed: a job whose release
raises never ends, and the poll that meets it does nothing for the others either (finding 3). It is an
assumption about CustomColors that CustomColors does not keep when acceptances overlap.

## 4. What is proved

Each theorem holds for every value of the constants that satisfies the module's `ConstantsAssumption`
(null values are no members of the sets, bounds are numbers); ColorUpload also has
`InputsAssumption` (the files and forms enumerated have their types) and `ContentsAssumption` (located areas
lie within the picture); of `Look` nothing is assumed. Every property that a passing run
checks is a theorem, except the liveness property. In each
module `IInv` is the inductive invariant, proved action by action, and `TypeCorrect` the types.

| module | theorems |
|---|---|
| `JobExecutionProofs` | `OneRequest`, `OnePhoto`, `SettledOnce`, `OwnerIsCurrent`, `FailureIsHonest`, `TerminalStays`; `KeepsPromise`: JobExecution implements `GenerationJob` |
| `ExecutionCallsProofs` | `CallsOnce`: ExecutionCalls implements `AtMostOnce`, twice; `UnchangedIsRead`, `PhotosFit`, `ToldIsCommitted` |
| `AcceptanceProofs` | `LedgerExplains`, `Backed`, `GrantRespected`, `WithinLimits`, `SubmittedOnce`, `GiftedOnce`, `OldQuotaBounded`; `KeepsAllowance`: Acceptance implements `Allowance` |
| `PaymentsProofs` | `CreditsMatch`, `PaidStaysGrantable`, `PeriodChargedOnce`, `OneRepeatInFlight`, `ConfirmationStays`, `ChargesAreAuthorised`, `RepeatLostWithItsCard`; `KeepsPurchase`: Payments implements `Purchase` |
| `CustomColorsProofs` | `ReferencesAreCounted`, `HeldStaysStored`, `ActiveStaysStored`, `ProfileStaysUsable`, `QuotaIsRespected`, `ApprovedStays` |
| `MiniAppProofs` | `OneSession`, `NewestActive`, `PhotoStays`, `Reported`, `CountedOnce` |
| `ColorUploadProofs` | `PublishedIsSafe`, `SurfaceIsKept`, `VerdictReachesUser`, `SampleNotTaken`, `ProfileCanBeUsed` |
| `ReferenceAnalysisProofs` | about the operators of ReferenceAnalysis: `NormalizedIsValid`, `SampleCanBeCut`, `AnalysisIsUsable` |

### The arguments

*JobExecution.* That a job costs one request is not inductive: a worker whose lease was lost keeps
running, so the invariant has to follow it. `IInv` says that whoever executes holds an attempt that it
created (`TaskInv`), that attempts are numbered without gaps and are empty beyond the count
(`CountInv`), that at most one attempt of a job has ever started the provider and that its worker's
step knows of it (`StartInv`), and that requests and photos are counted by that one attempt's
worker (`RequestInv`, `PhotoInv`). The unique index on provider starts is what keeps `StartInv`
when claim races with the start. From it, two workers past the start hold the same attempt and so are
the same worker (lemma `Alone`), which is why the side effect happens once. `OwnerHoldsCurrentAttempt`
and `Settlement` complete the induction.

*HonestFailure* speaks of a row, a photo and a code that three transactions write. `HonestInv` adds to `IInv`
what connects them: a photo reaches the chat only through an attempt marked as delivering
(`DeliveringInv`); a worker about to report a failure after its photo arrived holds a code that admits
it (`ReportInv`); and a job given up while its photo is being sent was given up as a delivery
(`LateInv`), so that a photo that arrives later does not make the code a lie. `EndedInv` says
that a failed job had an attempt to speak of.

*GenerationJob* is JobExecution seen through status and charge. A poll gives up
its batch, a claim of a queued job starts it and any other is not seen, an upload is the request, a
delivery the photo; a request or photo of a worker that lost its job is allowed because the
job cannot have succeeded without its photo (`Settlement` and `PhotoInv`).

*ExecutionCalls.* What is counted, what may still arrive and what was concluded are tied together:
`RequestInv` and `PhotoInv` say that nothing is travelling once the effect happened, that nothing was
sent before the step that sends, and that a definite verdict excludes both. Then every step is a
`Happen`, a `Conclude` or a stutter of `AtMostOnce`. `SourceInv` carries the fact that bot and
worker accept by the same tests; `SizeInv` needs lemmas about the integer arithmetic of the two
rescalings.

*Acceptance.* `Account` and `Held` say, balance by balance, that what was granted, spent, expired and
released adds up, and that the reserved units of a balance are exactly the jobs that hold one. Counting
jobs needs the set of used jobs to be finite (`IsFiniteSet(Used)`), since `Jobs` itself need not be.

*Allowance.* An acceptance with a charge is `Take`: the candidate that `select_candidate` returns is the
first with a unit, and the rows before it have none. A settlement spends or gives back, a purchase or a
renewal is the same of `Allowance`; acceptances that cost nothing, jobs leaving the window, photos and the
end of a period or a plan are stutters. `WalletInv` is `IInv` with what the map needs: a job not in use
costs nothing, and nothing monthly was granted before the subscription. `OldQuotaIsBounded` is in it
too: what a renewal carries over was reserved by active jobs, of which `LimitsRespected` allows
`MaxActive`.

*Payments.* A pending renewal is for the period its subscription is in (`RenewalInv`), and a new one is
made only when the locked subscription has none for that period, so `OneChargePerPeriod` is inductive
with it. `RowInv` ties the status of an order to that of its payment,
`GatewayInv` says that a refused order has no invoice (which fails for introductions, see section 5),
`RepeatInv` that one repeat charge is in flight and one card active, `CreditInv` that balances and
periods are cardinalities of sets of confirmed orders.

*Purchase.* A new order is an `Ask`, a confirmation a `Grant`, a refusal of a pending order a `Drop`, and
everything else but the payment itself a stutter: answers, lost requests, recorded invoices,
cancellations, time. That a dropped order is unpaid and that a decided one is not paid again is
`GatewayInv`. The authority of a charge needs an invariant of its own, `AuthorityInv`: a card was
saved only by a confirmed introduction, a subscription begun only by a confirmed purchase, a repeat
charge has a card that was saved and a renewal a subscription that was begun; the last is what keeps
a rejected renewal from making a subscription of nothing. With it, `RepeatLostWithItsCard` tells how far
the finding of `payments_repeat` goes: a card that was cancelled or replaced is the only reason for
which a paid repeat charge is refused.

*CustomColors.* One lemma per action says what it does to the fields a property reads; the invariant
is then preserved field by field. `LifeInv` follows the object through an upload, `RemovalInv` says that
no job holds an object that is about to be removed, `ProfileInv` and `ApprovalInv` that an approved
color matches what was approved. Those about references and objects hold for a color without stale
writes, exactly as the properties do.

*MiniApp.* `OneRowPerLaunch` is the unique index; `NewestInv` is `NewestIsActive` without `Max`;
what `UnfailedPhotoStays` needs besides is that a preview about to delete the row has its file among the failed
ones; `RecordedInv` says that a message sent and not yet recorded is accounted for by the step of the
reporting process or counted in `unmarked`; `FigureInv` that a figure once reported stays true of the row
whichever event is recorded later, since `first` never changes and no day is reported before it is over.

*ColorUpload.* While the user is orderly, one handler at most is between its awaits and the dialog it
read is still open (`OrderlyInv`); so the handler that deletes it finds it, and a sample the bot waits
for meets a dialog. `UploadInv` ties an upload to its row, and `ColorInv` says that a row comes from a
file the intake accepted, which with what moderation must have answered gives `ApprovedIsSafe` for any
content of the files, and that a profile is of an answer and a structure, which with `AnalysisIsUsable`
gives `ProfileIsUsable`.

*ReferenceAnalysis.* A box goes through three grids, each time rounded to the nearest, ties to even, so a
rounded position and a rounded length could exceed together what both must fit in. `NormalizedIsValid`
excludes it: their sum exceeds the exact one by one at most, which happens only if both are ties that
round up, hence to even numbers, and then the sum is even and the thousand is kept.
`SampleCanBeCut` takes a tile through all three: its box in thousandths is valid, the cut
is not empty because the corners are clamped so that the far one lies beyond the near one, and each of its
edges is within two pixels of the working copy of that of the tile (`CutsOut`): half a thousandth of at
most 512 pixels for a position, as much again for the length added to it, half a pixel of the stored
image, and what the scaling of the sides had been rounded by (`ScaledBack`, `EdgesOfCrop`).

`AnalysisIsUsable` says it of the profile, for every picture, whatever the analysis selects and ranks on
the way:

1. Every tile comes from a located area or, without any, from the middle of the picture, lies inside the
   working copy (`AreasAreIn`, `TilesLieIn`) and passed the tests with the measures taken there (`TilesAre`).
2. A selection has only elements that were to be kept (`SelectedIs`); a ranking moves elements, loses none
   and puts none before one of a greater key (`RankedIs`).
3. Every cluster is made of tiles and none is empty, whichever distance or threshold decides which one a
   tile joins (`JoinedIs`, `ClustersAre`).
4. So the box stored for a cluster is that of one of its tiles, whichever is closest to the median
   (`ValueRepresents`), and the weights are shares of a whole (`TotalIs`).
5. The cut is that tile, up to two pixels, by `SampleCanBeCut` (`SampleIsTile`).

It does not say that the stored color is close to that of the sample, which the code does not ensure: the
color of a cluster is the median of each channel by itself, a solid color is clustered by a distance that
weighs lightness by 0.25 or 0.04, and the sample is the tile closest by another one. What every sample has
is that the analysis found it clean: not overlapping an excluded area by a fifth, neither black nor
white, with few edges and little dispersion. The worker cuts the sample of a solid color; for several
colors it uses the whole image.

Points 2 to 4 are inductions over sequences of any length. The induction theorems of the library take the
statement as an operator, which the provers cannot instantiate; here it is the *set* of the indices for
which it holds, and a set that is not all of the naturals has a complement with a least element
(`Least`, from well-foundedness, and `Induct`). `Folding` states with it what a fold of the community
modules computes: the last of a sequence of states, each made from the one before. For that
ReferenceAnalysis writes its selections and rankings as folds over indices.

Assumed is `ContentsAssumption` (ColorUpload): a decision of the moderation whose areas exceed the picture is
refused by `_ProviderRegion`.

### Only model-checked

`EveryJobEnds` is liveness under fairness, which the provers at hand do not reach. Every other property
of a passing run is a theorem.

## 5. Disagreements found

Each of these is a violation run; the exact lines are in `PROJECT.json` under `findings`.

1. `claim` records "worker lease expired before provider start" of an attempt that had started: the
   condition is not rechecked under the lock. The unique index prevents a second request, but the
   first one's image is paid and thrown away.
2. A moderation verdict overwrites a deletion that committed during the moderation.
3. `retain` counts overlapping acceptances once, so deletion removes the object of an unfinished job,
   and the last release raises (`custom_colors/repository.py:457`). That rolls back the end of the job, and every
   poll that reconciles it after its lease expired, since `run_once` reconciles before it claims: the
   others of the batch are not ended and queued jobs not claimed, except by a poll that finds the row
   locked by another one. It lasts until another acceptance of the color counts again, and for ever if
   the color was deleted. JobExecution has these steps; `EveryJobEnds` holds only of jobs whose references stay counted.
4. A repeat charge that was paid is refused for ever when its card was replaced or cancelled meanwhile.
5. A renewal does not retire the units that running jobs hold; they come back if the jobs fail.

Behaviour that the models show or rest on, and that no line of the repository contradicts clearly
enough for a run:

* `custom_colors/repository.py:291`: of two overlapping edits, the structure of one can stay with the
  profile of the other.
* `bot/router.py:82`: after an uncertain analysis the bot asks to photograph the sample again, but
  `router.py:1143` has deleted the dialog, so the next file is taken for the photo of the car.
  `SampleIsNotTheCar` therefore speaks of samples asked for in an open dialog.
* `bot/router.py:1143`: two samples sent in a row, or a dialog started again during an upload,
  end with a `KeyError` in one of the handlers, and nothing is told; `VerdictIsTold` excludes them by `orderly`.
* A restart of the bot forgets the dialog; a sample that Telegram delivers again is then the car.
* `bot/router.py:1207`: two taps on the same button are two submissions, hence two jobs.
* `api/custom_colors.py:98`: the idempotency key of an upload is only written to the audit trail; a
  retry makes a second color.
* `services/telegram_users.py:27` and the CHECK of `db/models.py:100`: if the first two events of a user
  commit in the other order, the older one fails and is not handled.
* `services/telegram_users.py:63`: a user seen again before the report is not counted as active on the
  day of the report.
* `api/routes/palette.py:170`: a download that fails for a passing reason deletes a good source.
* The responses of two exchanges of one launch can arrive in the other order; the cookie is then one
  whose session was rotated away.
* `bot/delivery.py:208`: a server error of Telegram is concluded to be "not delivered".
* `billing/allowances.py:237`: only the quota of an active subscription is spendable.
* `billing/payments.py:132`: asking again for the link of a pending introduction can mark it rejected although
  its first link can still be paid.

## 6. What is not modelled

* Relay and hints: they change no state that a worker depends on, and JobExecution lets a worker poll
  at any time.
* Configuration, the evaluation harness, the frontend and operations scripts; migrations.
* Menus and copy of the bot, the admin routes and the remaining routes: they keep no state and call
  services that are modelled. Of the statistics, the plain counts.
* Of the modelled components: wording, amounts, fees, signatures, image bytes, color formulas, prompts,
  names of colors, audit entries and notifications.
* Renaming of a color and the public catalog, which read and write one column or none.
* Each transaction is atomic, so the deadlocks that PostgreSQL resolves by aborting a transaction appear
  only as faults. Acceptance has one subscription per user, Payments several.
* In ColorUpload the progress message and the last edit of it always succeed; a failure there is one more way
  for the handler to be silent (`VerdictIsTold` excludes faults). In CustomColors the
  acknowledgement of a commit is not lost: if that of the insert is, `custom_colors/service.py:209-212`
  deletes the object of a row that exists.

## 7. Plan

Done: the modules above, with the theorems of section 4. Worth doing next, in this order:

1. The composition of Payments and Acceptance over the same balances: `Grant` of `Purchase` as the
   purchases of `Allowance`.
2. JobExecution and ExecutionCalls composed: the marks of the second as the actions of the first.
3. Renaming and the catalog in CustomColors, so that the component is complete.
