# StudyFlow backend: specification and proofs

TLA+ modules for the services of the StudyFlow backend, TLC configurations
that check them on small instances, and TLAPS proofs for any instance. The
reference is the Go code under `src/`; paths below are relative to it.

## The system

Tutors offer slots in a calendar, students book lessons in them, pay for
lessons by uploading receipts, and get homework. Seven Go programs talk gRPC
among themselves, PostgreSQL (one database each) underneath, Redis at the
gateway, Kafka between the two producers and the notification consumer.

| component | state | operations that change it | talks to |
|---|---|---|---|
| schedule service | tables `slots`, `lessons` | CreateSlot, UpdateSlot, DeleteSlot, CreateLesson, UpdateLesson, CancelLesson, MarkAsPaid, UpdateCompletedLessons (no caller yet) | user service (is the pair active), Kafka (reminders) |
| payment service | table `receipts` | SubmitPaymentReceipt, VerifyReceipt | schedule service (GetLesson, MarkAsPaid), file service |
| common library | one circuit breaker per instance | RetryWithBackoff, CircuitBreaker.Execute | whatever `fn` calls |
| user service | `users`, `telegram_accounts`, `tutor_profiles`, `tutor_students` | RegisterViaTelegram, UpdateUser, UpdateTutorProfile, Create/Update/DeleteTutorStudent, AcceptInvitation | - |
| api gateway | Redis entries with a five minute TTL | its routes (authorize, parse, call, translate the answer), cached GETs, invalidation after PATCH and DELETE | all services, object store |
| homework service | `assignments`, `submissions`, `feedbacks` | create, update and delete of assignments; create of submissions; create and update of feedback | user and file services |
| reminder worker | none | a message per due assignment, every minute | homework tables, Kafka |
| notification service | consumer offset | fetch, process, commit | Kafka |
| file service | table `files` | InitUpload | object store |

### What is hard, and what makes each component correct

*Schedule service.* Every request is a goroutine, and most handlers read a
row, decide, and write in a second statement that selects by id alone. Only
booking and cancelling are transactions. What must hold: a slot gets one
lesson; the two tables agree as far as the code keeps them agreeing; what a
handler in flight still believes is harmless when it acts on it; reminders
speak of committed lessons. What does not hold is stated too (see Findings).

*Payment service.* One request writes two databases with an RPC between,
retried when Unavailable. A crash, a lost answer or an error may fall between
any two steps. What must hold: no lesson is paid without a receipt; every
successful submission owns a receipt; every submission is answered.

*Circuit breaker.* Shared by goroutines, unlocked while a call is out, so
answers arrive late and in any order. What must hold: state and count never
contradict each other; the breaker comes back when the remote service does.

*User service.* Registration fills up to three tables in one transaction
against a unique Telegram id, in whose index a second registration waits for
the first. What must hold: no user without its account, no tutor without a
profile, one user per Telegram id, nobody waits for ever. A pair is unique and
moves from invited to active.

*Gateway and pairs.* A request crosses up to four services, each of which
looks at rows that other requests may change before the next step, and each of
which has error values, and a translation of them, of its own: whatever one
layer confuses or forgets is what the client is told. What must hold: a refusal
changed nothing, a success did what it was for, and the status says why. A
reader that fetched before an update may store after its
invalidation, and an invalidation may be lost; the TTL must repair both. What
must hold: every old entry has a known cause and an end.

*Homework.* Status is computed from three tables and the clock; an edit writes
a whole row back; a submission is stamped before it is inserted. What must
hold: no orphans, nothing deleted comes back, time and edits do not undo a
submission or a review.

*Reminders and notifications.* The worker must get past an event it cannot
send, and the consumer past a message it cannot read and a commit that fails.
Delivery is at least once; nothing records what was sent.

## Modules

| module | models | built on |
|---|---|---|
| `SlotLifecycle` | what the schedule service promises about one slot | |
| `RowLocks` | the transactions of the schedule service, statement by statement, under row locks | refines `SlotLifecycle` |
| `RowLocksProofs` | theorems about `RowLocks` | |
| `Schedule` | the schedule service | refines `SlotLifecycle` |
| `ScheduleProofs` | theorems about `Schedule` and `Payment` | |
| `Payment` | the payment service beside the schedule service | extends `Schedule` |
| `CircuitBreaker` | retry with circuit breaker | |
| `CircuitBreakerProofs` | theorems about `CircuitBreaker` | |
| `GatewayCache` | the gateway's cache over the user service's rows | |
| `GatewayCacheProofs` | theorems about `GatewayCache` | |
| `AtomicRegistration` | what registration promises to readers of its tables | |
| `Registration` | registration and authorization | refines `AtomicRegistration` |
| `RegistrationProofs` | theorems about `Registration` | |
| `AssignmentLifecycle` | what the homework service promises about one assignment | |
| `Homework` | assignments, submissions, feedback | refines `AssignmentLifecycle` |
| `HomeworkProofs` | theorems about `Homework`, `Reminders` and `Notification` | |
| `Reminders` | the reminder worker beside the homework handlers | extends `Homework` |
| `Notification` | the notification consumer | |
| `Steps` | how the code that serves a request is written as a sequence of round trips | |
| `UserApi`, `FileApi`, `ScheduleApi`, `PaymentApi`, `HomeworkApi` | every call of the five services: repository, service, handler | extend `Steps`, and each other where one service calls another |
| `Requests` | the gateway's routes over these calls, beside other requests | extends `HomeworkApi`, `PaymentApi` |
| `RequestsProofs` | theorems about `Requests`: what its answers mean for the tables | |
| `RefusalsProofs` | theorems about `Requests`: that its refusals are true | extends `RequestsProofs` |
| `MCSchedule`, `MCRowLocks`, `MCPayment`, `MCCircuitBreaker`, `MCGatewayCache`, `MCRegistration`, `MCHomework`, `MCReminders`, `MCNotification`, `MCRequests` | small instances, symmetry, and a documented claim the code does not keep | |

A definition that no specification uses and that stands just before a similar
one (`WriteAssignment` after `SaveAssignment`, say) is the code with one
plausible mistake in it. Each property of a passing run fails when one of them
takes the place of its neighbour; PROJECT.json pairs them.

### Schedule

`slots[s]` and `lessons[l]` are the two tables, a row under each id or
`NoRow`; a deleted slot is `Removed`, because a UUID is never given twice.
`workers[w]` is one goroutine: `Idle`, or a record of the locals its next
statement still needs. `events` is what Kafka has accepted.

| code | actions |
|---|---|
| CreateSlot | `CreateSlot` (checks against the clock), `InsertSlot` (INSERT under the unique index) |
| UpdateSlot, DeleteSlot | `UpdateSlot` / `DeleteSlot` (read and check), `WriteSlot` / `RemoveSlot` (statement by id) |
| CreateLesson | `CreateLesson` (read and check), `ValidatePair` (RPC), `BookSlot` or `BookingRefused` (transaction), `SendReminderEvent` |
| UpdateLesson | `UpdateLesson` (read), `WriteLesson` (UPDATE of every column read) |
| CancelLesson | `CancelLesson` |
| MarkAsPaid | `MarkAsPaid` |
| UpdateCompletedLessons | `UpdateCompletedLessons`, enabled by the constant `CompletionJob`: nothing calls it yet, README.md:15 plans a job that will |
| any error, cancelled context, crash, or answer lost after a commit | `Abandon` |

What one step may contain:

- A transaction is one step, at its commit. Booking locks the slot's row
  (`FOR UPDATE`) before it looks at it, and the unique index and the foreign
  key are looked at by the database at the same moment for all; cancelling
  takes both row locks before it commits. That nothing of a transaction shows
  before its commit, and that what it read still holds then, is not taken for
  granted: `RowLocks` has the statements one by one. A deadlock of two of them
  is broken by PostgreSQL with an error, which is `Abandon` here.
- CancelLesson and MarkAsPaid read first as well, but what they use of the
  read (the lesson exists, its slot, its student, the slot's tutor) never
  changes: no lesson row is deleted, and a slot with a lesson cannot be. They
  are one step, at their write. UpdateLesson's read of status, payment and
  details does change, and is a step.
- An edit's fields are a set `Detail`; a details value that is present once is
  present in every later snapshot, which is enough to tell a lost update from
  a kept one. Timestamps of creation and edition, and texts, are left out.
- Who may call (role, ownership) is in `ScheduleApi`; who is recorded is here.

### RowLocks

One slot, the lesson in it, and any number of connections. `slot` and `lesson`
are the committed rows, `slotLock` and `lessonLock` who holds the lock of each;
the second also stands for the entry of an uncommitted lesson in the unique
index on slot_id, which an INSERT waits for just so.

| statement | action |
|---|---|
| `SELECT ... FOR UPDATE` of CreateLessonAndBookSlot, with the look at is_booked | `SelectForUpdate` |
| its UPDATE of the slot, INSERT of the lesson, COMMIT | `MarkBooked`, `InsertLesson`, `CommitBooking` |
| CancelLessonAndFreeSlot: UPDATE of the lesson, UPDATE of the slot, COMMIT | `UpdateLessonStatus`, `ReleaseSlot`, `CommitCancel` |
| DELETE of the slot | `Delete` |
| an error, a lost connection, a cancelled context | `Abort` |
| PostgreSQL's search for circles of waiters | `BreakDeadlock` |

Booking takes the slot first and the lesson second, cancelling the reverse, so
two of them can wait for each other. `DeadlockOnlyWhenReleased` says when: only
in a slot whose lesson was cancelled before (CancelLesson takes a cancelled
lesson again), where the booking is going to be refused by the index anyway.

### Payment

`receipts` is the table; `payers[p]` a goroutine in SubmitPaymentReceipt, with
the call it is at and the attempts that were answered Unavailable.
`LessonIsUnpaid`, `LessonIsPaid` and `LessonIsMissing` are the three answers
of GetLesson, `CreateReceipt` the INSERT, `MarkPaid` the RPC carried out by
the schedule service, after which `Acknowledge` or `LoseAnswer` decides
whether the caller learns of it; `Unavailable` is an attempt that was not
carried out, `Fail` any error that is not retried, `Restart` a crash of the
payment service. All of the schedule service's own steps interleave
(`ScheduleStep`), except that MarkAsPaid is called from here alone.
GetReceipt, GetReceiptFile and GetPaymentInfo change nothing; they are in
`PaymentApi`.

### CircuitBreaker

`Pass`, `Probe` and `Reject` are Execute up to the call, `Succeed`,
`FailUnavailable` and `FailOtherwise` what it does with the answer, `BackOff`
and `Resume` RetryWithBackoff around it, `Cancel` the context. `age` is
`time.Since(lastFailureTime)`, stopped just past the reset timeout, and
`failureCount` stops at the threshold: the code asks of each only whether the
bound is reached. `healthy` is the remote service. developer_readme.md:45 says
that every method uses a breaker; at this commit none does.

### GatewayCache

`rows` are the three tables as far as a version number tells one content from
another, `cache` the Redis entries, `requests[r]` what a goroutine of the
gateway does next. A cached GET is `Get`, then `Hit` or `Miss`, then the RPC
(`ReadFound`, `ReadFails`), then `Store` or `StoreIsLost`. PATCH and DELETE are
`Begin`, the RPC (`Update`, `Delete`, `NotFound`, `WriteFails`), then one
`Invalidate` or `InvalidateFails` per key: two for a user, whose one row is
cached under "user" and under "user-public". `UpdateProfile` is the PATCH of a
profile as the gateway forwards it, without a body. POSTs (`Create`, `Accept`,
`PostFails`) invalidate nothing. `causes` is a history variable: why an entry
may differ from its row, which is "not_invalidated" after a POST, "lost_delete"
after a DEL that Redis or a stop of the gateway swallowed, "overlap" after a
GET that a write overtook.

### Registration

`users`, `accounts` and `profiles` are the committed tables; `registrants[r]`
is an open transaction, by its next statement. An uncommitted row is in its
unique index already: `CreateTelegramAccount` is not enabled while another
transaction `IsTaken` the same Telegram id, and `AlreadyExists` once a
committed row has it. `Fail` is the deferred Rollback after any error, or
PostgreSQL's own when the connection is gone. `authorizers[x]` is between the
two reads of Authorize, or has its answer, as `MapError` translates it.

`AtomicRegistration` has the tables and one action, `Register`, which fills
them at once. `Registration` implements it (`RegistrationIsAtomic`) with the
tables as they are: transactions, waiting and failures show nowhere.

### Homework and Reminders

Tables as in `Schedule`. `UpdateAssignment` reads and `WriteAssignment` is the
UPDATE by id; `CreateSubmission` reads and takes created_at from the clock,
`InsertSubmission` is the INSERT under the foreign key. `DeleteAssignment` and
`CreateFeedback` use only what never changes of what they read, and are one
step. `now` is the clock as due dates see it, `stamp` as created_at does: no
two created_at are equal (the code's are, within a microsecond, in which case
PostgreSQL picks either). `Status` is the CASE of statusSubQuery. Time zones
(the columns are TIMESTAMP without one) are left out.

`AssignmentLifecycle` is what a reader of an assignment's computed status may
count on: it is open, handed in, reviewed, handed in again, deleted, and its
latest work only ever gets later. The refinement mapping `Progress` computes
the phase from the three tables as `Status` does, without the clock: pending
and overdue are both "open". Which submission is inserted when, and what an
edit writes back, are steps that the lifecycle does not see (`WorkMovesOn`).

The worker of `Reminders` has a `batch`, in the order its query happened to
answer; `Send` and `SendFails` take its first element, `WorkerRestart` loses
the rest. `Unsendable` assignments are those whose event Kafka refuses for
good, because of its size for instance: a title has no bound.

### Notification

`log` and `committed` are Kafka's, `position` and `current` the reader's and
the loop's, `processed` a history variable. kafka-go is external:
FetchMessage hands out messages of a partition in order, CommitMessages without
an interval waits for the broker, and a reader in a group starts at the group's
offset, at the first message without one (`Restart`, `Rebalance`). After a
rebalance the loop still commits the message at hand, so the group's offset can
go back; it stays behind what was processed.

### Requests and the services' calls

Here a request is followed through all layers at once, which the modules above
do not do: each of them is about the rows of one service. `Steps` has the
vocabulary. The code that serves a request is a sequence of steps, one per round
trip to a database or a service; a step maps the state of the rows the request
names (`World`) to the outcomes it can have there: rows, error, tables written,
and whether it failed rather than was refused. A failing round trip may have
taken place all the same (`Lost`). A layer that translates errors wraps the
steps of the layer below (`Through`, `Becomes`), in the order of the code:

| code | definitions |
|---|---|
| a repository's statement, its error values | `Db...`, `handleError` |
| a service method: role and ownership, reads, decisions, writes | `Svc...` (in the schedule service, which has no such layer, `Rpc...`) |
| a gRPC handler: parsing of ids, mapError | `Rpc...`, `mapError`, `toGRPCError`, `fileMapError`, `paymentMapError` |
| a client in another service | `Remote` around the callee's `Rpc...`, then the caller's translation (`ValidateTutorStudentPair`, `IsPair`) |
| the gateway: middleware, route, handler, mapErr | `authMiddleware`, `UserHandler`, `ScheduleHandler`, ..., `mapErr` |

So `Program("CreateLesson")` is one sequence from the Authorization header to the
booking, through the gateway, the schedule service and the user service.

A behaviour of `Requests` is about one route (a list counts once for each thing its
query can name). `Arrive` picks a caller (the tutor
or the student of the rows, another tutor or student, somebody without or with
unknown credentials) and what is wrong with the request, if anything; `Step`
makes the next step; between steps `Others` lets any other request commit one of
the statements that touch the rows in question; `CacheSet` stores what a cached
GET has answered; `Leave` ends it. `seen` (the
states each row has been in meanwhile), `did` and `failed` are history
variables. What the data is abstracted to:

- A request names at most one row of each table. A pair is invited, active or
  absent, a slot free, booked, used (free with a cancelled lesson) or absent, a
  lesson paid or not, a piece of work with or without a file.
- An id that names nothing is a row that is absent. Rows whose id the database
  makes up do not come into being under an id that is known already; users and
  pairs, whose keys come from outside, do.
- The attempts of a retried call are one: reads, of which the last counts, and
  MarkAsPaid, which marks again what is marked. How attempts fail and end is in
  `Payment` and `CircuitBreaker`.
- Of an entry in the cache it is known who got the answer first (`cached`), which
  decides whom a later hit can surprise: the keys name the ids asked about, not
  who asks (`SameKey`), and a hit ends the request before any service is called
  (`CacheGet`). A miss is always possible; a hit may be as old as it likes, since
  how an entry ages and is deleted is in `GatewayCache`.
- The lists' contents, and the values GetPaymentInfo copies from a lesson, are
  left out.

`SuccessHadItsRows` does not ask that the rows a request relies on be right when
it ends, only that each was right at some moment of the request. More cannot be
asked: the pair is looked up in another service and may end before the booking
commits, and UpdateSlot may move a slot that was booked after it looked.

Who may ask is stated twice. `Entitled` is what the services' documents say,
`Admitted` what their code asks for, which is less on five routes (see Findings).
That nobody else is served is claimed of `Admitted`, and that a good request is
served of `Entitled` only: of the callers that the code lets by against the
documents nothing is demanded. The cache is a third matter. `SuccessHadItsRows`
is about answers of the services; of a hit `CachedAnswerWasGranted` says all there
is to say, that somebody entitled had the answer before, and that the caller has
an account.

## Runs

| run | instance | question |
|---|---|---|
| `schedule` | 1 slot, 2 lesson ids, 2 students, 2 concurrent requests, clock 0..2, completion job | do two requests, with cancellation, payment, time and completion as further actors, keep the tables related; is the slot's life the abstract one |
| `payment` | 1 slot, 1 lesson, 2 submissions, 2 receipts, 2 attempts, 1 schedule request, fairness | no paid lesson without a receipt; what a success means beside edits; every submission is answered |
| `circuit_breaker` | 3 callers, threshold 2, reset timeout 1, 2 attempts, fairness | state and count; calls end; recovery |
| `gateway_cache` | 1 user (hence 2 keys and a profile), 1 pair, 2 requests, 1 write, fairness | is every old entry about to be deleted, or left by a POST, a lost deletion or an overtaken GET; does the cache agree with the tables in the end |
| `registration` | 2 Telegram ids, 3 users, 3 transactions, 1 authorization, fairness | one whole user per account, found by both reads; does a registration appear in one step; does everyone who waits get an answer |
| `homework` | 2 assignments, 2 submissions, 2 feedbacks, 2 requests, clock 0..1, 2 created_at | orphans, deletion, what may change a status; is the life of an assignment the abstract one |
| `reminders` | 2 assignments, one unsendable, 2 submissions, 1 request, clock 0..1, window 1, fairness | is what stays due soon reminded of |
| `notification` | 2 partitions of 2 messages, fairness | is anything committed unprocessed, or skipped; is everything processed |
| `requests` | every route, caller, fault of a request, state of its rows, hits and misses in the cache, and any commits of others | does a refusal leave no trace, a success what it was for; does a service answer only those it lets by, and the cache only what was granted to somebody; does the status tell the truth through all translations; is a good request served |
| `row_locks` | 1 slot, 4 connections, fairness | do the locks keep what a transaction read; which deadlocks arise; is the slot's life the abstract one, statement by statement; does every transaction end |
| `paid_lesson` | as `schedule`, without the completion job | the first finding below |
| `assignment_lists` | as `requests`, the three lists of assignments | the second finding below |

The type invariants are theorems and have no run of their own, but for that of
`Requests`; that of `RowLocks` is a part of LocksAreEnough.

Why the bounds are enough. Every property of `Schedule` relates one slot, its
lesson and at most two requests; a second lesson id is needed for a double
booking, a third request adds no new pair of overlapping steps. A clock of 0..2
admits three intervals and a moment past the end of one. That two slots are not
mixed up is left to the proofs, which are for any set of slots. Horizon, ids
and receipts stop the growth of the state; `CHECK_DEADLOCK FALSE` in the
schedule runs is there because the clock and the ids run out. Two attempts of a
call (the code makes six, and three to the user service) let a call fail once
and succeed, or fail for good. A breaker needs three callers for two late
answers to arrive at a third's probe.

A cached key needs a reader and a writer that overlap, and a user two keys; a
write that happened is all that tells an old entry from a new one, and a failed
write invalidates as well. A waiter in the unique index needs one transaction
to wait for and one that may overtake it. A review that a late submission could
upset needs two submissions inserted out of order, hence two requests and two
stamps. A batch needs one event that fails before one that does not; a
partition two messages, so that a commit can cover one whose own commit failed.

`Requests` has no bound: its constant selects routes, `AllRoutes` is all of them,
and callers, faults and rows are finite by abstraction. One request with others
committing between any two of its steps is the general case, because all that
others can do to it is to change its rows. `RowLocks` needs one slot, since each
transaction is about one; two connections make a deadlock and a third can take
the lock that it gives up, the fourth is there for good measure.

Symmetry is used in `schedule` and `homework`, the runs without liveness
properties. What they check besides invariants are step conditions without
fairness, in which the ids of one set are interchangeable.

### Fairness

None for `Schedule`: its properties are safety. In `FairPaymentSpec` a
goroutine in flight keeps running: each call it makes is answered or fails
(contexts and connections have deadlines, `Fail`), without assuming that any
ever succeeds. In the breaker's `FairSpec` callers run and time passes; strong
fairness of `Probe` says that a caller which finds the breaker open is not
cancelled every single time just as the reset timeout has passed. No fairness
is assumed of new requests or of the remote service; `Recovers` asks for
recovery only if the remote service stays up and calls keep coming.

In the gateway's `FairSpec` Redis drops an entry when its TTL has passed
(`Expire`); nothing is assumed of requests, which may stop or never end. In
`Registration` the database answers, and whoever waits for a key is not
overtaken for ever by transactions that take the key and fail (strong fairness:
PostgreSQL wakes the waiters when a transaction ends, but does not hand them
the key); that a transaction ends by failing is never assumed. In `Reminders`
the ticker ticks, the loop goes on, and Kafka does not refuse every attempt at
an event it can take; strong fairness of an attempt says that the service is
not stopped each time just before the same event's turn. The clock stops in
every behaviour, so "stays due soon" stands for a window that is long beside
the worker's minute; the code's is a day. In `Notification` the reader reads
every partition, and neither is the process stopped each time just before the
same call nor does every commit fail.

In `RowLocks` a statement that can run again and again is run in the end (strong
fairness: waiters for a lock are queued) and a deadlock is found
(deadlock_timeout); no transaction is assumed to be aborted otherwise. None is
assumed in `Requests`, whose properties are safety.

### Findings

- `paid_lesson`: UpdateLesson writes back the payment it read; an edit that
  overlaps a payment un-pays the lesson.
- `assignment_lists`: the gateway hands the parsed query of a list of
  assignments to the wrong place, so the homework service is sent no id and the
  answer is always 400. api_gateway/OpenAPI.yml:1427 promises the list.

More differences between code and documentation show in the definitions, and
have no run of their own:

- An edit that overlaps a cancellation restores the lesson beside a slot that is
  marked free (`WriteLesson`; schedule_service/README.md:13 calls is_booked
  redundant, to be derived from the lessons).
- The slot of a cancelled lesson is listed as available and can never be booked:
  cancelling frees it, the unique constraint does not (`CreateLesson`,
  `InsertLesson`; schedule_service/README.md:77, :96).
- The PATCH of a tutor profile is forwarded without its body, so the user service
  refuses it as one that sets nothing, with an error that is answered 500
  (`UserHandler`; user_service/README.md:81). `GoodRequestSucceeds` leaves this
  route out.
- An UpdateSlot that overlaps a booking moves a booked slot (`WriteSlot`;
  schedule_service/README.md:58 says an interval changes only while the slot is
  free).
- A submission for an unknown lesson is answered Internal (`LessonIsMissing`,
  `RpcSubmitPaymentReceipt`; payment_service/README.md:53 says NOT_FOUND).
- Authorizing a Telegram account that nobody registered is answered INTERNAL
  (`MapError`; user_service/README.md:47 says UNAUTHENTICATED).
- A hit in the cache answers whoever has an account, without asking the service
  that would refuse him: another tutor's profile, another two's pair, for up to
  five minutes after somebody entitled has asked, and also when the pair has
  changed or ended since and its key was not deleted (`CacheGet`, `SameKey`;
  user_service/README.md:72, :94 say PERMISSION_DENIED).
- The payment service looks for less than it says: GetReceipt and GetReceiptFile
  answer anyone with an account who knows the receipt's id
  (payment_service/README.md:61, :79: participants of the lesson), VerifyReceipt
  any tutor (:68: the tutor of the lesson), and GetPaymentInfo the tutor as well
  (:46: the student of the lesson). So does the homework service: GetAssignmentFile
  answers anyone with an account (homework_service/README.md:131: participants).
  These are the differences of `Admitted` from `Entitled`.
- FAILED_PRECONDITION reaches no client as the 412 of api_gateway/OpenAPI.yml:911,
  :947, :1076, :1401, :1581, :1658, :1732. The schedule service gives it as
  documented (schedule_service/README.md:56, :66, :94), but `mapErr` does not list
  it, so that UpdateSlot and DeleteSlot of a booked slot and CreateLesson without
  a pair are answered 500. The homework service has no such error
  (homework_service/README.md:49, :91, :99, :107): an assignment that is not there
  is NotFound, hence 404, for CreateSubmission and ListSubmissions; a submission
  that is not there, for CreateFeedback, and a student who is no student of the
  tutor's, for CreateAssignment, are errors that `toGRPCError` does not list, hence
  500. So is a CreateAssignment by somebody who is no tutor (:50 says
  PERMISSION_DENIED).
- The reminder worker finds assignments that were handed in and wait for their
  tutor (`IsDueSoon`; homework_service/README.md:18 says those without a
  submission).

Known and not counted: a submission that fails after CreateReceipt leaves a
receipt for an unpaid lesson, and two overlapping submissions leave two
receipts for one lesson; a rename of an assignment undoes a deadline set between
its read and its write; a reminder is sent again every minute. Nothing in the
repository promises otherwise.

## Proofs

TLC's instances are small; the theorems hold for any sets of ids, users,
goroutines, any horizon, threshold and number of attempts, from the assumptions
that each module names (`ScheduleAssumption`, `PaymentAssumption`,
`BreakerAssumption`, ...: the markers `NoRow`, `Removed`, `Idle`, `NoReceipt`
are no rows, the bounds are numbers of the right sign).

*Schedule.* `Consistent` is the inductive invariant. OneLessonPerSlot and
LessonHasSlot look inductive alone. BookedSlotHasLiveLesson is not: an edit
in flight could write "cancelled" into the lesson of a booked slot. It needs
`StaleCancelIsHarmless`, that such an edit's slot is not booked, which in turn
holds because a slot that once had a lesson is never booked again
(UNIQUE(slot_id) counts cancelled lessons) and because cancelling, the one
writer of that status, frees the slot. EventsDescribeLessons needs to know
what a booking in flight knows of its slot's tutor, since rows can vanish
under it. The proof has lemmas on what a step can do to the tables
(`TableSteps`, `LessonsKept`, `LessonsAdded`, `SlotsKept`), on what a request
carries by its `pc`, and one preservation lemma per conjunct.
`ImplementsLifecycle` shows that every step moves one slot along
`SlotLifecycle` or none. `StaleEditsBlockNothing` states StaleCancelIsHarmless
on its own.

*RowLocks.* `LocksAreEnough` is inductive as it is: who holds which lock follows
from the statement he is at, and what a transaction read cannot change because
whoever would change it needs a lock that it holds. A `Rollback` keeps it, which
is a lemma, since refusals, aborts and broken deadlocks all are one. Two
transactions that wait for each other are a booking at its INSERT and a
cancellation at its second UPDATE, from which `DeadlocksAreHarmless` follows for
any number of connections. `ImplementsLifecycle` is the same promise as that of
`ScheduleProofs`, here for single statements.

*Payment.* A step of the two services is a step of `Schedule` or leaves it alone,
by construction (`NextIsNext`), so the invariant of `Schedule` comes for free.
PaidLessonHasReceipt must cover edits in flight that will write is_paid back,
and PaymentHasReceipt what a submission past CreateReceipt owns; together with
`Consistent` they are inductive (`PaymentConsistentAlways`). `ToldPaidIsPaid`
is about steps: a goroutine comes to be told "paid" only by reading a paid
lesson or by MarkAsPaid, and a lesson stops being paid only by the write of an
edit. Of a lesson without a row neither could be said; that whoever is told has
one is the invariant `ToldOfALesson`, and holds because no lesson row goes away.

*CircuitBreaker.* `TypeCorrect` and `CountDecides`: closed exactly while the
count is below the threshold, which is inductive with the types.

*GatewayCache.* `StaleEntriesHaveCauses`: an entry that differs from its row was
stored by a GET that an update overtook, was left by a POST, or survived a
deletion that was lost or is still to come. It is inductive with the types: a
write turns every key of its row into one that is still to be deleted, and only
a deletion, lost or not, a Restart or another Store takes a key out of there.

*Registration.* `KeyIsHeldOnce` says of the unique index that a transaction past
its INSERT is alone with its Telegram id, against committed rows and open
transactions; `UserIsOwn` and `ProfileIsForTutor` what it brings to its COMMIT;
`RowsFit` is UsersAreWhole without counting, the only part that needs a fact
about finite sets. FoundAccountHasUser follows because a user never goes away.
`ImplementsAtomic` shows that a COMMIT is a `Register` of the abstract
specification: the id, the Telegram id and the profile are what the transaction
set out with, and the Telegram id is new because its key was held.

*Homework.* Foreign keys make NoOrphans inductive with the types alone.
`TableStep` collects the steps that touch a table, so that the others need no
proof each. SubmittedStaysSubmitted rests on `StatusOfSubmitted`: the first two
cases of the CASE depend on the tables only.

ReviewStands is about the latest submission, which must first exist: an
assignment with submissions has one with the greatest created_at. That is no
induction over a set but part of an inductive invariant, `Dated`: each INSERT
leaves the latest as it is or becomes the latest itself (`LatestAfterInsert`),
and rows go away with their assignment only. For it created_at must tell rows
apart, among those stored and those about to be (`CreatedOnce`). From
`DatedAlways` follow `OnlyNewWorkUndoesReview` and `ImplementsLifecycle`, whose
lemmas say for each kind of step what it does to `Progress`: `CreateMoves`,
`DeleteMoves`, `FeedbackMoves` (a review of anything but the latest is no step),
`InsertMoves` (nor is an older submission), `EditMoves` and `ProgressKept`.

*Reminders.* `BatchTyped`: the batch is a list of assignments without
repetition, from the assumption that there are finitely many, since the query's
answer is a sequence. The worker only reads, so the theorems above hold beside it.

*Notification.* CommittedIsProcessed is not inductive: a commit must know that
everything behind the message at hand was processed (`CurrentIsNext`), which a
fetch must know of everything behind the position (`FetchedIsProcessed`), which
a restart has from CommittedIsProcessed.

*Requests.* TLC goes through every route there is; the proof says why it comes
out as it does, and where a change of one handler would be felt. What serves a
request is a sequence of steps that the layers join, call, test and translate,
and what is said of such a sequence is carried from the statements to the
routes, by a lemma for each way of building one. `Writer` says which tables it
writes, and that an error which is not fatal comes when nothing is written yet;
joining keeps that only if nothing that can refuse comes after something that
writes, which for SubmitReceipt rests on the payment service having no name for
an error of MarkAsPaid (`RpcMarkAsPaidFails`), so that it is fatal. `Gate` says
that one of the steps lets by only those whose row is, or comes to be, in
certain states; `Bars` that one lets nobody by; `Twice` that the lesson is read
and looked at again, as old as it is by then. Each call of each service has a
lemma with the three (`RpcCreateLessonDoes`, ...), each route another
(`CreateLessonRoute`, ...), and `Guarded` is what they come to: the route writes
what it promises, lets by who is admitted, and relies on the rows that are
needed. The lookup in the cache is a step that may end a request early with
success (`ServedOrHit`), and on the four cached routes only. The invariant `Inv`
needs nothing else of the steps: what has been written is what a plan of the
steps says (`Effects`), and each step that was passed was passed between rows
that have been seen since the request came (`Rows`). Other requests only add to
what has been seen. What an entry in the cache is worth is a part of its own,
`CacheIsGranted`: an answer is stored for whom the service gave it, who was
admitted, or for whom a hit gave it, who is not stored. From that and from the
lookup comes `CachedAnswersWereGranted`.

RefusalHasCause and GoodRequestSucceeds are about why a step fails, which needs
a judgement of its own, in `RefusalsProofs`. `Says` is what an error tells of a
request, in terms of the rows the failing step met (`Met`): the names an error
has in the five layers fall into five meanings (`WrongForm`, `NoCredentials`,
`NotAllowed`, `Absent`, `Occupied`), and any error has some reason (`Excuse`).
`Honest` steps fail only for the reason their error says. Most translations
invent no meaning (`Faithful`) and keep that; those that do, such as an
unanswered or a refused question for a pair becoming "permission denied", need
`Barring`, that the steps fail only for a reason to forbid, and some answers
hold for a pair of users alone (`Paired`). Each call has a lemma again
(`RpcCreateLessonTells`, ...), each route another (`CreateLessonTells`, ...),
and `EveryRequestTells` is their sum; a hit in the cache ends a request with
no refusal at all (`HonestOrHit`). A lesson sits in a taken slot (`Sound`): a
slot that is not there is a NotFound of a route that names a lesson and takes
its slot in any state, and is the lesson's absence only because of that. So the
invariant is `Truthful`: `Inv`, `Sound(world)` and the two properties. A step's
rows have been seen, by `Rows`, so that what its error says is true of them.

Only model-checked: liveness, which is out of the prover's reach: SubmissionEnds,
CallEnds, Recovers, CacheConverges, RegistrationEnds, DueSoonIsReminded,
EveryMessageIsProcessed, EveryTransactionEnds.

## Not modelled, and the plan

In this order:

1. A register specification whose reads may be old, refined by `GatewayCache`.
2. `Reminders` and `Notification` composed through the log they share.
3. `Pricing`: which price GetPaymentInfo answers, as operators checked against
   the documented precedence.

Calls that only read and that nobody makes: ListCompletedUnpaidLessons (schedule
service), ResolveTutorStudentContext (user service). The gateway's /health, which
answers without looking at anything.

Outside any module: logging and metadata plumbing, generated stubs and mocks,
checking of Telegram signatures, URL signing, migrations and deployment files.
