# NUB Academy: a TLA+ verification of the platform's services

NUB Academy is a learning platform: a Next.js application over PostgreSQL
(prisma), a socket server for chat, a BullMQ worker for notifications, Redis
between them, and Stripe for money. Paths below are relative to the repository.

The server keeps no state in memory that matters: every request reads rows,
awaits, and writes rows, and any two requests interleave between those awaits.
That is where the difficult behaviour is, and it is what the modules model: a
request is a record that moves from one awaited call to the next, a prisma
`$transaction` (or a single statement) is one step.

## 1. Inventory

| Component | State | Operations | What is hard | What makes it correct |
|---|---|---|---|---|
| Orders and payments (`server/services/order-service.ts`) | `Order`, `Payment`, `Enrollment` rows | checkout, confirm, admin approval and refund, six webhook handlers | webhook, redirect and admins act on one order at once; events late, repeated or out of order | an order is paid once, never reopened, agrees with Stripe in the end; access follows payment |
| Event idempotency (`stripe-webhook-service.ts`) | `StripeEvent` rows | claim, handle, release | a throw or a crash after the claim; overlapping redelivery | an event is applied once and is not lost |
| Subscriptions (`subscription-service.ts`) | `Subscription` rows | checkout, upsert from Stripe, end, cancel | events carry snapshots and arrive in any order | an ended subscription does not come back |
| Enrolment, coupons (`enrollment-service.ts`, `coupon-service.ts`) | `Enrollment`, `CouponRedemption` | free enrolment, enrolment by staff, validate, redeem | a coupon is checked at checkout and redeemed at payment | limits hold, a free course is not a way around a refund |
| Quiz attempts (`quiz-attempt-service.ts`) | `QuizAttempt`, answers | start, save, submit, automatic submission | a save racing a submit or the clock; two tabs starting | one attempt in progress, graded once, on what was saved |
| Progress and certificates (`progress-service.ts`, `certificate-service.ts`) | `LessonProgress`, `Enrollment.completedAt`, `Certificate` | record progress, recompute completion, issue, revoke | completion recomputed from reads that are already old | completion follows the lessons and quizzes |
| Accounts (`auth-service.ts`, `user-service.ts`, `lib/auth.ts`, `lib/rate-limit.ts`) | `User` with `sessionVersion`, tokens, rate-limit rows | register, verify, reset, ban, change email or password | a session issued before a ban; a token used twice at once | a banned or reset account's sessions end |
| Courses (`course-service.ts`, `course-stats-service.ts`) | course status, review flags, order of sections and lessons, catalogue numbers | edit, submit for review, approve, publish, feature, recompute the numbers | edits between the reviewer's read and write; recomputations that overlap | nothing unreviewed is published unseen, what is featured is on sale, the numbers follow the rows |
| Teachers, reviews (`teacher-service.ts`, `review-service.ts`) | applications, roles, ratings | apply, approve, reject, rate | two admins deciding at once | one decision stands |
| Chat messages (`server/chat/messages.ts`) | `Message` rows with `seq`, read marks | send, edit, remove, react, mark read, list after a gap | retried sends, concurrent sends, marks arriving late | one message per client id, a gapless sequence, marks never go back |
| Chat access and groups (`server/chat/access.ts`, `membership.ts`, `channels.ts`, `socket-server/context.ts`) | participants, group membership, caches | reconcile groups, resolve access, invalidate | access cached while it is being revoked | a removed member loses the room |
| Q&A, safety, support (`server/chat/qa.ts`, `safety.ts`, `support.ts`) | questions, answers, blocks, reports, tickets | answer, upvote, accept, block, reply, close | two instructors answering; reply against close | counters match rows, a ticket with a new message is open |
| Socket gateway and presence (`socket-server/gateway.ts`, `server/realtime/presence.ts`, `recoverable-adapter.ts`) | rooms, presence keys, recovery log | connect, disconnect, heartbeat, recover | two sockets of one user, expiring keys, a process that dies | online exactly while a socket lives |
| Notifications and worker (`server/notifications`, `worker/index.ts`) | `Notification`, job queue | notify, collapse, e-mail, push | collapse is read then write; a job runs twice | a collapsed note is counted, a push is sent at most once per message |
| Realtime bus, rate limiter (`server/realtime`) | Redis channels, token buckets | publish, consume | - | limits hold |
| Client thread (`components/chat/use-chat-thread.ts`) | loaded messages, pending sends | send, receive, fill a gap | messages arriving during a fetch | the thread converges to the log |
| Catalogue, home, landing, studio, settings, categories, wishlist, notes, pages | rows read, or written in one statement | queries, CRUD | - | - |

Components interact by shared rows (payment, enrolment and chat membership all
meet in `Enrollment`), by calls (`markOrderPaid` calls `syncCourseMembership`
and `notify`), by events on the realtime bus (membership changes reach live
sockets) and by Stripe's webhooks.

## 2. Modules and plan

Done in this order, the most important behaviour first:

1. `OrderPayments`, with its promise `OrderLifecycle`, its instances
   `MCOrderPayments` and its theorems `OrderPaymentsProofs`.
2. `QuizAttempts`, with its instances `MCQuizAttempts` and its theorems
   `QuizAttemptsProofs`: start, save, submit and automatic submission against
   the clock, and the teacher who edits or deletes the quiz. `QuizGrading` is the
   arithmetic of a grade, which `MCQuizAttempts` adds to it.
3. `ChatMessages`, with its promise `ChatLog`, the tab that uses it `ChatThread`,
   its instance `MCChatThread` and its theorems `ChatProofs`.
4. `CourseChannel`, with its instances `MCCourseChannel` and its theorems in
   `ChannelAlertsProofs`: the channels of a course that follow access to it, and
   what the socket server caches of that access.
5. `CourseReview`, with `MCCourseReview` and `CourseReviewProofs`: edits of a course against the admins'
   decisions, and the catalogue numbers.
6. `Completion`, with `MCCompletion` and `CompletionProofs`: progress, `completedAt` and the certificate.
7. `Presence`, and `ChatAlerts` which extends it, with `MCChatAlerts` and its theorems
   in `ChannelAlertsProofs`: who is online and looking, and who is told of a message.
8. `Helpdesk`, with `MCHelpdesk` and `HelpdeskProofs`: support tickets and lesson questions.
9. `Billing`, with `MCBilling` and `BillingProofs`: subscriptions and coupons.

Next in line, and not done: `Accounts` (sessions, bans and the tokens of verification and
reset). Every safety property of the runs is a theorem, except `GradingIsFair`, most of
which is one (section 4); that of `AgreesWithStripe` holds, like the property, for events
acknowledged in order. The liveness properties are model-checked only, because they are out of
the prover's reach.

One convention holds in all of them: where the code can miss what a comment or a
name promises, a history variable (`kept`, `excused`, `lapses`, `drift`, `overtaken`,
`overwritten`, `late`, `barred`) records that the race in question has happened, and the
property says that nothing else breaks the promise. What later repairs the rows removes the
record. Such a property bounds the damage of a race; it does not show that the race
cannot happen, and `PROJECT.json` says so under each hazard of this kind.

## 3. OrderPayments

A `Workers` request is `[step, order, event, intent]`: the awaited call it makes
next, its order, the Stripe event it handles (or none) and whether it carries a
payment intent. `Start...` and `ClaimEvent` begin one; `Goto` moves it; `Finish`
answers. Rows: `orders` (status, and whether the session id and the payment
intent are recorded), `payments` (the append-only log, each row with its event
id), `enrollments`, `stripeEvents`. `Transaction` is the shape markOrderPaid,
applyRefund, applyDisputeOpened, applyDisputeWon and markOrderFailed share: a
status change from given statuses with its payment row and its effect on the
enrolment; the unique index on `Payment.stripeEventId` makes it roll back.

The environment is Stripe (`stripe`, `emitted`, `acked`): sessions complete or
expire, charges are refunded partly or fully, disputes open and close. Events
are delivered until a 2xx; `OrderedDelivery` and `Redelivery` choose whether an
order's events wait for each other and whether deliveries overlap. Faults are a
call that throws, a claim whose release fails and a crash.

Left out: amounts (only whether the total is zero), orders of several items
(the code makes orders of one), coupons, notifications and page revalidation;
calls after a transaction are one `finish` step that may throw.

### Runs

| Run | Instance | Shows |
|---|---|---|
| `payments_ordered` | 1 order, 2 requests, events in order, 2 throws | `TypeOK`; `ImplementsLifecycle`; `AgreesWithStripe` when all is delivered; `PaymentIsRecorded` under fairness |
| `payments_shared` | a paid and a free order for one course, admins, a setting that changes, events in any order | `AccessWasPaid`, `ClosedStaysClosed` |
| `payments_faulty` | 1 order, one throw or crash at any step and claims that stay, events in any order and overlapping, admins | `LogTellsStatus` |

Two requests are enough for every race of two handlers (no handler waits for a
third); two throws let both the redirect and a webhook fail, or one webhook
twice. `AgreesWithStripe` assumes that Stripe delivers an order's events in
order, which it does not promise: out of order, a refund that arrives before the
payment is ignored for ever, so that property is not claimed there. What does hold in
any order is the theorem `NeverAheadOfStripe` below: an order may stay behind Stripe, it
never goes beyond it. `ImplementsLifecycle` is checked without the admin's override,
because the first of the following breaks it.

What the code does that its comments do not say; the properties above hold in spite
of these, or speak of the instances without them:

- `markOrderFailed` checks that the order is pending in one query and updates it by
  id in the next (`order-service.ts:342`): an approval in between is overwritten, and
  the order ends failed with its enrolment active;
- a refund or dispute of an order whose payment intent is not recorded yet finds no
  order (`order-service.ts:376`) and is acknowledged: the order stays paid;
- a redelivery that overlaps the first delivery is acknowledged as a duplicate; if the
  first then throws and releases its claim, no retry comes
  (`stripe-webhook-service.ts:20`).

Fairness: a request that has begun goes on (a promise settles; the process is
scheduled), and Stripe repeats a delivery until it is acknowledged, which is
strong fairness because a worker need not be free at any given time. Nothing is
assumed of customers, banks or admins. `CHECK_DEADLOCK FALSE`: a finished
purchase has nothing left to do.

### Proofs

`OrderPaymentsProofs` proves, for any sets of orders, requests and enrolments
and any choice of the environment's constants:

- `TypeCorrect`: `Spec => []TypeOK`.
- `Inductive`: `Spec => []IInv`. `IInv` says what every request in flight relies
  on (`RequestOK`: one that will pay an order knows it was paid for; one that
  handles `expired` knows the session expired), what the rows of an order say of
  its session (`OrderOK`), and that one request creates an order (`OneCheckout`).
  None of the properties below is inductive without it.
- `RowSteps`: from `IInv`, a step changes the rows in six ways only.
- `ClosedForGood` (`ClosedStaysClosed`), `AccessFollowsPayment`
  (`AccessWasPaid`), and `Implementation`: when admins do not override, the
  specification implements `OrderLifecycle`. The last needs that a failed order
  holds a row of its `expired` event and a disputed one a row of its `disputed`
  event, so that the unique index turns a repeat into a rollback.
- `LogIsTheStory` (`LogTellsStatus`), for every environment: `LogMoves` says which
  log follows which when a row is appended. It too rests on the unique index: an order
  paid again after a dispute cannot be disputed a second time, and one that failed
  cannot fail twice.
- `NeverAheadOfStripe`, with no assumption on the environment (events in any order,
  repeated, overlapping or lost; throws and crashes; deferred and overriding approvals): an
  order that is paid, disputed or refunded was paid for (a completed session, a free order,
  or an instance in which admins approve by hand), a failed one has an expired session, a
  refunded one was free, refunded in full or lost its dispute at Stripe, a disputed one has a dispute there, and
  one that is paid after a dispute has won it. So what reordering or loss can do to an order
  is to leave it behind. `CauseInv` is what is inductive: the events say what Stripe holds and
  goes on holding (`Heard`, `StripeKeeps`), a request about to apply something has heard
  the cause (`HasCause`), and every status has its cause (`Caused`). The last clause rests on the
  log: a row tells that an order was disputed, and the step from disputed to paid is won.
- `AgreementWithStripe` (`AgreesWithStripe`) is a conditional result beside it, under
  `Orderly`: Stripe waits for the acknowledgement of an order's earlier events and does not
  deliver one that is being handled, payments are approved as they come and no admin
  approves them, and a fault is a call that throws. That is the environment of
  `payments_ordered`, for any number of orders, requests and throws. Stripe does not promise
  it and the code does not enforce it; none of it can be dropped (TLC finds a
  counterexample in `payments_ordered` with any one of them lifted). So it says what order
  of deliveries the code needs, and nothing of the three cases above. Its
  invariant `LedgerInv` says that an order's events are what Stripe holds, each once
  (`EventsOK`), that acknowledgements follow their order (`DeliveriesOK`), that what was
  handled is told by the status (`Told`, `ToldStays`), and `CauseOK`.

Model-checked only: `PaymentIsRecorded`, a liveness property.

## 4. QuizAttempts

One student and one quiz. A request in `req` is `[step, starting, attempt, sheet,
auto, limit, now, barred]`: the query it awaits next, what it has read so far, and whether
the answer key showed when it began to start an attempt (a history).

| Action | Code (`quiz-attempt-service.ts` unless named) |
|---|---|
| `StartAnew`, `ReadQuiz`, `CheckEligible`, `CreateAttempt`, `CreateNothing` | `startQuizAttempt`: nothing is open; the quiz row; `getAttemptEligibility`; the transaction under the advisory lock, which looks again for an open attempt |
| `FindExpired`, `ReadSaved`, `Finalize` | `getInProgressAttempt`, `saveQuizAnswers` and `submitQuizAttempt` on an attempt whose time is up: `autoSubmit`, which reads the saved answers and finalizes |
| `Send`, `CommitSave` / `Finalize` | `saveQuizAnswers` / `submitQuizAttempt` on an attempt still in time, whose transaction comes later |
| `Grade` | `finalizeAttempt`: the conditional `updateMany` to SUBMITTED, the answers and the score |
| `UpdateQuizSettings`, `CountAttempts`, `ArchiveQuiz`, `RemoveQuiz` | `quiz-service.ts`: the time limit, `maxAttempts` and the cooldown, which a teacher changes within one set of `Settings`; and `deleteQuiz`, which counts the attempts and then archives or deletes |
| `Tick` | the clock, one for all requests |

`kept` is a history variable: the sheets an automatic submission may grade
without losing what the student saved in time. It is what makes `AutoGradesSaved`
a statement about a save that races the deadline: the save is let through before
the deadline, the automatic submission reads, and only then does the save commit.

Abstractions: answers are whole sheets, and a sheet passes or does not (`QuizGrading`
says how). `quiz.most` (history) is the most attempts that were ever allowed; a quiz without
a maximum is one whose maximum exceeds the number of rows. The
quiz has questions and the student keeps the course: both only refuse a start.
The two queries of `getAttemptEligibility` are one step (what it decides is read in
the same one). A request that finds nothing to do is not an action. The
automatic submission holds no promise of its own: it happens when somebody looks.
An attempt that was started without a limit has no stored deadline, and then
`deadlineOf` takes the quiz's current limit: a teacher who sets one gives the open
attempt a deadline, although `quiz-service.ts:55` says "Open attempts keep the
deadline they started with". The model follows the code; no run is spent on it,
because one request after another shows it.

### Runs

| Run | Instance | Shows |
|---|---|---|
| `quiz_races` | 3 attempts, 2 requests, 2 sheets, clock to 2; a teacher who adds and removes a time limit of 1 with one attempt allowed, or one who allows one or two attempts in unlimited time with a cooldown of 2 between them; questions of at most 4 options worth 2 points, orders of up to 6 items | `TypeOK`, `OneOpenAttempt`, `RecordIsGraded`, `AutoGradesSaved`, `AttemptsBounded`, `KeyHelpsNoLaterStart`, `GradedOnce`, `CountedAttemptsKept`, `GradingIsFair` |

Two requests give every race of a pair; the third attempt row is there so that
`AttemptsBounded` (two attempts at most, with one allowed) has something to
exclude. With a limit of 1 and no grace a deadline passes at clock 2, so a
request can be let through at 1 and commit at 2. The grace is 0: it is only ever added to the
deadline. A cooldown of 2 outlasts the clock after a submission at 1 or later, and ends at 2 after
one at 0. All settings at once are more than TLC can do in the minutes we allow (this takes
2.4 million states), hence the two teachers. Requests
are interchangeable (`StudentSymmetry`), and a new attempt takes the first free row, as rows
differ in nothing; no property is a liveness property.
No fairness is assumed: nothing here promises to happen, an expired attempt that
nobody opens stays open. Deadlock is checked: there is always a request to make.

`AttemptsBounded` is what the code does keep. The eligibility check runs outside
the lock, so overlapping starts can exceed what was allowed, by one per other
request in flight. `KeyHelpsNoLaterStart` is about the same race from the other side: the
comment of `canRevealAnswers` (`quiz-rules.ts:21`) promises that the key is shown once it "can
no longer help on a later attempt". A start that was found eligible before may still
create its attempt afterwards; one that reads the quiz when no attempts are left never gets
to its insert. It rests on a start counting submitted attempts after that read, and on
submitted attempts staying submitted. Its mutant asks for eligibility as `attemptBlock` would if it
forgot automatic submissions. Raising the maximum lifts `barred`, since the teacher then
lets the student try again whatever was shown.

### QuizGrading

Pure operators, one per function of `lib/quiz-grading.ts`: `Shown` and `Drawn` are what
`buildAttemptSnapshot` may draw up, as sets over all shuffles; `gradeChoices`,
`gradeOrder`, `gradeQuestion` and `gradeAttempt` grade; `ChosenOf` and `readResponse`
are how a posted form becomes a response. Points are hundredths, which is what
`round2` leaves. `Questions` has every question of up to `MaxOptions` options, `PicksOf`
every form for it: options in any order, one of them twice, one that is none.
`QuestionsAreFair` and `AttemptsAreFair` hold of all of them, `MisplacingIsFair` of orders
of up to `MaxOptions + 2` items; TLC evaluates the three, as `GradingIsFair`, once an
attempt has been started. Four options have every kind of choice and of pick: more
right ones than wrong ones, as many, fewer. An order needs more items: only with four or more
can an item go from one place inside to another, and only with five is one pair left then.

`round2` rounds floating point numbers. Points lie halfway between two hundredths only when the number of
right options, or of pairs, is a multiple of eight; the model rounds such a half up. The score may lie
halfway too (`quiz-grading.ts:157`): 23 of 40 points is 57.5, and in floating point 57.499…, hence
57. So `gradeAttempt` is the set of scores that either way gives, and what is said of a
score is said of both.

Two comments promise more than the code, and the properties say exactly what the code does
instead: "ticking every box earns nothing" (`quiz-grading.ts:125`) holds when, and only when, at most
half of the options are right; "one item out of place costs a pair or two" (`:136`) is
three when an item goes from one place inside the order to another, and
`MisplacingIsFair` gives the number for each pair of places. And the score is rounded, so 99.5 %
is 100.

### Proofs

`QuizAttemptsProofs` proves, for any attempts, requests, sheets, limits, grace
and clock: `TypeCorrect`, `OneOpen`, `RecordIsWhatWasGraded`, `AutoSubmitIsFair`,
`GradedExactlyOnce` and `CountedAreKept`, from the invariant `IInv` (`Inductive`).
`AutoGradesSaved` is not inductive: `AutoOK` adds what an automatic submission in
flight has established (the deadline is over, the sheet it read is in `kept`),
`SavedIsKept` that the answers of an attempt not yet submitted are in `kept`, and
`TargetOK` that the attempt a request works on exists, unless the quiz was
deleted under it. `CountedAttemptsKept` needs `DeleterOK`: the teacher goes on
to delete only when the count saw nothing. The proof that a step keeps `IInv`
has a lemma per kind of step: requests that only move on (`QuietStep`), the ones
that write a row, the teacher and the clock.

`OverrunIsBounded` (`AttemptsBounded`) counts. Each request found eligible (`Creating`)
may add an attempt, so the attempts taken and these requests together are what stays
below the most attempts that were allowed so far (`quiz.most`) and one for each other request. The check for eligibility counts
submitted attempts only, so while an attempt is open the bound would be off by one:
`CountInv` adds that some request then does not race to open another, the one that
opened it. It needs that attempts and requests are finite sets
(`QuizAssumption`), and the lemmas of `FiniteSetTheorems`. `KeyHelpsNoLater`
(`KeyHelpsNoLaterStart`) is from `BarredInv`: a barred start that has yet to ask for its
eligibility finds no attempts left, as submitted attempts do not become fewer while the quiz
exists (`NoneLeftLasts`, by `GradedStep`), and is refused.

`GradingIsFair` is evaluated on `Questions` and `Banks`; most of what it says is also
proved, of any question a teacher can save (`Question`), any number of options and points
and whatever a form may post:

- `GradesAreFair`: the points are within the question's, all of them for a right answer.
  The converse, that full points are only for a right answer, needs fewer than 200
  options for each point: with one point and 200 right options, one of them missed, the
  missing half hundredth is rounded away. `OrdersAreFair` says the same of an order, up to
  200 items a point. Nothing in `lib/validations/quiz.ts` bounds the options, so the
  bound is stated and not assumed of the model.
- `MorePicksAreFair`: a wrong pick more never earns more, a right one never less, and
  ticking every box earns nothing unless most are right.
- `ShownIsFair`: every way to show the options shows all of them and leaves the grade
  as it is, and items to be ordered are never shown in the order kept.
- `ScoresAreFair`: the score is in 0..100, an all-right sheet scores 100 and passes, and a
  sheet that does better on a question and worse on none scores no less, whichever way
  the two are rounded. `ResponsesAreStable`: what was saved and is posted again
  is read as it was.

The argument goes by cardinalities (`CreditOfChoices`: right picks against picks),
monotone rounding (`RoundOf`) and, for orders, that all neighbours in common make the two
orders equal (`PairsMakeTheOrder`). `ChosenOf` and the sums of `gradeAttempt` are folds, that
is, recursive functions. `FoldExists` shows that there is such a function and
`PrefixSteps` and `SumSteps` unfold it step by step; induction over the steps is by the
least number for which something fails (`LeastExists`), because the library's induction
theorems cannot be instantiated here.

Left to TLC of `GradingIsFair`: what an item out of place costs (`MisplacingIsFair`), when
ticking every box earns something, and that each draw of questions has as many as any other, each once (`Drawn`,
which rests on the community modules' sorting of a set).

## 5. ChatMessages and ChatThread

`ChatMessages` is the server: the conversation row (`lastSeq`), its message rows, the
read position of each user, and requests `[step, msg, user, seq]`. A message is its
`clientMsgId`; a copy of a send is another request for the same message.

| Action | Code |
|---|---|
| `FindSent`, `FindNothing`, `Transaction`, `Conflict`, `FindRaced`, `Announce` | `sendChatMessage` (`server/chat/messages.ts`): the look for an earlier copy, the transaction, the unique index that rolls it back, the second look, and the answer with what the room is told |
| `ReadSeq`, `SetMark`, `CreateMark` | `markChatRead`: the clamp, the conditional update, the upsert |
| `Throw` | any query that throws, before or after the commit |

`ChatThread` adds one open conversation in a tab (`use-chat-thread.ts`). Its requests
are the server's own actions, taken with what the tab does at the same time.

| Action | Code (`use-chat-thread.ts` unless named) |
|---|---|
| `TabSends`, `Retry`, `Discard`, `Settle` | `send`, `retry`, `discard`, and the answer in `deliver`: over the socket when it is up, over HTTP otherwise |
| `AnswerDuplicate`, `AnnounceToRoom`, `SendThrows` | `message:send` (`chat.events.ts`) and `sendMessage` (`chat-service.ts`): a duplicate is answered and not announced |
| `NoAnswer`, `Disconnect` | the acknowledgement's timeout, the loss of the connection |
| `Receive`, `AnswerSync`, `ReceiveSync`, `SyncFails` | `onNew` with its gap check, the `sync` event and its answer |
| `ReadPage`, `ReceivePage`, `PageFails` | the page of the opening, and `loadLatest` |
| `Join`, `Recover`, `Reconnect` | `conversation:join`; `onConnect` of a recovered and of a new session |
| `MarkRead` | `markRead` |

`AnswerSync` joins the room (`chat.events.ts:270`) and reads the list in one step. In the code
the list is read after the join: a message sent in between reaches the tab twice, as a
packet and in the answer, and `mergeMessages` takes it once. A tab that
was in the room when it asked has exactly that in the model, so the step leaves out no case of its own.

`wire` is a set: packets of other nodes come through Redis, and nothing orders the
answer of a request and the broadcast of another. Recovery is all or nothing, as in
`RecoverableRedisAdapter`: a session is restored with its room and every packet it
missed, or there is a new one.

What the code loses. A saved message may stay hidden in an open tab until a later
sync or reload. `excused` and `skipped` are history variables that name each way, so
that `NothingMissed` says there is no other:

- the page of the opening, and a reload, replace the list: what arrived over the
  socket after the page was read is dropped (`setMessages(data.messages)`);
- the page may be read before the room is joined, and nothing asks for what was sent
  in between; a page that fails is not asked for again;
- a send that throws after its commit is never announced: its retry is a duplicate;
- the answer to a send of the tab is merged without the gap check of `onNew`, and the
  first message of an empty list is not checked either. So a tab that posts over HTTP
  while it is offline has, when it reconnects, a newest number past the messages it
  missed, and its sync asks only for what came after. This contradicts "so nothing
  sent while it was offline is lost" (`chat.events.ts:256`).

### Runs

| Run | Instance | Shows |
|---|---|---|
| `chat_thread` | an earlier message, one of the tab and one of somebody else; 2 requests, each message sent at most twice, one read report, one fault | `TypeOK`, `ImplementsLog`, `NotShownTwice`, `NothingMissed` |

The earlier message makes the list non-empty, so that the gap check is in force, and
leaves a number to skip. Two requests are two copies of one send, two senders, or a
send and a read. One fault is a lost acknowledgement, a lost connection, a throw, a
failed sync or a failed page; with two, the run takes more than the minutes we allow
it. `MaxReads` bounds only how often the tab reports, and `wire`, `syncs` and
`answers` are bounded by the messages. No fairness is assumed: `NothingMissed` speaks
of the states in which nothing is on its way. `CHECK_DEADLOCK FALSE`: with its
messages sent and its faults used, the instance may stop.

### Proofs

`ChatProofs` proves, for any messages, senders, users, requests and bounds:

- `Inductive` and `TypeCorrect`. `IInv` says that the rows are the log (`RowsOK`: one
  row per number up to `lastSeq`, one per message) and what each request relies on
  (`RequestOK`: the position it is about to write is not past the log).
- `ImplementsTheLog`: `Spec => ImplementsLog`. Without `RowsOK` the refinement
  mapping, which picks the row of a number, says nothing. A `Transaction` is a `Post`,
  a `SetMark` or an effective `CreateMark` is a `Read`, every other step a stutter.
- `TabImplementsTheLog`: the same of `TabSpec`, because every step of the tab is one
  of the server, or leaves its rows alone (`TabStepIsServerStep`).
- `ShownOnce`: `TabSpec => []NotShownTwice`, with `ShownOK` (what is on its way was
  saved; a request the tab listens to is for one of its own messages).
- `TabTypeCorrect` and `MissesNothing`: `TabSpec => []NothingMissed`, from `MissInv`.

`NothingMissed` is about quiet states, and nearly every step leaves a quiet state or comes
from one, so the invariant has to say what holds while things are on their way. It calls a
message `Safe` when it is shown, excused or skipped, is on a list the tab is about to get,
or is going to be asked for. The covers then say where a hole can be: a message older than
one shown is safe (`ShownCovers`: `onNew` adds past a gap only when it asks for what is
between), so is one not newer than what a sync asks after (`SyncsCover`), and an answer or a
page has no hole that is not safe (`AnswersCover`, `PagesCover`). What is newer than all
that, `RoomCovers` accounts for: in the room each message is safe, in a packet, or about to
be announced. Most steps only add to what is safe, and `CoversKept` takes those together.
What a sync asks after is `Newest`, the number of the newest message shown: a bounded set
of numbers has a greatest member (`MaximumExists`), because the set of its bounds has a
least one, by `WFMin`.

Left out: edits, removals, reactions, typing, presence, who may read and post (the
tab's user may), slow mode, replies, tickets, notifications, the page size and the
200 messages after which a sync answers `reset` (`SyncFails` stands for it).

## 6. CourseChannel

One student (neither staff nor the course's teacher), one standard channel of a course,
and the student's socket on one node. `access` is what gives them the course: an active
enrolment, a `CourseInstructor` row, an active subscription. `row` is their
`ConversationParticipant` row: none, in, or out (`removedAt`), with its role, and
whether a moderator removed them (`removedById`). A request is
`[kind, step, unread, found, row, since, out]`: the things that give access it has yet to
look for and those it has found, each look a statement of its own.

| Action | Code |
|---|---|
| `LoadInbox`, `Sweep`, `EnrollmentChanges` | the three ways into `reconcileCourseGroups` (`membership.ts`): an inbox load, the worker's sweep over its candidates, and a service that changed the enrolment |
| `ReadSource`, `FindRows`, `PutIn`, `StillAllowed`, `TakeOut`, `Announce` | `reconcileCourseGroups`: the desired roles, the rows, the two loops, and what it tells the bus; `ReadSource` is also each query of `courseGroupRole` |
| `OpenChannel`, `WriteOpen` | `getOrCreateCourseGroupConversation` |
| `AddMember`, `WriteAdded`, `RemoveMember`, `WriteRemoved`, `CheckRole` | `addMember`, `removeMember` (`channels.ts`) of a moderator |
| `SourceChanges` | an instructor assigned or removed, a subscription that starts or lapses: nothing tells the channels |
| `Ask`, `AskCached`, `Answer` | `AccessCache.get` over `resolveAccess`, for `conversation:join`, `sync` and `message:send` |
| `WritePost` | the participant row that `sendChatMessage` creates |
| `Invalidate`, `LeaveRoom`, `LosePacket` | the bus packets: without Redis, each is a POST of its own, and a failed publish is swallowed |
| `Disconnect`, `Recover`, `Reconnect`, `CloseConversation` | the socket; a recovered session keeps its rooms, also those it was told to leave meanwhile |
| `Throw` | a query that throws; `syncCourseMembership` swallows it |

`lost` and `held` are history variables: what was absent at some time since a
reconciliation began, and the last time the student had access. A question becomes a
join or a post when it is answered, which nothing can tell before. `Served` is false in
an instance where nobody asks: the bus and the socket are then left out.

Abstractions: an opening first asks `canAccessCourse` or `canManageCourse`, a further gate
that only refuses; the role it reads after that, which decides the row, is modelled. The
once-a-minute throttle of inbox loads only makes them rarer. The sweep takes 5000 students at a
time (`membership.ts:112`), in no order: with one student the limit is never reached, and `LapsedLeave`
speaks of a platform where fewer than that are out of place at once. Access through a subscription stands for "subscribed, and the course is published
and included". Muting, posting time-outs and the announcement-only setting only refuse a
post. A sending over HTTP asks `resolveAccess` itself, as a question with no cache would.

What the code does that its comments do not say: opening the channel clears `removedAt`
and not `removedById`, so a student whom a moderator removed comes back by opening it,
although "a moderator's removal from a standard channel holds" (`membership.ts:57`).
`EnrolledBelongs` allows either. An assistant who is no longer one keeps a MODERATOR
row, which the sweep does not look at: only their own inbox load removes it.

Nor that a removal may not reach the live room: a `conversation:join` that read the
enrolment before a refund and answers after the removal joins the socket
(`chat.events.ts:114`), and no later packet takes it out. So no property says that a
removed student is out of the room; `CachedAccessIsRecent` bounds how long they can
still post or catch up.

### Runs

| Run | Instance | Shows |
|---|---|---|
| `channel_members` | 2 requests to reconcile, open, add, remove; every combination of access, every starting row; 1 change, 1 throw; no clock | `RemovedForCause`, `EnrolledBelongs`, `LapsedLeave` |
| `channel_cache` | 2 requests to reconcile or ask; a yes cached for 2, a no for 1, clock to 2; the student in the channel or new to it; 1 change, 1 fault | `TypeOK`, `CachedAccessIsRecent` |

Two requests are a reconciliation from before a change and one after it, or one and
whatever undoes it. One change is enough for each property: the initial states have every
access and every row (in `channel_cache` a row is out only by a removal), so it may be
the loss or the return of any of the three. A fault is
a throw, a lost packet or a lost connection. `OkTTL` exceeds `DeniedTTL`, as 30 s exceed
5 s, so that a yes can be stale while a no is already forgotten. Requests are
interchangeable (`RequestSymmetry`), except in the liveness run.

Fairness: a query in flight is answered or throws (`WF_vars(Step(w))`), and the worker's
sweep, a repeating job every 15 minutes, runs again and again (`SF`: a sweep does not
wait for other requests, here it needs one of two slots). `EnrolledBelongs` assumes that
the student keeps loading the inbox; nothing in the server does it for them, because the
sweep only looks for members without an enrolment. Deadlock is checked.

### Proofs

`ChannelAlertsProofs` proves for any number of requests of any kinds, any lifetimes and
any bounds: `TypeCorrect`, `CacheStaysRecent` and `OnlyRemovedForCause`, from `IInv`
(`Invariant`). None of the three is inductive. `HeldOK` ties `held` to the clock.
`CacheOK` says that a cached yes expires within `OkTTL` of a time of access. It follows
for a new entry from `Fits`, what each request relies on: a question that found access
was asked before the student last had it, since the look is later than the question
(`AccessCache.get` takes the time before it awaits, and that is why). For a
reconciliation `Fits` says that whatever it has looked for in vain is in `lost`, and that
`lost` always has what is absent now: at `takeOut` it has looked for everything. Time and
changes of access only help (`Later`), a request's own steps are taken one by one.

Model-checked only: `EnrolledBelongs` and `LapsedLeave`, which are liveness.

## 7. CourseReview

One course. `course` is `[status, changed, featured, ready]`: the row's status,
`changedSinceReviewAt`, `isFeatured`, and whether the publish checklist
(`lib/studio.ts`) is complete. What the teacher writes is a version number: `content` is
what a review is about, `source` what the catalogue numbers are computed from, `stats` the
version they were computed from. A request is `[step, does, saw, wasFlagged, expired]`.

| Action | Code (`course-service.ts` unless named) |
|---|---|
| `EditDetails` | `updateCourseDetails`, `updateCoursePricing` (counted and flagged), `updateCourseLanding`, `updateCourseGoals` (flagged) |
| `EditCurriculum` | `createLesson`, `updateLesson`, `deleteLesson`, `deleteSection`; `moveSection`, `moveLesson` |
| `EditSection` | `createSection`, `updateSection`: neither counted nor flagged |
| `RateCourse` | `submitReview`, `setReviewHidden`, `deleteReview` (`review-service.ts`): counted |
| `ReadStats`, `WriteStats` | `refreshCourseStats` (`course-stats-service.ts`): its reads run side by side, and `ReadStats` is the first of them. What the others see can only be newer, and is counted as no newer |
| `ReadFlag`, `WriteFlag`, `NotifyAdmins` | `flagChangedSinceReview` |
| `Decide` (with `Needs`: `Submittable`, `AwaitingReview`, `Publishable`, `OnSale`), then `SubmitCourseForReview`, `ApproveCourse`, `RejectCourse`, `PublishCourse`, `UnpublishCourse`, `MarkCourseReviewed`, `SetCourseFeatured` | each decision: the read of the course with its refusals, then the update, by id alone |
| `Die` | a query of an edit throws, or the process dies between two |

Edits of the curriculum also run `recomputeCourseCompletion`, between their write and the numbers.
It reads and writes none of these rows (section 8 has it), so it is no step here; an edit
that dies in it is one that dies at `ReadStats`.

History: `signed` is the content of the last approval or sign-off, `told` whether the
admins were notified since, and `lapses` what has gone wrong: a decision written over a
status it does not apply to, an edit that died, a flag read before a sign-off, numbers
written over newer ones. The properties say that nothing else goes wrong:

- `ChangesAreFlagged`: what is approved or on sale beyond what was signed off is flagged,
  or its edit is about to; `ToldOfChanges`: and the admins know, or are about to;
- `FeaturedIsOnSale`: the home page's rail shows only what is on sale;
- `StatsAreFresh`: the numbers are those of the rows, or a recomputation will make them so.

What the code does that its comments do not say: every decision is written by id, so an
approval, a rejection or a publication that overlaps another one wins over it; an edit
whose request dies before the flag is written stays unseen; an edit that found the flag set
just before a sign-off cleared it sets it again and tells nobody; two overlapping
recomputations may leave the older numbers.

| Run | Instance | Shows |
|---|---|---|
| `course_review` | 2 requests, 2 edits | `ChangesAreFlagged`, `ToldOfChanges`, `FeaturedIsOnSale`, `StatsAreFresh` |

Two requests are any two of an edit, a rating and a decision, also two edits that
recompute at once. Two edits are one before and one after a sign-off, and the two versions
that recomputations can confuse; each lapse comes about with two. Deadlock is checked:
a decision can always be read. No fairness is assumed: nothing here promises to happen.

Left out: who may do what (checked before anything is read), the wording of notes and
notices, the position arithmetic of `moveSection` and `moveLesson`, slugs, and the pages
that are revalidated.

### Proofs

`CourseReviewProofs` proves `TypeCorrect` and all four properties
(`EveryChangeIsFlagged`, `AdminsAreTold`, `RailIsOnSale`, `NumbersAreFresh`) for any
number of requests and edits, from `IInv` (`Invariant`). The four together are nearly
inductive; what a request in flight knows is missing. `SeenIsPast`: no numbers were read
from rows newer than there are, so a recomputation that read the newest rows is not
overtaken. `FlagIsKnown`: an edit that found the flag set still finds it set, unless a
sign-off has made its look out of date, which `expired` records; otherwise an edit could
tell nobody of a change that nobody knows.

## 8. Completion

One student on one course. `lessons` and `done` are the lessons there are and those whose
`LessonProgress` is completed; `enrolment` is `[status, completed]` (whether `completedAt`
is set); `certificate` the certificate's row. A request is
`[step, lesson, completed, total, found, verdict, overlapped]`.

| Action | Code |
|---|---|
| `RecordLessonProgress`, `UpsertLessonProgress` | `recordLessonProgress` (`progress-service.ts`): access and the lesson, then the row |
| `CreateLesson`, `DeleteLessons` | `createLesson`, `deleteLesson`, `deleteSection` (`course-service.ts`) |
| `CountLessons`, `TallyProgress`, `WriteCompletion` | `recomputeCourseCompletion`: lessons and enrolments; lessons done and certificates; the updates |
| `GenerateCertificate`, `CheckEnrolment`, `CheckQuizzes`, `RereadEnrolment`, `CreateCertificate` | `generateCertificate` over `canGenerateCertificate` (`certificate-service.ts`) |
| `RevokeCertificate` | `revokeCertificate` |
| `EnrollInFreeCourse`, `EnrollUserByEmail`, `EndEnrolment` | `enrollment-service.ts`, and what orders do to the row; none touches `completedAt` |
| `ChangeOutside` | a quiz is passed, published or archived; the subscription lapses |
| `Die` | a query of a recomputation throws, or its process dies |

`recomputeCourseCompletion` treats the students of a course alike and apart, so one is
enough. The history variable `finished` says whether every lesson was ever done at once.
`drift` is why `completedAt` may be out of line: rows changed under a recomputation
(`overlap`), it found no active enrolment (`unenrolled`), a lesson was set undone
(`undone`), it died. The next recomputation that nothing overlaps clears these.
`miscounted` stays: one that was overlapped has set `completedAt`.

- `CompletionIsCurrent`: an active enrolment is completed exactly when every lesson is done,
  but for a recomputation still to come, a certificate held, or drift;
- `CertificateWasEarned`: whoever has a certificate had every lesson done at some time.

What the code does that its comments do not say. Lessons counted before a change and
progress counted after it complete a course that is not finished, and a certificate may
follow. A course finished under a subscription, or by previews, and then bought is not
recomputed, so it never completes by itself. A course bought again after a refund keeps its
old `completedAt`. A certificate created while a recomputation is between its look for
certificates and its update ends up beside a cleared `completedAt`, although a student who
has one "keeps completedAt" (`progress-service.ts:11`). A lesson set undone is not
recomputed until something else is, which then takes `completedAt` away.

| Run | Instance | Shows |
|---|---|---|
| `completion` | 2 lessons ever, one of them a preview; 2 requests | `TypeOK`, `CompletionIsCurrent`, `CertificateWasEarned` |

Two lessons let one be added or removed while the other is done, and a count be wrong by
one either way; the preview gives progress without access. Two requests are a
recomputation and whatever overlaps it, or a certificate and a recomputation. Deadlock is
checked; no fairness is assumed.

Left out: the minutes watched, the notes and the resume position, the certificate's
number, its PDF and e-mail.

### Proofs

`CompletionProofs` proves `TypeCorrect`, `CompletionStaysCurrent` and
`CertificatesAreEarned` for any finite set of lessons and any number of requests, from
`IInv` (`Invariant`). `SawRows` says that what a recomputation has read is still so, unless
something overlapped it: counts of done lessons and of lessons that agree mean that every
lesson is done, by a lemma on the cardinality of subsets. `InLine` is `CompletionIsCurrent`
of an enrolment that is not active too, since it is activated with the `completedAt`
it has. `Earned` says that before the student has finished, nothing is completed and no
certificate is on its way.

## 9. Presence and ChatAlerts

`Presence` is one user with tabs on several server processes, and two of the keys of
`server/realtime/presence.ts`: `online`, and `onScreen` for one conversation.

| Action | Code (`socket-server/gateway.ts` unless named) |
|---|---|
| `Connect` | the connection handler |
| `StartViewing`, `StopViewing`, `LeaveConversation` | `conversation:viewing`, `conversation:join` and `conversation:leave` (`events/chat.events.ts`) |
| `SocketGone`, `CloseViewing`, `FetchSockets`, `MarkOffline` | the disconnect handler, one step per call to Redis |
| `StartHeartbeat`, `TouchKeys` | the heartbeat: its list of sockets, then the keys |
| `ExpireOnline`, `ExpireOnScreen` | Redis: a key lives 60 s and is refreshed every 20 s, so it expires only when no socket refreshes it |
| `NodeCrash` | a process dies, and no handler of it runs |

`ChatAlerts` extends it with what tells that user of messages in the conversation: the
`Notification` rows with the conversation's group key, the read position, the steps of each
message's notification, the calls of `markChatRead`, and the worker's push scans.

| Action | Code |
|---|---|
| `SaveMessage`, `CheckViewing`, `FindOpen`, `WriteOne` | after `message:send`: who is looking (`chat.events.ts`), then `writeOne` (`notifications/notify.ts`), which takes its `createdAt` first, looks for the newest unread row and collapses onto it |
| `StartReading`, `AdvanceRead`, `RereadPosition`, `MarkGroupRead` | `markChatRead` (`chat/messages.ts`), `markGroupRead` (`notification-service.ts`) |
| `Dismiss` | `markNotificationRead` of one row, `markAllNotificationsRead` |
| `StartScan`, `ScanViewing`, `Push`, `MarkPushed` | `processChatPushScan` (`notifications/jobs.ts`), a repeating job of `worker/index.ts`; it takes the oldest 500 rows of all users, so of this user's any number, oldest first |
| `Ripen` | a minute passes for the unread rows |

The steps of the alerts read `onScreen` and never write it. `pushes` and `excused` are
history: how often a row was pushed, and the messages and rows for which a named race has
happened.

- `PresenceSettles`: whatever the handlers overwrote of each other, a user whose sockets
  stay comes to be online and remains it, one without sockets comes to be offline, and the
  viewing key comes to agree with the tabs;
- `UnreadIsAlerted`: a message not yet read, and notified, has an unread notification;
- `PushedOnce`: a row is pushed once, but for one that two scans held;
- `AlertIsPushed`: every message of which the user is to be told comes to be notified, and
  its notification to be pushed, settled without a push, or read.

What the code does that its comments do not say. A disconnect (`gateway.ts:205`) and
`conversation:leave` (`chat.events.ts:139`) delete the viewing key although another tab
still shows the conversation: for up to 20 s the user is alerted of what they see. A
message that collapses onto a row the user reads at that moment has no alert. Two
notifications at once create two rows, or lose a count. `markGroupRead` may take along the
alert of a message that came after the position it was asked for. Two scans that overlap,
or one after a dead one, push twice.

| Run | Instance | Shows |
|---|---|---|
| `chat_alerts` | tabs and messages together 2: two tabs of three, a tab and a message, or two messages; 2 processes, one of which serves two of the tabs; 1 reader; 2 scans, one of which may die | `UnreadIsAlerted`, `PushedOnce`, `PresenceSettles`, `AlertIsPushed` |

`PresenceSettles` needs two tabs on two processes to have handlers that overwrite each
other, and two on one process for `conversation:viewing`, which asks only its own process
for another tab (`StopViewing`); `UnreadIsAlerted` needs two messages to collapse, `AlertIsPushed` a tab and a message so
that a message can be skipped; all of them at once is more than TLC can do here, and
`MaxLoad` bounds the sum. Two scans give every race of two jobs; of
readers the run has one and the proofs any number. Scans stand for themselves
and are told apart, because liveness is checked.

Fairness: timers fire and calls to Redis return (`PresenceFairness`), a minute passes, the
steps after a saved message go on, and the scan is a repeating BullMQ job that any live
worker takes up (every scan but the mortal ones). Nobody has to connect, read or dismiss.
`CHECK_DEADLOCK FALSE`: a user with no tab, and everything told, may do nothing.

Left out: other conversations' keys, typing, the preferences, muting, e-mail digests and
the delivery queue, web push subscriptions and their expiry.

### Proofs

`ChannelAlertsProofs` proves `AlertsTypeCorrect`, `AlertedWhileUnread` (`UnreadIsAlerted`) and
`PushedAtMostOnce` (`PushedOnce`) for any messages, tabs, processes, readers and scans, from `AlertsIInv`
(`AlertsInductive`). It is the module that holds the theorems of `CourseChannel` too: one
is about who is in a course's channel, the other about who is told of its messages, and
neither's variables occur in the other's actions. The tabs have to be finitely many
(`AlertsAssumption`), since `SaveMessage` bounds their number and the messages' together.

- `AlertedOK` is stronger than `UnreadIsAlerted`: the unread row is one that tells of the
  message itself. Without that, a row read on behalf of another message could be the last.
  `ReaderOK` adds that `markChatRead` comes to `markGroupRead` only after the position has
  passed what it saw first, so that what it marks is read, or later and excused. This is
  the second query of `markChatRead`; without it the property fails.
- `PushesOK` says of every row outside `excused.rows` that one scan holds it at most, that it
  is marked, or held by a scan, from its push on, and that what a scan has yet to push was
  never pushed. `ScansOK` keeps what a scan pushes within what it took.
- `CountsNoMoreThanTold`: the count a row shows is at most the number of messages it tells of,
  though it is written back from a row that was read in an earlier query. `SendsOK` says the
  same of the count that a `writeOne` holds. The other direction is false: of two that
  overlap one is lost from the count.

Model-checked only: `PresenceSettles` and `AlertIsPushed`, which are liveness.

## 10. Helpdesk

Two desks without common state; `desk` says which one a behaviour is about. A ticket is
`[status, assignee, responded, asked, resolvedAt]`; a question has its vote rows, its
answers and the row `[upvotes, answerCount, accepted, answered]`.

| Action | Code |
|---|---|
| `ReadTicketForMessage`, `ApplyCustomerMessage`, `ApplyStaffMessage` | `applyTicketOnMessage` (`chat/support.ts`) inside the transaction of `sendChatMessage`: under the conversation's row lock, the ticket is read, then updated |
| `ReadTicketForUpdate`, `UpdateTicket` | `updateTicket`, one update of status and assignee, which does not take that lock |
| `ReadVote`, `CommitVote` | `toggleUpvote` (`chat/qa.ts`): the look, then the transaction that the unique index or the missing row makes fail |
| `ReadQuestion`, `CommitAnswer`, `PointToAnswer` | `answerQuestion`: the question, the answer with the count, and the question's pointer |
| `AcceptAnswer`, `MarkAnswered` | `moderateQuestion` |

`lock` holds the one request that has the conversation's row. `waiting` (history) says that
the customer's last message was neither replied to nor read by whoever closed the ticket;
`excused` names the races below.

- `TicketIsTrue`: a ticket has a time of resolution exactly when it is resolved or closed,
  and no customer message lies in a closed one;
- `QuestionIsTrue`: the counts are those of the rows, and the answer the question names is
  the one marked as accepted.

What the code does that its comments do not say: a reply writes back the status it read,
so a ticket resolved meanwhile is reopened with `resolvedAt` still set, or one reopened is
closed without; an agent who read the ticket before a customer's message closes it over
that message; two instructors who both find no accepted answer are both accepted.

| Run | Instance | Shows |
|---|---|---|
| `helpdesk` | 2 requests; 2 agents; 2 students with 3 vote rows; 3 answers | `TicketIsTrue`, `QuestionIsTrue` |

Two requests are a reply and an update, two updates, or two clicks; three votes let a vote
be given, taken back and given again (by the same student, with a new row) beside another;
three answers are two first ones and a later one. Deadlock is checked; no fairness is
assumed.

Left out: priorities, subjects and categories, ticket creation and its limit, reports and
blocks (`safety.ts`), editing and deleting questions, notifications.

### Proofs

`HelpdeskProofs` proves `TypeCorrect`, `TicketStaysTrue` and `QuestionStaysTrue` for any
number of requests, agents, students, votes and answers, from `IInv` (`Invariant`).
`SawUnderLock`: whoever applies a message holds the lock, and the status it read is the
ticket's, unless `updateTicket`, which takes no lock, came between. `Counted`: the
counters are cardinalities of the rows. `FirstIsFirst` is what makes the accepted
answer unique: one that found no accepted answer is the only accepted one until it is
named, unless another came between, and then the race is recorded when both
are named (`NamedIsAccepted`).

## 11. Billing

Two parts without common state; `desk` says which one a behaviour is about.

*Subscriptions.* One user and one plan. A checkout session is identified by the minute it
was opened in, as its idempotency key is; `stripe` and `emitted` are Stripe's
subscription and its events for each, `rows` the `Subscription` rows, `claimed` the
`StripeEvent` rows.

*Coupons.* The orders made with one coupon, its redemptions, and whether it takes the whole
price off.

| Action | Code |
|---|---|
| `ReadPlan`, `ReadActive`, `CreateSession` | `createSubscriptionCheckoutSession` (`subscription-service.ts`) |
| `SetPlanActive`, `NextMinute` | `setPlanActive`; the minute in the idempotency key |
| `ClaimEvent`, `HandleEvent`, `ReleaseEvent` | `processStripeEvent` (`stripe-webhook-service.ts`) over `upsertSubscriptionFromStripe` and `markSubscriptionEnded`, which are `WriteEvent` |
| `ReadToCancel`, `CancelInStripe`, `SaveAnswer` | `cancelSubscription` |
| `PaySession`, `ExpireSession`, `StripeUpdates`, `StripeDeletes` | Stripe: external |
| `SetUsable` | `setCouponActive`, and the coupon's dates |
| `ReadCoupon`, `CountRedemptions`, `CountUserRedemptions`, `CreateOrder` | `validateCoupon` (`coupon-service.ts`) in `createCheckoutSession` (`order-service.ts`) |
| `StartMarkOrderPaid`, `ReadOrder`, `MarkOrderPaid` | `markOrderPaid`, with the redemption in its transaction; an admin starts it without a payment |
| `ReadToFail`, `MarkOrderFailed` | `markOrderFailed`: the read that finds the order pending, and the update by id alone |
| `DisputeOrder`, `WinDispute`, `RefundOrder` | `applyDisputeOpened`, `applyDisputeWon`, `applyRefund` (also of a disputed order); `OrderPayments` has their steps |
| `Die` | a request dies; what it has claimed stays claimed |

`applied` is the newest event written to a row, `overtaken` the rows that something older
was written to after that, `overwritten` the orders that `markOrderFailed` failed after they
had been paid, `late` the checkouts that began when a limit was reached.

- `SubscriptionsAgree`: once the newest event of a subscription is applied, its row says
  what Stripe holds, whatever was lost, repeated or cancelled before, unless it is in
  `overtaken`;
- `CouponsAreLimited`: the redemptions are exactly those of the orders that were paid,
  disputed, refunded or overwritten to FAILED since, and no checkout
  that began when a limit was reached gets the discount.

What the code does that its comments do not say: events carry snapshots and are written as
they come, so an older one that arrives late brings an ended subscription back, and a
deletion before its creation is forgotten; the answer to a cancellation may be written over
a newer event; a crash after the claim loses an event for good; checkouts in two minutes
are two sessions and two subscriptions, of which a cancellation ends one; limits are
checked at checkout and redeemed at payment, so checkouts that overlap exceed them; a
refund or a lost dispute does not give a redemption back; an order that an admin approves
while its expired session is handled ends failed, with its redemption.

| Run | Instance | Shows |
|---|---|---|
| `billing` | 2 requests; 2 minutes, 3 events; 3 orders of 2 users, limits 2 in all and 1 each; orders free or not | `SubscriptionsAgree`, `CouponsAreLimited` |

Three events are created, updated and deleted of one subscription, in any order, or those of
two; two minutes are two subscriptions at once. Three orders exceed both limits. Deadlock is
checked; no fairness is assumed: `SubscriptionsAgree` speaks of rows whose newest event has
been applied.

Left out: the period's end, several plans, the plan's price in Stripe, the amounts of a
discount, `createPlan` and `createCoupon`.

### Proofs

`BillingProofs` proves `TypeCorrect`, `RowsFollowStripe` and `CouponsStayLimited` for any
number of requests, subscriptions, orders and users, any limits and whatever `MaxEvents`
bounds the instance to, from `IInv` (`Invariant`).
For subscriptions: the last event says what Stripe holds (`EventsTellStripe`); a row says
what the newest event applied to it says (`RowsTellEvents`), where the answer to a
cancellation may know of an event that is still to come; and a request handles an event
that exists (`CarriesEvent`). For coupons: one request checks out an order (`CheckingOut`),
and limits that were reached stay reached, since nothing takes a redemption away, so a
checkout that began then is refused before it creates an order (`LateIsRefused`); and
the unguarded write of `markOrderFailed` leaves the redemption and names the order (`FailKept`).

## 12. What is not modelled

- **Accounts, sessions and rate limits** (`auth-service.ts`, `user-service.ts`,
  `lib/auth.ts`, `lib/rate-limit.ts`). Most operations are one statement on one user; the
  tokens and the session version are the plan's `Accounts`.
- **Safety, teacher applications**: blocks, reports and applications are each a check and a
  write; no other modelled state depends on them.
- **Catalogue, home, landing, studio, categories, wishlist, notes, pages**: queries, and
  writes of a single statement, which have no step to interleave with.
- **Notifications** other than those of chat: digests, the delivery queue, web push and
  preferences. **Chat**: batch channels, edits, reactions, typing and moderation.
- **E-mail, PDF, formatting and routing helpers** keep no state.
- **The user interface** is about half of the code. Its React components render rows and
  call the services; the only one with a protocol of its own is the chat thread
  (section 5). The map therefore covers services and socket server, not the pages.

The parts that are modelled in part say above what they leave out. Each part, its reason
and every hazard found while reading is in `PROJECT.json`; a hazard without a property, or
one whose property only bounds it, says why.

The type invariants of `CourseReview`, `ChatAlerts`, `Helpdesk` and `Billing`, and `TabTypeOK`,
are in no configuration, to keep the runs about the properties above; each is a theorem.
