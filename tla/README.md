# Formal models of the invitation service

TLA+ specifications of the invitation service: the life of an invitation from
the guest's reply to the linked account, the capacity for plus-ones, the
confirmation chain with its seats, links, jobs and reminders, the guest list
with what it leaves in the cache and at the authentication service, the
projections of the event, magic links, and the transactional outbox of analytics
facts. TLC checks small instances; TLAPS proves the invariants, the action
properties and the refinements for every value of the constants.

Source paths below are relative to `src/`, the service's own directory.

## The system

The service is a NestJS process (usually several replicas) over one PostgreSQL
database, a Valkey cache, a Kafka broker and a queue of delayed jobs. Every
operation is an asynchronous handler: a GraphQL resolver, a Kafka consumer, a
delayed job or a timer. Between two awaits of one handler any other handler, in
this process or another one, may run. Almost every operation reads a row, looks
at what it read, and later writes the row back by its id without a condition:
that is where most of the difficult behaviour comes from. The transactions run
at PostgreSQL's default isolation level (read committed).

| Component | State it keeps | Operations | Hard behaviour | What makes it correct |
| --- | --- | --- | --- | --- |
| RSVP domain (`invitation/models/domain/rsvp.domain.ts`) | none (pure) | decide | - | the status and the fact follow from the answer |
| GuestWriteService | invitation rows, cached contacts | reply, createPlusOne, deletePlusOne, deleteAllPlusOnes, createFromPublicRsvp, updatePlusOne | stale reads, double replies, capacity counted in some paths only | answers are final; status, facts and capacity agree with the table |
| AdminWriteService | invitation rows | create, approve/reject, bulkApprove, bulkStage, updatePlusOneLimit, delete, deleteMany, import, resendGuestConfirmations | lost updates, checks after the write, counts that are out of date | an approval is earned by a YES and reaches the guest; the limit holds |
| GuestConfirmationService; handlers of seat answers, ticket jobs, reminders, account links; repair script | pending contact in the row and in the cache, cool-down key, locks, jobs, sign-up marker | sendFirstConfirmation, requestSeatReservation, resendConfirmation, requestPublicResend, the handlers | repeated messages, locks that expire under the work, jobs that are dropped, crashes with a lock | a seat before a link, links that resolve, a confirmation in the end, bounded reminders |
| InvitationWriteService | invitation rows | addGuestId, deleteByGuestId, deleteByEventIds | races with approvals and deletions | the link is made once and for an existing row; an account whose deletion was asked for has no row |
| Analytics outbox | outbox rows | enqueue, the polling publisher | several instances, leases, lost acknowledgements, crashes | every fact has one outcome, eventually |
| Event projections (settings, roles, access) | three projection tables | the Kafka handlers of seven topics, getPermissionsForUser | reordered and repeated messages, reads before upserts, comparison with the time of writing | the newest access change wins; rows go back only in races |
| Guest magic link | a counter per ip address in Valkey | request (limit, look up, choose, dispatch) | INCR and EXPIRE are two calls; rows in any order | bounded windows that end; one recipient or none |
| Import pipeline | invitation rows | import; preview and column mapping are pure | names read once, rows inserted one by one | a name is imported once |
| Reads, resolvers, wiring | none | queries, transport | - | - |

Two stores take no part in the database's transactions: the Valkey cache of
pending contacts, and the accounts of the authentication service, which are
deleted by Kafka commands. The services write to both in the middle of
transactions, or after them.

Interactions: reply with automatic approval calls bulkApprove; approve grants
access at the event service (a remote call) and hands the invitation to the
confirmation chain, at once or by a delayed ticket job; the chain asks the seat
service for a seat over Kafka and is resumed by its answer; the notification
service delivers the link; the ticket service reports the account, which
addGuestId links to the row, whereupon the marker is written that the
authentication service polls. Every change that matters to analytics enqueues a
fact in its own transaction, and the publisher sends it later.

## Modules

| Module | Models | EXTENDS / INSTANCE |
| --- | --- | --- |
| `GuestAnswer` | abstract: what the RSVP promises to guests and administrators, each operation in one step | |
| `InvitationLifecycle` | reply, approve, reject, bulkApprove, bulkStage, addGuestId on the rows of one event; implements `GuestAnswer` | INSTANCE `GuestAnswer` |
| `PlusOneCapacity` | everything that adds, removes, counts or limits the plus-ones of a parent | |
| `GuestRegistration` | abstract: what the confirmation chain promises for an invitation, without handlers, locks and faults | |
| `GuestConfirmation` | the confirmation chain of one invitation, with the seat and notification services; implements `GuestRegistration` | INSTANCE `GuestRegistration` |
| `GuestList` | how invitations come onto the list of an event and go off it (create, import, public RSVP, createPlusOne, reply, all deletions, addGuestId), with the cached contacts and the account commands | |
| `EventProjections` | the access, role and settings rows of one event and their Kafka handlers | |
| `MagicLink` | the request of a magic link: limiter, lookup, choice, dispatch | |
| `FactDelivery` | abstract: what the outbox promises for each fact | |
| `AnalyticsOutbox` | enqueue and the publishers of all instances; implements `FactDelivery` | INSTANCE `FactDelivery` |
| `MCLifecycle`, `MCCapacity`, `MCConfirmation`, `MCGuestList`, `MCMagicLink` | symmetry, names, files and rows for TLC | EXTENDS the above |
| `*_proofs` | theorems | EXTENDS the above, TLAPS |

Each split handler is a *request* or *run*: a slot with a place (`at`, where the
handler is suspended) and its local variables (`job`, what it read). One action
is what the code does between two suspensions that matter; consecutive awaits
are joined where no other handler can make a difference in between.

### InvitationLifecycle

A row keeps `rsvpChoice`, `status`, whether it owns a pending contact and
whether an account is linked. `ReplyRead` is the read and `RsvpDomain.decide`;
`ReplyCommit` is the transaction that stores the answer, the status and the fact
and inserts the plus-ones of the RSVP. `ApproveRead`, `Grant`, `ApprovePersist`
and `ApproveTail` are approve up to the remote grant, the grant, the write and
the hand-over. `RejectRead`/`RejectCommit` and `StageRead`/`StageCommit` are the
other administrative handlers, `LinkGuest` is addGuestId, `Fail` a handler that
dies at an await. `handed` are the invitations given to the chain, `fact` the
last RSVP fact of each, `granted` those whose account has access to the
event; `clobbered` and `rejected` are history.

`GuestAnswer` has no requests: a guest answers until there is a YES or a NO,
which stands; the fact comes with the answer; approval, hand-over and access
(`admitted`) go to a YES only, and access is never taken back. It allows anything of an
invitation whose final answer was overwritten (`contested`, here `clobbered`),
and nothing else. The refinement mapping reads off the row: `answer` is
rsvpChoice, `approved` the status APPROVED, `registered` the linked account.
`ReplyCommit` is then `Reply`, or `Contest` when it overwrites a final answer;
all reads are stutters, because nothing is promised before it is stored.

Abstractions: two levels of plus-ones; names, notes and phones left out (a guest
name is always complete); rows exist from the start: creation and deletion are
in `PlusOneCapacity`.

### PlusOneCapacity

`room` is the column maxInvitees, which is *what remains*, `kids` the child
rows. createPlusOne (a conditional decrement), deletePlusOne, delete, deleteMany,
deleteByGuestId and the creations are one step each, because they hold the row
locks from their first write; reply (`ReplyRead`/`ReplyCommit`),
deleteAllPlusOnes (`ListPlusOnes`/`DeleteListed`) and updatePlusOneLimit
(`CountPlusOnes`/`SetLimit`) are split. `limit`, `owed`, `lost` and `miscounted`
are a ledger the code does not keep; the invariants compare it with the column.
Ids of plus-ones are never used twice; the set `Kid` is finite (assumption
`CapacityAssumption`); a parent's `room` may start at -1, which the import
accepts.

### GuestConfirmation

One invitation after an accepted reply. Each await of sendFirstConfirmation
after which something may have changed is an action: `FirstRead`, `ReAnchor`
(contact into the cache under a new token), `PersistSend`, `EmitConfirmGuest`,
`ScheduleReminders`; likewise requestSeatReservation (`ReserveRead`,
`RequestSeat`), resendConfirmation (`ResendRead`, `CheckCooldown`,
`SetCooldown`), ticket jobs and reminders (`FireTicket`/`TicketRead`,
`FireReminder`/`RemindRead`, with their 60-second locks), the answers of the seat
service (`HandleReserved`), the account link and its marker (`LinkGuest`,
`WriteMarker`), the repair script (`Reconcile`). approve, reject and delete
appear as what they do to the chain. `SeatReserves`, `SeatUnavailable` and
`Notify` are the other services, modelled from the contract in
`guest-seat-reservation.ts` and the comments of the service, and marked
external. A run may fail, a process may stop with its lock held, locks run out
under slow runs at any time, and messages and jobs may be delivered again.

Abstractions: messages of one kind with the same fields are one element (there
or not); times to live of cached contacts are not modelled (a lost contact is
one of the things a resend repairs); an early, disabled or late reminder is a
nondeterministic skip. `seated` rows carry a seat in the stored payload: the
code and its tests handle them, though nothing in this service stores one. The
rows start after a reply with YES; later replies are in `InvitationLifecycle`.

`GuestRegistration` promises an order: a seat, a link with a token of its own
(published once, for a reserved seat only after the reservation), its delivery
(once), an account while the invitation is on the list, the marker. The mapping
takes `held` for the reservation, `sent` for the links, `notified` for the
deliveries, and the row and the marker for the rest; locks, jobs, retries and
repeated messages are stutters.

### AnalyticsOutbox and FactDelivery

Each instance polls the oldest due, unlocked facts (`Poll`), leases them one by
one (`Claim`, a conditional update), reads (`Read`), sends (`SendAcked`,
`SendFailed`, `SendLost` when the broker took the fact but the answer is lost)
and stores the result (`MarkPublished`, `MarkFails`, `RecordFailure`). `Abandon`
is a stopped process, `LeaseLapses` the end of an orphaned lease,
`LeaseOverrun` of one whose holder is still at work. Faults are counted and
bounded. `FactDelivery` knows neither instances nor leases: a fact is recorded
once, delivered any number of times, acknowledged only after a delivery, or
given up; `ImplementsFactDelivery` maps the table to it.

### GuestList

`rows`, `parent`, `contact` (the token pendingContactId), `answered` and
`linked` are the table; `cache` and `owner` are the cached contacts and the
invitation each token was made for; `asked` are the accounts whose deletion was
sent. createFromPublicRsvp commits its rows, then caches the contact
(`CacheGuest`), then stores the token (`AttachContact`); createPlusOne and reply
cache it in the middle of their transaction (`CacheChild`/`CommitChild`,
`ReplyBegin`/`ReplyCommit`). deletePlusOne and deleteAllPlusOnes read contacts
and accounts, and then, row by row, drop the contact (`DropContact`), delete
(`DeleteRow`, which waits for the row's lock and ends the transaction if the row
is gone), send the command (`SendDeleteGuest`) and commit. `Delete` is every
deletion that leaves the other stores alone; the cascade to plus-ones is `Tree`.
An import is `ImportRead` (the names) and one `ImportLine` for each line. Locks
are implied by what the suspended transactions have written (`Locked`).
`undone`, `died` and `overlapped` are history: rows given back by a rolled-back
deletion, rows whose request died, imports that overlapped.

Abstractions: an answer is a YES or not yet; capacity is in `PlusOneCapacity`;
contacts cached anew by the confirmation chain are in `GuestConfirmation`; the
time to live of cached contacts is not modelled. An id is never used twice.

### EventProjections

Messages of the event service (`Send`) carry the time the change occurred.
Kafka delivers each until a handler returns (`Delivered`; a delivery more is a
fault), in any order, to two handlers at a time. A handler reads the row
(`HandleUserAccessChanged`, `HandleRole`, `ReadNewOwner`, `HandleEventUpdated`),
skips what is `Stale`, and writes an await later (`UpsertAccess`, `UpsertRole`,
`DeleteRole`, `UpsertOwner`, `UpsertSettings`). A change of owner and a deletion
go through several rows (`DropOldOwner`, `Wipe`). A row keeps what it was made
from (`from`) and when it was written (`stamp`, the column updatedAt); an access
row is stamped with occurredAt. The properties of what is stored and of
`Permissions`, which getPermissionsForUser answers, compare the two.

Abstractions: one event; one clock for both services (skew makes the comparison
with updatedAt worse, not better); a setting is the time of the change it came
from.

### MagicLink

`Arrive` is INCR, `Expire` the EXPIRE of the request that started the counter;
in between others are counted and the process may stop (`Fail`). `Age` and
`Lapse` are Valkey's clock. What follows the limiter depends only on what the
lookup finds, and lookups may find any rows: eligibility, the ladder of
resolveEligibleMatch (`Resolve`) and ineligibleReason are pure operators on a
function from invitations to rows, checked against the declarative `IsPinnedDown`
for every set of rows (`OnlyPinnedDown`, `EveryPinnedDown`; the invariants claim
them of the requests that are about to send or to look up). `Sortings` are all
the orders that sort() may return. Names and identifiers are classes of what
their normalisation makes equal.

## Runs

| Run | Bounds | Shows |
| --- | --- | --- |
| `lifecycle` | a guest and a plus-one, 2 requests, 1 dead request | status and facts agree with the answer, approvals are served, and the handlers implement `GuestAnswer`: answers, approvals, hand-overs and access as if each operation were one step, outside double replies |
| `lifecycle_live` | 1 guest, 2 requests, 1 dead request | automatic approval completes |
| `capacity` | 1 parent, 3 plus-ones, limit up to 2, 2 split requests | the ledger balances, the limit holds for counted additions, capacity does not go below zero |
| `confirmation` | 2 runs, 1 call, 4 tokens, cap of 1 reminder, 1 fault | exclusive jobs, capped counted reminders, and the refinement of `GuestRegistration`: seat, link, delivery, account and marker in this order, each token published and delivered once |
| `confirmation_live` | 2 runs, 2 calls, 3 tokens, no reminders, no faults | a seat before a link, links resolve, approvals are confirmed |
| `outbox` | 2 instances, 2 facts, batches of 2, dead letter at 2 failures, 2 faults | exclusive work, single delivery and outcome, at most one repetition for each fault, earned dead letters, liveness, refinement |
| `guest_list` | 2 invitations of one name, 3 contacts, 2 requests, 1 dead request, files with a repeated name and with a bad number | contacts resolve and are the newest, public guests have one, deleted accounts have no row, names are imported once |
| `projections` | 2 users, 2 settings, 2 messages, 2 handlers, 1 fault | the newest permissions win, rows go back only in races or by event.created, every access change arrives |
| `magic_link` | 2 addresses, 3 requests, windows of 3, 8 kinds of rows in sets of up to 3, 1 fault | windows are bounded and end, the link goes to the one person pinned down and is ambiguous only if nobody is |

Three runs each show that something the repository says does not hold of the code:

| Run | The repository says | The code does |
| --- | --- | --- |
| `answer_is_final` | "Prevent double RSVP" | two concurrent replies both pass the check; the later overwrites a final answer |
| `skipped_confirmation_was_granted` | "event access already granted on approval" | an account linked between approve's read and write gets neither grant nor confirmation |
| `skipped_is_stale` | "Skipping stale event.updated" | occurredAt is compared with the time the row was written here: a newer change is skipped |

Why the bounds are enough: every race of these handlers is between two of them,
one suspended and one running to its end, so that two slots show it; the third
party (a link, an expiry, a seat answer, another service) is an action without a
slot. One parent with three plus-ones has a full, a free and an overfull
capacity. Three tokens are the initial contact and two sends at once; four are
needed for a confirmation and two reminders, where the cap bites. Two
invitations of `guest_list` are a parent and a plus-one, or two roots of one
name; three contacts are a double reply and a public RSVP. Two messages are what
it takes to be reordered, and with the repetition three deliveries; three clock
values tell older, written and newer apart. In `magic_link` three rows are two
that tie and a third, and windows of three are started, filled and exceeded. Two failures
to a dead letter show the off-by-one and the lost update of the counter. Slots
are identified under permutation in `lifecycle`, `capacity`, `confirmation` and
`guest_list`, which treat all alike (no liveness is checked there). Deadlock is not checked where the modelled world
may rightly come to rest: nobody is bound to send a request, and calls and
faults are bounded.

Fairness. `lifecycle_live`: a handler that has started is resumed
(`WF(Continue(q))`): the event loop resumes every settled promise, and requests
that die are the action `Fail`. `outbox`: the timer fires each second and a
round goes on (`WF(InstanceStep(i))`; the broker client answers or times out),
and time passes (`WF` of `LeaseLapses` and `BackoffElapses`).
`confirmation_live`: handlers are resumed, orphaned locks expire, the seat
service answers; seat answers and ticket jobs are consumed although every slot
may be busy now and then (`SF`, because slots are a bound of the model and not
of the program). `projections`: Kafka delivers again what no handler has finished
(`WF(DeliverNew)`), and a handler's calls return or throw (`WF(Continue(r))`).
`magic_link`: requests are resumed and Valkey's clock runs (`WF` of `Continue`,
`Age` and `Lapse`; `Age` and `Lapse` are two, so that a window renewed by every
request would never end). No client, administrator or guest is assumed to act.

Every property of a passing run is paired with a mutant: a fault operator,
marked `Fault:` in the modules, that changes one definition the way a plausible
bug would (a dropped guard, an off-by-one, a wrong status, a lock released
blindly), and under which the property fails.

## Proofs

For every set of invitations, requests, parents, instances, facts, users,
handlers and addresses, and every value of the bounds:

- `InvitationLifecycle_proofs`: `TypeCorrect`, `StatusCorrect`, `FactsCorrect`,
  `OnlyAcceptedHanded`, `OnlyAcceptedAdmitted`, `ApprovalReachesGuest`,
  `LifecycleRefinesAnswer`, `SerialAnswersAreFinal`. None of the invariants is
  inductive alone, because handlers write from what they read earlier.
  `LifecycleInv` adds what each suspended handler still knows about the row
  (`RequestInv`: an approval that read YES finds YES, or a clobbered or rejected
  invitation) and what the table keeps (`TableInv`). The refinement of
  `GuestAnswer` follows from it step by step: what a suspended approval read is
  what makes `Approve`, `HandOver` and `Admit` possible when it writes. The last
  theorem complements the run `answer_is_final`: with one request at a time
  (`OneAtATime`) no final answer is replaced, so that overlapping replies are
  the only cause of what that run shows.
- `PlusOneCapacity_proofs`: `CapacityTypeCorrect`, `CapacityIsAccounted`,
  `RoomIsValid`, `LimitHolds`. `CapacityInv` is the ledger equation together with
  what a suspended limit change or list may assume (`JobsValid`); the arithmetic
  of finite sets is in lemmas on adding and removing plus-ones.
- `AnalyticsOutbox_proofs`: `OutboxTypeCorrect`, `WorkExclusive`, `DeliveredAtMostOnce`,
  `DeadLettersEarned`, `OutcomesExclusive`, `OutboxRefinesDelivery`. `OutboxInv`
  relates each publisher's place to the lease, counts of failures to what
  publishers have read (`FailureInv`), and deliveries to outcomes
  (`DeliveryInv`). That each fault costs at most one repetition needs an
  account of deliveries to come (`PaidInv`): the deliveries of a fact and the
  publishers that are about to deliver it are together no more than the faults
  and one, which only a lease at work or a published fact provides. A publisher
  that records its failure gives the one back before the next may take it.
  The refinement maps the initial state to an initial state and
  every step to a step of `FactDelivery` or a stutter.
- `GuestConfirmation_proofs`: `ConfirmationTypeCorrect`, `JobsExclusive`,
  `SeatComesFirst`, `TokensResolve`, `MarkerIsEarned`, `CountedRemindersCapped`,
  `ChainRefinesRegistration`.
  `ConfirmationInv` adds to the types: a run that has not outlived its lock holds
  it and nothing else (`LockInv`; without it a late release could free a
  successor's lock); what names a reserved seat was started by the seat service
  (`SeatInv`); a run about to publish a token has stored its contact, or the
  guest has been served (`TokenInv`); only a linked row reaches the marker
  (`MarkInv`); and one reminder at a time is at work, with its place under the
  cap already taken (`CapInv`). Each conjunct has its own step lemma, with one
  case for each action. The refinement of `GuestRegistration` also needs to know
  that tokens are issued once and to one run each, that a run about to publish
  is the first to publish its token, and that a delivered token has left the
  cache (`FreshInv`).
- `GuestList_proofs`: `GuestListTypeCorrect`, `TokensLead`, `NewestContact`,
  `PublicContacts`, `AccountsGoWithRows`, `NamesImportedOnce`. `BasicInv` is the
  types, what each place of a request implies for its local variables (`JobInv`),
  and that ids not used yet have left no trace (`FreshInv`). `CustodyInv` says
  who holds which row: deletions at work touch different rows, and those are
  still there; this is where the locks matter, and what rolls back safely rests
  on it. On top, one invariant for each property: contacts of rows and of
  transactions (`ContactInv`), tokens in hand (`NewestInv`), names an import
  knows (`ImportInv`).
- `EventProjections_proofs`: `ProjectionTypeCorrect`, `NewestPermissions`,
  `RolesGoForward`, `SettingsGoForward`, `SerialAccessIsNewest`,
  `SerialRolesGoForward`. `ProjectionInv` says that no message is
  from the future, that a handler past its check holds a message no older than
  what it read (`JobInv`), that a row was made from a change that had occurred
  when it was written (`RowInv`; this is why the comparison with updatedAt errs
  on one side only), and that access rows are the newest handled (`AccessInv`).
  The two action properties follow step by step. The serial theorems show that
  overlapping handlers are the only reason for the exceptions these properties
  make for races: with one handler at a time what it read still holds when it
  writes (`SeenInv`), access is always the newest change handled, in whatever
  order messages come, and no role is replaced by an older one.
- `MagicLink_proofs`: `LimiterTypeCorrect`, `WindowIsBounded`, `CountersLapse`,
  `ChosenArePinnedDown`, `PinnedDownAreChosen`, `RefusalsAreExplained`.
  `StarterInv` says that the request which started a counter is alone with it, has not been let through,
  and keeps it from lapsing; so the requests let through stay below the count.
  The choice is proved for any rows and any order that sort() may return. That
  the one person pinned down is found also needs that sort() returns some order:
  if any rows had none, the fewest such rows would have the order of all but the
  oldest of them, with the oldest last (`SortingExists`).

Every invariant and action property of a passing run, and each refinement, is
stated by a theorem. `OnlyAcceptedAreHanded`, `OnlyAcceptedAreAdmitted`,
`MarkerProvesLink`, `KeyWillLapse`, `RefusalIsExplained` and the serial
properties are proved and need no run of their own; the first three are
consequences of refinements that are checked.

The assumptions are the named ASSUMEs of the modules; the serial theorems state
theirs, which the models satisfy with a single request or handler. Only
model-checked are the liveness properties (fairness and ENABLED are outside what
the proof system handles) and the three disagreements.

## Known deviations without a run

Met while modelling; each follows from reading the named lines.

- An approval without pending contact stores APPROVED and then throws
  (`invitation-admin.write.service.ts:229-278`); the retry is refused (194).
- A process that stops after storing APPROVED leaves the same state.
- A reply that read a row before it was staged replaces APPROVAL_STAGED by
  ACCEPTED (`guest-write.service.ts:152-156`).
- A guest whose invitation was rejected before any answer can reply and is out
  of REJECTED: reply looks only at the earlier answer (144).
- The import stores a negative maxPlusOnes that create refuses (879 against 84).
- A rejection during sendFirstConfirmation is undone as far as the pending
  contact goes (`guest-confirmation.service.ts:148-149`).
- Two resends may pass the cool-down together (305-316); a repeated
  seat.reserved sends a second link; two concurrent approvals both start the
  chain, though the comment says only a new one does.
- bulkStage "Persists an internal approval decision without creating a guest,
  ticket, delayed job" (606-607), but writes by id what it validated earlier
  (632-657): an approval in between has handed the invitation over already.
- "Their count is capped by `maxInvitees`" (the repository's README, line 52):
  the column is what remains, and reply, createFromPublicRsvp and create under a
  parent take nothing off, so that createPlusOne fills the same places again. The
  ledger of `PlusOneCapacity` (`owed`) counts them.
- "existing children are subtracted atomically" (459): a plus-one committed
  between the count (481) and the write (494) of updatePlusOneLimit is not.
- "max resends reached" (`guest-confirmation-reminder.handler.ts:145`): a resend
  that goes through the seat reservation is not counted
  (`guest-confirmation.service.ts:329-332`), and the seat.reserved that follows
  schedules reminders again. `CountedRemindersAreCapped` is about the others.
- "Removing linked guests emits authentication cleanup commands"
  (the repository's README, line 52): delete, deleteMany, and deleteByGuestId for
  the plus-ones that go along, send none, and neither they nor the cascade
  remove cached contacts, which stay until they expire; deletePlusOne sends one
  for the account it read, not for one that addGuestId links before the row is
  deleted.
- A rolled-back deletion of plus-ones has dropped cached contacts, and may have
  sent the command, of rows that stay (`undone` in `GuestList`).
- A public RSVP whose process stops between the commit and the update (1019-1031)
  leaves an accepted guest without a contact (`died`).
- The preview of an import compares untrimmed names and does not see names that
  the file repeats; the import does both. Two imports at a time insert a name
  twice (`overlapped`).
- A removed role leaves no row to compare with: an older assignment that comes
  late brings it back. The same holds for every row after event.deleted.
- A limiter whose EXPIRE fails or is never reached keeps its counter for ever
  (`orphaned`): after ten requests the address is refused from then on. As the
  limiter stands outside the try block, such a request records no outcome, though
  the resolver says that the service "records its internal outcome"
  (`guest-mutation.resolver.ts:49`).

## Not modelled

- Queries, resolvers, wiring, configuration, metrics and logging keep no state
  that a property could be about.
- updatePlusOne changes names and contact data of a plus-one only. importMany,
  setGuestProfileId, addGuestProfileToInvitation and update have no caller.
- Preview and column mapping are pure functions of an uploaded spreadsheet, most
  of it string handling.
- The seat, notification, event, ticket and authentication services are modelled
  only as far as this service's contracts say, and marked external.
- About three fifths of the TypeScript in the repository is the Prisma client
  (`prisma/generated/`), which is generated from the schema. The models translate
  the schema's tables and leave the client out: the share of all lines that the
  map names stays small for that reason.

## What is left

1. The composition of `InvitationLifecycle` and `GuestConfirmation` at the
   hand-over, where `GuestAnswer` and `GuestRegistration` meet (`handed` of the
   one starts the other, `registered` is common to both). Today each assumes of
   the other what its constants and external actions say.
2. Times to live: of cached contacts against the delays of jobs and reminders.
3. Clock skew between the event service and this one in `EventProjections`.
