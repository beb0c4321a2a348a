# Plumo support desk: specifications and proofs

TLA+ modules of the Plumo support desk (`src/backend`, NestJS on Prisma and
PostgreSQL, BullMQ workers; `src/frontend/lib/api`, its client), the TLC
configurations that check them, and TLAPS proofs about them. Paths below are relative to `src/backend/src/`
unless they start with `src/`.

## 1. The system

One rule shapes everything: **every authenticated request runs in one READ
COMMITTED transaction** (`common/workspace/workspace-binding.interceptor.ts`,
15 s by default), and a nested `$transaction` joins it
(`prisma/prisma.service.ts:111-125`). A handler reads a row without locking it,
decides in memory, and UPDATEs the columns it decided on. So a request is
atomic in what it writes, but what it decided on may be stale when it writes.
Public routes have no transaction around them: accepting an invitation and
signing in through PM open their own for some of their statements, a refresh
opens none. Worker jobs run in `runInWorkspace`, one transaction each, which the
mail, the posts and the jobs they add are not part of.

| Component | State | Operations | Talks to | Hard behaviour | What makes it correct |
|---|---|---|---|---|---|
| Tickets (`tickets/`) | ticket row: status, assignee, bot switch, hand-over and resolution stamps | create, patch (assign, transition, bulk), bot switch, merge, remove | SLA, queue, realtime | decisions on stale rows | transitions along the table, reopening by a lead, stamps that follow the status, merges into open tickets |
| Messages (`messages/`) | ticket thread | reply, note, attachments | tickets, queue, e-mail | first reply silences the bot | first response is a person's |
| Ticket SLA clock (`sla/`) | due times, pause stamp | due times, pause, resume | tickets, chat, sweep | pause and resume through several handlers | no minute of a pause is charged |
| Chat bridge (`chat/chat.module.ts`) | chat sessions | open, append, handoff, resolve, read, updates | tickets, customers, messages | partner retries; bot and person race | bot never speaks over a person, visitor's reply is seen |
| Updates cursor (`chat/updates-cursor.ts`) | the partner's cursor (kept by the partner) | poll | messages | replies that commit late, lost answers | nothing falls behind the cursor |
| Users (`users/`) | accounts, memberships | create, update, deactivate, self-update | auth | two administrators demote each other | a desk keeps an administrator |
| Invitations (`invitations/`) | invitation rows, mail | create, revoke, preview, accept | users, e-mail, audit | double clicks, revoke while accepting | single use, one live link, all or nothing |
| Customers (`customers/`) | customers, visitors | find-or-create, identify, anonymise | chat, tickets | first contacts race | one row per address |
| Workspace context (`common/workspace/`) | binding of a request | resolve, bind, loop over workspaces | everything | membership revoked mid-request | one desk sees only its rows |
| Guards (`common/guards/`) | none | roles, team scope, throttling | everything | | per-request predicates |
| Queue (`queue/`) | BullMQ jobs | enqueue | worker jobs | jobs start before the commit, survive the rollback | an effect of every committed request, of no other |
| Worker jobs (`worker-jobs/processors.ts`) | deliveries, markers, watermark | mail, webhooks, sweep, export, notifications | e-mail, realtime | retries, long calls in short transactions | each effect once, or at least once |
| E-mail (`email/`) | threads by message id | send reply, process inbound | tickets, customers | redelivery | one message per mail |
| Authentication (`auth/`) | refresh and reset tokens | sign-in, refresh, sign-out, reset | users, client | statements that commit one by one, tabs that share a token | a token is exchanged once, nobody is signed out without cause |
| PM identity (`pm-identity/`, `auth/` loginWithPm) | OAuth state rows, a cookie, accounts, desks and seats | begin, callback, link, unlink | Plumo PM, users, workspaces | two founders at once, a callback loaded twice, staff in between | one desk per organisation, staff's decisions kept, who is welcome gets in |
| Realtime, webhooks config, API keys, audit, teams, tags, canned responses, companies, notifications, reports, search, attachments, health | rows of their own | create, update, delete, list | | | |
| Frontend client (`src/frontend/lib/api`) | session in memory and in the browser's store | request, refresh, sign-out | auth | calls denied at once, tabs, pages left | one refresh for all of them, no call left waiting |
| Frontend screens (`src/frontend/components`) | what is shown | | API | answers out of order | |

`PROJECT.json` lists each with its status, and every hazard at its line.

## 2. The modules

| Module | Of | Code |
|---|---|---|
| `TicketLifecycle` | a ticket and all handlers that move it | `tickets/tickets.service.ts`, `tickets/ticket-state-machine.ts`, `messages/messages.service.ts`, `chat/chat.module.ts`, `sla/sla.service.ts` |
| `AdminFloor` | the guard of the last administrator | `users/users.module.ts` |
| `Invitations` | create, revoke and accept, statement by statement | `invitations/` |
| `Seats` | what invitations promise; `Invitations` implements it | |
| `ChatUpdates` | replies on their way to the visitor | `chat/chat.module.ts`, `chat/updates-cursor.ts` |
| `ChatOpen` | a partner that opens a session, appends to it and retries | `chat/chat.module.ts`, `customers/customers.module.ts` |
| `Mail` | replies that leave by mail, letters that come in | `email/`, `queue/`, `messages/`, `worker-jobs/processors.ts` |
| `SlaSweep` | the job that announces overdue tickets | `worker-jobs/processors.ts`, `tickets/tickets.service.ts` |
| `Webhooks` | one event to its subscribers | `worker-jobs/processors.ts`, `webhooks/` |
| `Sessions` | refresh tokens and the client that keeps them | `auth/auth.service.ts`, `users/`, `src/frontend/lib/api/client.js` |
| `BusinessHours` | working time | `sla/business-hours.util.ts` |
| `PmSignIn` | sign-in through Plumo PM, and linking | `pm-identity/`, `auth/auth.service.ts` |
| `AccessProofs` | theorems about `Sessions` and `AdminFloor` | |
| `WorkerProofs` | theorems about `Webhooks` and `SlaSweep` | |
| other `...Proofs` | theorems about the module they are named after | |
| `MC...` | constants TLC needs and a `.cfg` cannot write | |

### TicketLifecycle

`ticket` is the tickets table (`Row` has the columns the handlers decide on),
`thread` the authors of each ticket's messages, `req` the request in each slot,
`now` the clock. Each handler is one action named after it: `Patch`, `Reply`,
`SetBotEnabled`, `Merge`, `AppendMessage`, `Handoff`, `Resolve`. It evaluates
the handler's guards on the row as read and stores the `data` argument of its
UPDATE, in which `Same` is a column left out. `Commit` (`CommitMerge`) lays that
argument over the row **as it is by then**, and adds the message; `Rollback` is
a request that fails or times out. With one slot the steps of a request are
adjacent and the model is the sequential program; with two, every interleaving
of stale reads and writes is there. Ids, bodies, tags, priority, outcome and
team scope are abstracted; the two due times are one, since they always move
together; SLA policies count plain minutes (`BusinessHours` has calendars).
`waited` is a history variable: for how many minutes a console ticket has been in
pending or on_hold, however often it went from one to the other in between. (A
merge closes its source without going through the clock, so a source that waited
counts as waiting until it is reopened.) A letter that a customer sends by
e-mail is stored on a finished ticket without reopening it
(`email/email.service.ts:262`); letters are in `Mail`, which has no statuses, and
not in this module.

### AdminFloor

`role` and `active` are the memberships, `lock` the row locks, `tx` each
request's progress. The guard's `SELECT ... ORDER BY user_id FOR UPDATE` is not
atomic in READ COMMITTED, and the model has its steps: `StartScan` takes the
snapshot, `LockRow` locks row after row, waiting for other holders and counting
only rows whose committed version still matches; then `Pass` or `Refuse`, and
`Commit`, whose UPDATE waits for its target's lock too. `Abort` is a timeout, an
error or the deadlock detector. `StartGrant` is every PATCH that is not guarded.
`FloorSpec` has guarded requests only, `GrantSpec` the others as well. (The names
of this module and of `SlaSweep` are unlike those of `Sessions` and `Webhooks`,
so that one module of proofs can extend two models.)

### Invitations and Seats

`account`, `member`, `inv` and `trail` are committed tables, `mailed` the mails
sent, `tx` what each transaction has read and written so far. `Accept`,
`ReadAccount`, `InsertAccount`, `Claim`, `ReadSeat`, `CommitAccept` are accept's
statements in order; `Create`, `Mail`, `CommitCreate` and `Revoke`,
`CommitRevoke` the admin's. `RowLocked` and `AccountLocked` are the waits on
uncommitted writes. `CreateByHand` and `PatchByHand` are `users.module` acting
on the same memberships in between, `Expire` is time. `Seats` knows
only an invitation's life (offered, then taken or withdrawn) and who is seated;
`Promise` in `Invitations` is the refinement mapping from the committed tables.

### ChatUpdates

`status` and `stamp` are the replies' transactions and their `created_at` (the
transaction's start, as `chat/chat.module.ts:509` says; a stamp taken later in
the transaction would only leave it less time to commit), `poll` the page a poll
has read, `cursor` and `more` the last answer, `got` what the partner holds.
`Read` is the page query and `Answer` the computation of `nextUpdatesCursor` at
a later time and with the API server's clock, which may be ahead by `Skew`;
`Lose` is a failed poll or a lost answer. `Tick` is forbidden while it would let
a transaction outlive its timeout: that is what the interceptor enforces.

### ChatOpen

`db` is the set of committed rows, each named by its unique key (a customer, a
session, a message of a session with its `externalRef`); `filed` counts the
tickets created, which have no key. `tx` is each request's place in the handler
(`pc`) and the rows it has inserted and not committed (`adds`). `FindSession`,
`FindCustomer`, `Enlist` and `File` (ticket, first message and session) are
`openConversation`'s statements; `Lookup` and `InsertMessage` are an append's,
and an open's that finds its session. An insert waits for another transaction's
uncommitted row of the same key; if the row is committed the request goes to
`failed`, because PostgreSQL has aborted its transaction and the re-read in the
`catch` fails as well. A request ends by `Answer`, `LoseAnswer`, `Crash` (the
500 after a failed insert) or `TimeOut`. The partner's side is `via` (the call
it chose for a text, kept for retries), `known` (sessions whose open was
answered) and `told` (texts it knows are filed).

### Mail

Outbound, `reply` is a reply's transaction and `job` its job: `Ask` and `Add`
are the two halves of an enqueue that nobody waits for, so `EndReply` (commit or
rollback) may come before, between or after them. `BeginSend`, `SendMail` and
`FinishSend` are a worker's run: the mail leaves, then the Message-ID is stored
in a transaction that may fail (`FailSend`). Inbound, `Post` is the provider's
call, `RouteInbound` the choice of desk by recipient (delivery path before
headers, tagged before plain), `File` the worker's transaction, `ProcessInbound`
what it does with the letter: it drops one with no sender or from an
auto-responder, which the door has let in like any other (`drop`); else `Threads`
is the choice of ticket by header or subject, `Store` what it writes. `Rerun` and
`Stall` are BullMQ's: another attempt after a failure, or after a worker that
died once its transaction had committed. `SetInboundAddress` moves addresses
between desks meanwhile.

### SlaSweep

`waits` and `late` are what the sweep's query selects by, `tags` the committed
markers, `sweep` the marks each sweep has yet to put on and has put on, `edit` a
request that replaces a ticket's tags with those it read. `told` counts notices,
`undone` markers that were lost to a rollback or an edit: the two history
variables of the properties. `Appends` is the condition of the UPDATE, on the
row as it is once its lock is free.

### Webhooks

`row` is the delivery table, `fan` the fanout job, `jobs` the retry jobs,
`worker` what each worker is at. A run reads its row, posts for up to ten
seconds, writes the row and adds the next job, in a transaction that may time
out (`Broken`) after the post. `accepted`, `again` and `stranded` count, for the
properties, what subscribers accepted, deliveries that were made due once more,
and rows whose own job failed.

### Sessions

`row` is the refresh-token table, `old` which token each was exchanged for and
by which tab, `seat` the membership; `mem` is each tab's session, `store` the
browser's, `call` each API call, `lead` and `exch` the exchange a tab has in
flight. The statements of `refresh()` (`Find`, `RevokeOld`, `NoSeat` or `Make`,
`StoreHash`) are steps of their own, with a commit each: it runs in no
transaction, so that `ServerFails` leaves what was written. `Settle` is the tab's
end of an exchange.

A page may be left (`Load`) or its connection lost (`Lose`) **at any point of an
exchange**. `Abandon` is what becomes of the request: it never arrived, or its
answer comes to nobody, or the server goes on with it. In the last case the
exchange moves to a slot of `Strays`, where it takes the same steps as any other,
while the new page has read the browser's store, still with the old pair, and
may exchange that pair itself, since `refreshing` is a variable of the page. Two
history variables say what became of such exchanges: `unseen`, the pairs that
reach no page, and `broken`, the tokens an exchange of which the server broke
off.

`EndAll` revokes every token, of a person whose seat stays (a new password) or
goes (`deactivate`), whatever is there to revoke; `SetActive` is `isActive` in a
PATCH of the user, which leaves the tokens alone and may give the seat back. The
request of a sign-out is handled as it is sent, or lost; the tab drops its
session later (`LoggedOut`). `Incidents` bounds all of those together, with lost
requests and failures of the server.

### BusinessHours

`walk` is the state of the loop both functions share: where the cursor is, which
window of which day comes next, how many days were walked, minutes left or
counted. Each step takes one window or moves to the next day, with the `Guard`
on days. The properties compare the end of every walk with the set of worked
minutes, `Worked`, which is defined without any loop. `addBusinessMinutes` and
`businessMinutesBetween` are the two values of `task.op`. Its `HoursInit`,
`HoursNext` and `HoursSpec` are so named because `TicketProofs` extends it
together with `TicketLifecycle`.

### PmSignIn

`user`, `desk`, `seat` and `state` are tables, `cookie` the browser's binding,
`req` each tab's callback and its place in it, `pm` what PM would say of a
person. `Return`, `Claim` and `Exchange` are the callback up to PM's answer;
`Gate`, `FindUser`, `FindEmail`, `InsertUser`, `ReadSeat`, `InsertSeat`,
`InsertDesk`, `CommitDesk`, `Adopt`, `Resolve` are loginWithPm's statements in
order, each a commit of its own except that a desk is made in one transaction,
whose uncommitted row others wait for (`OrgHeld`, `SlugHeld`). `Apply` is the
end of a link. Meanwhile `Staff`, `Unlink`, `Suspend`, `PmChanges`, `Expire` and
`Fail` happen, `Changes` times in all. Whether desks may be made (`auto`) is
chosen at the start, as is a desk made by hand.

## 3. The runs

| Run | Bounds | Shows |
|---|---|---|
| `TicketRace` | one chatbot ticket, two requests, all endpoints but merge, one message | what no interleaving breaks: stamps follow the status, the floor passes in one commit, "ai" means unanswered, first response is a person's |
| `TicketSerial` | a chatbot and a console ticket, one request at a time, every endpoint, two minutes | a console ticket is due exactly as many minutes later as it has waited, whatever its way through pending and on_hold; a waiting ticket is paused; a reopening clears the stamps; a visitor's reply is seen |
| `AdminFloor` | three members, two requests, locks interleaved row by row | no two requests leave the desk without an administrator; no refusal is unjust |
| `Invitations` | one desk, two invitations, two transactions, staff acting by hand | one live link, burnt only with a seat; implements `Seats` |
| `ChatUpdates` | three replies, page sizes 1 and 2, timeouts of 2, lag of 5, skew of 1 | only a tie falls behind the cursor; `hasMore` ends; everything arrives |
| `ChatOpen` | one session, two texts, two requests, two failures | what was answered is stored, one ticket per session, a retry doubles only the opening text, every text that is retried is answered |
| `Mail` | two desks, one of two addresses with a tag, one reply, one letter, three attempts, two failures | only stored replies are mailed, and those queued after their commit always are; letters go where their delivery path says, answers join their conversation, and whatever was accepted is filed, but for what the job drops |
| `SlaSweep` | two tickets, two sweeps, one tag edit, a batch of one, one failure | notices go out once per marker; the most overdue ticket is always announced |
| `Webhooks` | two webhooks, two workers, three attempts, two runs of the fanout, one failure | an event is accepted twice only when its delivery was made due again; no pending delivery without a job; all settle |
| `Sessions` | one browser, two tabs, three calls, one stray exchange, one sign-in, one expiry, two incidents | a tab comes by one pair for a token, is refused only for cause, and leaves no call waiting |
| `BusinessHours` | days of five minutes, weeks of two, five kinds of day, at most one holiday, a guard of three | both functions agree with counting minute by minute |
| `PmSignIn` | two people, three tabs, two organisations, four desk names, two addresses, one change | one desk per organisation, seeded once; a callback acts once; rows of staff are kept; who is welcome gets in |

**Bounds.** Two requests are enough for a stale read to meet another's write;
a third only repeats it on the changed row. Three members let two requests name
two targets and a bystander, and give lock orders that cross. Two invitations
are the least for re-inviting and for two links; two transactions the least for
each race. In `ChatUpdates`, lag is exactly the sum of the two timeouts and the
skew, as in the code where 30 s is 15 s and 15 s; three replies fill a page of
two and spill over; `MaxNow` lets the watermark pass the last reply. In
`ChatOpen`, two texts are the least for an opening text and one that follows it,
two failures let both the opening and its retry fail. In `Mail`, two failures and
three attempts leave the last attempt to succeed (the code has five,
`queue/queue.constants.ts:13`, so that there it takes five failures); in
`Webhooks`, one failure already falls at every point of a run; `PostedOnce` was
also checked with one webhook and three. `Sessions` needs two calls that are
denied together in one tab and one in the other; two incidents are the least for
a page that is left during an exchange and something else that happens to the
token meanwhile, and the two invariants were also checked with three. In `SlaSweep` a batch of
one is
the least that a second ticket can be left out of. Five minutes hold two windows
with a break between them and a margin on either side, in `BusinessHours`; the
walk ends at the guard as well as before it. In `PmSignIn`, one person has two
tabs and both run the organisation that has no desk; one's second choice of a
name is the other's first.

**Fairness.** `ChatUpdates`: the partner keeps polling (weak fairness of
`Read`), and not every answer is lost (strong fairness of `Answer`, since `Lose`
competes with it); nothing makes the clock advance. `ChatOpen`: the server goes
on with a request it has begun, and the partner retries a text as long as it has
no answer (strong fairness of `Send`, since a free slot may be taken by another
call); the failures the code brings about itself (`Crash`) are not bounded, and
`EventuallyAnswered` says that they end. `Mail`: workers go on (`Out`, `In`), and
the provider goes on posting. `SlaSweep`: the scheduler goes on adding sweeps, a
worker finishes one it began. `Webhooks`: workers take what waits; a fetch ends
within its 10 s. `Sessions`: the server goes on with a request, a tab with an
answer, and a fetch ends (the client sets it no time limit). `PmSignIn`: whoever was refused tries again, a browser follows its
redirect, the server goes on. Everything else is safety.

**Deadlock** is checked except in `Webhooks`, which has one event, after which
nothing happens, and in `BusinessHours`, whose walk ends.

### What the models showed about the code

Properties above are stated as the code has them. Where a comment promises more,
or where a wider instance breaks a property, this is what happens:

- *Tickets.* Guards are evaluated on the row as read, so two requests break what
  holds of one: `VisitorReplyIsSeen` (a message that read an open ticket lands
  on a resolved one), `UnfinishedMeansUnstamped`, and the transition table
  itself. So too the bot's silence: "a partner that ignores botEnabled — or races
  a handoff — still cannot post over an agent", says the comment above the guard
  of an append (`chat/chat.module.ts:256-258`). Of a partner that ignores it this
  is the guard; of a race it is not true: an append that read `botEnabled` before a
  handoff commits stores its message after it, since the guard is a read and the
  ticket is not locked. No property states it, because none that says more than
  the guard holds.
  A merge moves a person's answers to a ticket the bot still owns, which breaks
  `AiMeansNobodyAnswered`. "Returning to open extends both due times by the paused
  duration" (`sla/sla.service.ts:109-113`) is not true of a chat: a visitor's reply
  to a pending one ends its pause without extending anything
  (`chat/chat.module.ts:290`), so `DueFollowsWaiting` is of console tickets.
- *Administrators.* `AdminRemains` fails in `GrantSpec`: somebody promoted after
  a guard's snapshot is not in it. Two guarded requests can wait for each other
  although `ORDER BY` was to prevent it; the database aborts one.
- *Invitations.* Two accepts of one address at two desks both insert the
  account; one fails, and its invitation stays usable.
- *Chat.* The open that loses the race for a session does not "adopt the
  winner's ticket" (`chat/chat.module.ts:198`): its insert failed inside the
  request's transaction, which PostgreSQL has aborted, so the re-read in the
  `catch` fails too; the next retry finds the session. An open retried with its
  message stores it twice: the ticket's first message has no `externalRef`.
- *Mail.* "The transaction has already committed" (`queue/queue.producer.ts`) is
  not so under the request transaction: a job may run before its reply is
  there, and outlive its rollback; an enqueue that outlives the request names no
  desk. A letter with no sender, or from an auto-responder, is answered with 202
  and dropped by its job (`email/email.service.ts:215`). A letter rerun after its commit is stored twice. Desks that share
  `smtp.from` can thread a stranger's answer by subject.
- *Sweep.* "The next run picks up the rest" (`worker-jobs/processors.ts:282`) is
  not so while the 500 foremost tickets stay unanswered: announced ones are
  selected again.
- *Webhooks.* A delivered row can be overwritten to pending by a concurrent
  run's stale failure, and the event is posted again.
- *Sessions.* A refresh in flight survives the sign-out or the password change
  it races, since the new token is inserted after the old ones were revoked. A
  page that is reloaded during an exchange presents the old token again: if the
  first exchange has not revoked it yet, both go through, and the tab has spent
  one token twice (`BurntOnce` is of pairs that reach a page); if it has, the tab is
  signed out, by nobody's will. So is a tab whose exchange fails on the server
  after the old token was revoked and before the new one was answered. The old
  token is revoked before the seat is checked, whereas a seat that goes by PATCH
  `isActive` (`users/users.module.ts:254`) and not by `deactivate` keeps its
  tokens, which work again once it is given back. Two tabs that share a token end
  in a refusal of one. A reset token is read, then used, without a conditional
  update.
- *Working time.* A window that ends at midnight makes the walk skip the next
  day. The minutes of a pause are added to a due time as clock minutes, which
  can move it out of working hours.
- *PM sign-in.* Whoever loses the race to found a desk is refused: its seat is
  written with no desk bound, and the row policies forbid it, whereas
  `auth/auth.service.provisioning.spec.ts:174`, which mocks the database, expects
  a seat. It gets in on the next try. A refused sign-in does leave an account
  row when desks may not be made (`auth/auth.service.ts:193` says it must not).
  Linking reports a failure after it has committed, because its audit row is
  written with no desk bound (`pm-identity/pm-identity.module.ts:94`). Who runs
  several desks always lands on the first by name, and is refused if staff have
  unseated them there. Nothing calls `pruneExpiredStates`.

## 4. The proofs

For every value of the constants allowed by the ASSUME of each module:

- `TicketProofs`, about `TicketLifecycle`: `Typed`, `StampsFollowStatus` and `FloorPasses`, for
  any number of tickets and of concurrent requests. A type invariant is not
  enough: a stamp may be wrong because an UPDATE decided on a row that is gone.
  `IInv` therefore says of every *request in flight* that its data argument fits
  whatever row it lands on (`InFlightFits`: a SET that names status `resolved`
  names `resolvedAt` too, one that hands over silences the bot, ...). Each
  endpoint has a lemma that its argument fits (`PatchFits`, `HandoffFits`, ...),
  `BeginIs` collects them, and `CommitIs` says what laying a fitting argument
  over a row does. `AiUnanswered` and `FirstResponseByPerson` assume a desk
  without merges, because merges break them (section 3). `SerialStamps`,
  `SerialPauses`, `SerialVisitor` and `SerialDue` assume
  `OneAtATime` (the run `TicketSerial` has one request at a time as well, and
  with two TLC breaks most of them): an argument then lands on the row it was
  decided on, so the invariant says what that row looks like afterwards. For
  `SerialDue` that is `Clocked`: `slaPausedAt` is the moment the wait began, not the
  moment of the last status, and the due time counts the waits before it.
- `TicketProofs`, about `BusinessHours`: `HoursTyped`, `DueReached` and
  `PauseCounted`, for any calendar, length of day, guard, number of minutes and
  instants. The cursor stands where the day it looks at has nothing left before
  it, and what it has counted is the number of minutes worked from the first
  instant up to there (`OnTheWay`). A window adds exactly its minutes
  (`Between`, `Stretch`), the rest of a day adds none (`Evening`, `Rest`); that
  no window ends at midnight, as the properties say, keeps the cursor in its day.
- `AccessProofs`, about `Sessions`: `SpentOnce` and `RefusalExplained`, for any
  tabs, calls, strays, sign-ins and incidents. A pair that is on its way to a
  tab is known to nobody, and the pair of a stray never will be (`Fresh`); once a
  tab has taken its pair, it holds nothing of the one it gave for it, nor
  exchanges it (`Moved`), so what a tab exchanges it has not exchanged before, but
  for a page that was left (`Burns`). A token is revoked by its person, an admin
  or an exchange, finished, under way or broken off (`Why`); hence what a refusal
  can be blamed on (`Refusals`).
- `AccessProofs`, about `AdminFloor`: `AdminAlwaysRemains` and
  `RefusedOnlyAsLast` among guarded requests, for any desk. Along: rows only
  leave `Admins`, so a snapshot covers it (`SnapshotCovers`); a counted row is
  locked and so still counts (`CountedIsLocked`); hence whoever passed holds an
  administrator other than its target, until it commits (`ReadyPassed`).
  `FloorTyped` is of `GrantSpec`.
- `InvitationsProofs`: `OneLinkEach`, `NoneBurntInVain` and `PromiseKept`, for any
  desks, invitations and transactions. The live invitations of a desk are
  those its create is revoking, until it commits, because whoever would take one
  waits for it and no other create of the address runs (`Renewing`); an accept past
  its claim owns its invitation, still live (`Claiming`), and has an account
  to seat (`Accounted`). `PromiseKept` is the refinement of `Seats`, step by
  step: `CommitCreate` is `Offer`, `CommitRevoke` is `Withdraw`, `CommitAccept` is
  `Take`, a change by hand is `Staff`, every other step stutters.
- `ChatUpdatesProofs`: `NoneLostButTies`, for any replies, page sizes and
  timeouts with `Lag >= TxTimeout + PollTimeout + Skew`. A poll in flight has
  read its page but not moved the cursor; `Unread` says of what it missed that
  it either sorts behind the page or is younger than the poll's watermark. The
  assumption holds of the defaults with no slack (30 s against 15 s and 15 s,
  skew 0), and `WORKSPACE_TX_TIMEOUT_MS` can break it.
- `ChatOpenProofs`: `ToldIsStored`, `OneTicketEach` and `StoredOnceOrOpener`, for
  any sessions, texts, number of concurrent requests and of failures. The
  inductive invariant says what a request carries at each of its steps: a
  session row it has inserted is its own session's, is not committed, and no
  other request holds it (`Apart`, which is what the unique key buys); a request
  that is done carries its text or found it committed (`Carried`); and a text
  keeps the call it was first sent by, each of which has its own keys (`Calls`).
- `MailProofs`: `StoredIsMailed`, `FiledWhereLetIn` and `DeliveryDecides`, for any
  desks, addresses, replies and letters. A worker is past its read of the message
  only for a reply that is stored for good (`Outgoing`), so it does not matter
  that its job was queued before the commit or outlives a rollback; an inbound
  job carries a desk the door let its letter in on, and what was filed is on such
  a desk (`Incoming`).
- `WorkerProofs`, about `Webhooks`: `NoneForgotten`, for any subscribers, workers,
  attempts and failures. A row that is still to be committed as pending has its
  job queued already, which nobody takes before (`RetryIsQueued`); a worker holds
  what it tries from taking the job to writing the outcome (`Working`); each run
  of the fanout has a number of its own (`Starts`), so that no run's rows are
  another's. `PostedOnceEach` counts, per subscriber, what it accepted and what
  may bring one more acceptance about (`Chances`: a fanout that has it to serve, a
  worker that tries, each job that waits for a row that is live). A step adds a
  chance for one that is gone or for one counted in `again` (`Balance`, `Trades`,
  `Owes`), and an acceptance costs one (`Spends`). It needs that a row which is
  delivered, with nobody at it, is not posted again whatever jobs wait (`Live`),
  and that a fanout's rows have one job each until it commits (`Making`).
- `WorkerProofs`, about `SlaSweep`: `NoticedOncePerMark`, for any tickets, batch,
  sweeps and tag edits at once. A marker a sweep has not committed is on a row
  that no other sweep and no edit touches (`Apart`, `Fresh`); what an edit will
  write back had been announced when it read it (`KeptWasTold`); so every marker
  that goes is counted as lost, and every one that stands as announced.
- `PmSignInProofs`: `OneDeskPerOrganisation`, `CallbackActsOnce` and `RowsAreKept`,
  for any people, tabs, organisations and names. A desk that is being made has a
  name and an organisation that no desk and no other tab has (`Held`), and a link
  maps only desks that exist (`LinkIsReal`), to organisations nobody holds; so
  no commit meets another's. A callback that acts has spent its state (`Spent`),
  and a state is minted again only when no tab holds it. Whoever writes a seat
  without looking for one is founding its desk, and only desks that exist have
  seats (`Seated`), so that nobody's is overwritten.

Each type invariant is proved where its module has proofs, as the lemma the rest
starts from.

Every safety property that a run checks is stated by a theorem. Model-checked
only is liveness, fairness and ENABLED being beyond the prover.

## 5. What could come next

Models of the daily export (its watermark is an update
time without a tie-break and without a lag) and of search indexing and
notification fan-out, which share the queue of `Mail`. A composition of
`BusinessHours` with the pauses of `TicketLifecycle`.

## 6. Not modelled

- *Frontend screens* (`src/frontend/components`, `src/design-src`), by far the
  most lines: presentation over the API, and a design bundle. Every decision
  they take is taken again by the server. `Console.jsx` has races of its own
  that lose nothing on the server: a ticket opened late is shown under another's
  id, a failed edit restores an older ticket over a newer one, a failed send
  puts its draft into the conversation opened meanwhile, and lists of a view
  left behind can arrive last.
- *Guards and team scope*: predicates of one request and one row; roles are
  guards of the actions that need them. *Row-level security* is the database's,
  modelled where a statement has no desk bound (`Adopt`, `Apply`).
- *Reports, search, attachments, health, integrations*: queries and object-store
  I/O. *Realtime*: an event carries no state the database lacks.
- *Teams, tags, canned responses, companies, notifications, API keys, webhook
  configuration*: single-row create, update and delete, with nothing between two
  steps.
- *The export, search indexing and notification jobs*: see section 5.

`PROJECT.json` gives the status of each part and every hazard at its line.
