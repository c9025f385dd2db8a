# Verification of Anchorr

Anchorr is a support assistant: workspaces upload documents, visitors ask questions through an
embedded widget, an AI answers from the documents, and questions it cannot answer go to the
workspace's human agents. This directory holds TLA+ models of the parts of its backend
(`src/Backend/src`) and of its dashboard (`src/Frontend`) where concurrency, failure and ordering
decide whether they are correct, TLC configurations that check them on small instances, and proofs
that TLAPS checks for every size.

Paths below are relative to `src/Backend/src/` unless they start with `src/`.

Contents: 1 Inventory · 2 Plan · 3 Modules and the code · 4 Runs and bounds · 5 Fairness ·
6 Proofs · 7 Where the code disagrees with its comments · 8 What is not modelled

## 1. Inventory

The backend is one NestJS process (several may run) over PostgreSQL (TypeORM, READ COMMITTED),
Redis (cache, rate limits, BullMQ queues, Socket.IO's adapter) and a directory of uploaded files.
The rest of the repository is an agent console (Next.js), the widget and a demo page.

### Components

**Agent handoff and workspace members** — `modules/handoff/`, `modules/workspaces/`,
`modules/tenancy/`.
State: `memberships` (role per user), `conversation_sessions` (status, claimant).
Operations: `recordEscalation`, `claim`, `resolve`, `updateMemberRole`, `removeMember`,
`leave`, `transferOwnership`, `joinWorkspace`.
Hard: permissions are checked by guards before the transaction that relies on them; claims and
removals race on the membership row; two owners can step down at once; two first escalations race
on a unique key; broadcasts follow commits.
Correct when: the workspace always has an owner; no one outside it holds a conversation; a claim
ends by resolution or by its holder losing access; queue changes are announced; no cycle of waits for
the workspace's and the members' locks.

**Quota, metering and idempotency of answers** — `metering/`, `modules/answer/answer.service.ts`.
State: `workspace_quotas` (used, allowance, period), `usage_events`, the idempotency key of
`conversations`.
Operations: `findReplay`, `reserve`, `refund`, `persistAndReturn`, `reconcile`, the gateway's
`escalateUnanswered`.
Hard: the unit is taken before seconds of work and given back or billed after; the process may
die between; a message may be sent again while its first copy is being answered.
Correct when: units are accounted for, the allowance is never overspent, a message is billed once.

**Chat gateway, presence and rooms** — `modules/widget-chat/`, `realtime/`.
State: the gateway's `connections` map, Socket.IO rooms, `AgentPresenceService` counts.
Operations: `handleConnection`, `handleDisconnect`, `handleMessage`, `join-conversation`,
`agent-message`, `revokeRoom`.
Hard: every handler awaits between reading and acting; sockets close and access is revoked
meanwhile.
Correct when: presence counts live sockets (it also counts those that closed in their handshake, §7);
only the claimant hears a conversation; a revoked user hears nothing.

**Answer cache and stampede locks** — `cache/answer-cache.service.ts`,
`common/utils/with-timeout.ts`, `AnswerService.produce` and `runPipeline`.
State: Redis entries and locks, keyed by question and knowledge version;
`workspaces.knowledge_version`.
Hard: Redis commands that time out for the caller are executed later; documents change during a
generation; locks expire under their holder.
Correct when: nothing older than the version of its key is served; one generation per key unless
a lock ran out; locks go away.

**Document pipeline** — `modules/documents/`.
State: `documents`, `document_chunks`, files, two BullMQ queues, embedding usage events.
Operations: `upload`, `remove`, the processing and embedding workers, their `onFailed`.
Hard: jobs are redelivered while their first worker still runs; crashes between two effects;
uploads of one file race; each of a removal's steps may fail.
Correct when: a ready document is searchable as a whole, files match rows, a chunk is charged
once, nothing stays in progress for ever, cached answers are dropped when documents change.

**Invitations** (`modules/invitations/`) and **email queue and delivery events** (`email/`).
State: `invitations` (token hash, status, expiry, delivery status), send quotas, the email queue.
Hard: accept, resend, revoke and expiry race on one row; a delivery report of a replaced email
arrives late; at-least-once sending.
Correct when: one acceptance per invitation, a loser leaves no account, a stale report is ignored.

**Sign-up, login and refresh tokens** (`modules/auth/`, `src/Frontend/shared/auth/session.ts`,
`shared/api/client.ts`).
State: `users`, `refresh_tokens`; in the browser one token pair that all tabs share and, per tab,
the refresh in flight. Hard: a token is read and revoked in two statements; tabs refresh
independently; an answer is lost after the server has rotated the token; a statement throws.
Correct when: a token is exchanged once (which the documentation promises and the code does not keep
between tabs, §7), requests of one tab never sign it out, nobody waits for ever.

**Rate limiters** (`common/rate-limit/` and the guards that use them).
State: Redis token buckets and windows, in-process fallbacks. Hard: Redis away, late scripts, clocks.
Correct when: a place grants no more than it promises, and a refusal's waiting time is true.

**Chunking** (`modules/documents/processing/chunking/`), **retrieval and rank fusion**
(`modules/retrieval/`), **usage report** (`modules/usage/`), **pagination and small helpers**:
functions without state, or reads. Correct when: chunks cover the text in order and the loop ends;
fusion is fair to both lists; the report adds up; pages neither repeat nor skip.

**Agent console** (`src/Frontend/features/handoff/`), **team and invitations screens**
(`features/members/`, `features/team/`, `features/invitations/`), **documents screen**
(`features/documents/`), **playground** (`features/playground/`).
State: copies of the server's rows in React state, calls under way, timers, a socket.
Hard: answers arrive in any order, after the screen has moved on, or never; polling stops by itself;
effects restart each other. Correct when: what is shown is what the server has, or something is
under way that will correct it; an action concerns what the user sees.

**Permissions and guards** (`modules/tenancy/`): the table of roles and permissions; its checks
are the guards of other modules' actions.

**Text extraction**, **providers**, **schema and migrations**, **chat widget**, **demo site**:
external parsers and services, declarations, browser code that only sends.

### How they interact

- A visitor's message enters through the gateway, which routes it to an agent's room (claimed) or
  to `AnswerService.answer`: replay, reservation, cache, retrieval, generation, one transaction
  for the turn and its usage event, then `recordEscalation` when the answer escalates.
- Membership changes return an agent's conversations to the queue in the same transaction, then
  broadcast, then call `revokeRoom`, which reaches the gateway's open sockets.
- The two document workers and `remove` bump the knowledge version, which is part of every cache
  key. Retrieval reads every chunk of the workspace, whatever its document's status.
- `joinWorkspace` is the last step of accepting an invitation.
- Queue events are broadcast to the agents' room; an agent's console reads the queue and the open
  conversation's row again on each.
- Every screen reads through `useFetch` or its own calls; the console also listens to the gateway.
- Sending and resending an invitation adds a job to the email queue, whose reports
  (`EmailDeliveryEvents`) come back to `recordDelivery`; the dialog and the tab poll the result.

## 2. Plan

The order follows what an error would cost: conversations and access, money, privacy, staleness,
then what people are shown. All of it is written; "proved" is its safety, for every value of the constants.

| Module | Status | Composes, or implements |
|---|---|---|
| `Handoff` | checked, proved | implements `HandoffContract` |
| `AnswerMeter` | checked, proved | |
| `WidgetChat` | checked, proved | `HandoffContract` as its database |
| `AnswerCache` | checked, proved | |
| `DocumentPipeline` | checked, proved | |
| `Invitations` | checked, proved | `EmailQueue`; implements `InvitationContract` |
| `Sessions` | checked, proved | server, browser, tabs |
| `FixedWindow`, `TokenBucket` | checked, proved | `LimiterPlaces` |
| `Chunking`, `Retrieval`, `UsageReport` | checked, proved | |
| `ConversationDrawer`, `QueueScreen` | checked, proved | their queries in the backend |
| `AgentConsole`, `AcceptPage`, `InviteDialog`, `InvitationsTab`, `DocumentsScreen`, `Playground`, `TeamScreen` | checked, proved | the backend's side of their calls |

What would come next: one module for a turn from its reservation to its escalation (`AnswerMeter`
with `HandoffContract` and commits whose acknowledgement is lost); one knowledge base that
`AnswerCache` and `DocumentPipeline` both implement (the first's `Change`/`Bump` pair is the
second's chunk statements and bumps); the refinements those two would make worth proving.

## 3. Modules and the code

Each component has a module and a place in one of eight proofs modules (`...Proofs`), which extend
several components that share nothing and TLAPS; an MC module adds symmetry and constraints. In every module a *step* is what the code does between
two points where something else can run: a database statement or transaction, a Redis command, a
stretch of code between two `await`s. Definitions introduced by a comment "Mutant of ..." are
plausible bugs kept beside the operator they alter; no specification uses them. Names follow the
code where TLA+ allows it.

**`Handoff`** (workspaces.service.ts, handoff.service.ts, membership-locks.ts). A request slot
runs one request: `Arrive` is the guard's check, then the steps of its transaction. Locks that a
later statement depends on are variables: the workspace row `FOR UPDATE` (`wsLock`), membership
rows written (`rowLock`) or locked `FOR SHARE` by a claim (`Sharers`). Writes become visible in
the commit step (`CommitMembers`); the claim's conditional `UPDATE`, which waits for a writer of
the session row and re-reads it, is one step with its commit, and so the release of a member's
conversations is read at its commit. `unseen` holds the conversations
that changed since the consoles last read the queue, which they do at a `Broadcast`. A claim or a
resolution reads its row between commit and broadcast; `ReadBackFails` is that read throwing, and
`unread` remembers for which conversations. `Restart` is the death of the process.

**`HandoffContract`**: the same tables changed by indivisible operations, each with the rule it
must keep (an owner must remain, only a member claims, a release happens with the loss of
access). `Handoff` implements it; `WidgetChat` uses it as its database.

**`AnswerMeter`** (quota.service.ts, usage-meter.service.ts, answer.service.ts, the gateway's use
of them). `pc` follows a turn through `findReplay`, `reserve`, `produce`, `persistAndReturn`,
`refund`; `overQuota` is the gateway's `escalateUnanswered`. What `produce` does is one choice of
status or an exception. `leaked` counts units a crash or a failed refund lost. The workspace has a
limited plan whose period may end at any moment.

**`WidgetChat`** (widget-chat.gateway.ts, realtime/). A socket's handshake is
`Connect`, `Authorise` (token and membership read), `Register` (entry, presence, rooms), with
`Disconnect` possible between any two. `errands` are `join-conversation` and `agent-message`
events past their check. `reducing` holds users whose access was reduced and whose revocation is
still to come. `overtaken` remembers sockets that a revocation missed because they were between
`Authorise` and `Register`, and `ghosts` those that closed there. `Live` is an open socket past its handshake.

**`AnswerCache`** (answer-cache.service.ts, answer.service.ts, with-timeout.ts). The knowledge
base is a number that grows with each visible change; `version` is the key's version and `base`
remembers the content each version began with. Redis freezes and thaws; commands sent meanwhile
time out for the caller and wait in `backlog`; a broken connection refuses them. Entries and locks
expire at any time: the model has no clock, so it covers every relation of lifetimes and waits.

**`DocumentPipeline`** (documents.service.ts and the two processors). `upload` and `removal` are
the positions of a document's requests, each step of which may throw. The queue hands a waiting
job to an idle worker (`Take`), may take it back from a worker that still runs (`Stall`), and
gives a dead worker's job out again (`Recover`). A worker that lost its job goes on with the
tables and is ignored by the queue. `generation` counts replacements of a document's chunks, so
that a run which listed the old ones fills nothing. `cache` is stale from a change retrieval can
see until the next bump, and a bump covers all changes before it. The history variables `queued`,
`late`, `overrun` and `cutShort` name the documents something went wrong with, so that properties
can say precisely what is excepted.

**`EmailQueue`, `Invitations`** (email/, invitations.service.ts, invitation-acceptance.service.ts).
A token is the pair of an invitation and the number of its send. A request's statements outside a
transaction are steps of their own; an accepting transaction is `BeginAccept` (where its `now()` is
fixed) and `CommitAccept`, a sign-up is `CheckSignup`, `InsertUser` (which holds the address) and
`CommitSignup`. `Expire` may fall anywhere. Workers die and are replaced, an email may be sent twice,
and reports (`failures`, `untold`) arrive late. **`InvitationContract`** is the same table changed by
indivisible operations: the link that is valid at that moment admits its addressee, once.

**`Sessions`** (auth.service.ts, session.ts, client.ts, DashboardShell.tsx, the two forms). `row` is
the server's table of refresh tokens, `stored` the pair in localStorage, `inFlight` each tab's merged
refresh. `RefreshRead`, `RefreshSave` and `RefreshIssue` are the three statements of a refresh;
each may throw, which the tab hears as a failure and takes for a refusal (`RefreshThrows`), and a crash
or a lost answer may end the call between any two. `parent` and `by` remember which pair came from
which and who revoked it, `lost` and `broken` whose answer got lost or threw.

**`LimiterPlaces`, `FixedWindow`, `TokenBucket`** (common/rate-limit/ and the guards). A *place* is
Redis or an instance's memory. A script that timed out for its caller is decided locally and may
still run later. Observers (`watched`, `passed`, `since`, `granted`, `promised`) start at any moment
and count what a place lets through; they influence nothing. Amounts are integers, parts of a token.

**`Chunking`, `Retrieval`, `UsageReport`**: the loop of `chunkText`, one turn a step, over every text
of four kinds of character up to a bound; the fused ranking over every assignment of distances and
scores, ties broken in every way PostgreSQL may; the report's three statements with answers reserved,
recorded, refunded, failed and handed to a human (`HandOver`) between them. They are state machines only so that inputs are enumerated once
and reads can be interrupted; their properties are reference definitions.

**Screens.** All are written alike: the server's rows, the calls under way as records (sent, served
with the answer made up at that moment, lost), the component's state, and *history* variables that
remember why a screen may be behind (`unsure`, `missed`, `late`, `crossed`, `mixed`, `hasty`), so
that the properties can name their exceptions. A handler, with every `setState` in it and the effects
it triggers, is one step. `useFetch` and `useDebouncedValue` are `QueueScreen`'s `Refetched`,
`Settles` and `Debounced`; other screens use the same rule: a new key supersedes the call under way.
`AgentConsole` has the open row, the calls and the socket with its rooms. `ConversationDrawer` has the
pages of the history; a turn takes its id when it is saved (`TurnSaved`) and is visible when its
transaction commits (`TurnCommitted`), so that a lower id may appear last: `missed` are those that
appear behind a page already read. `QueueScreen` has the table's settings, the two queries behind it
and the counts on its tabs, another fetch that may fail (`StatsFail`); a row enters or leaves a search
with its customer's last question. `AcceptPage` is the page behind a link, with a second link opened
over the first; `InviteDialog` its steps and the polling effect; `InvitationsTab` the list, its timer
and the details dialog; `DocumentsScreen` list, uploads, deletions and progress.
`Playground` has turns, retries and the turn the inspector shows. A call whose connection is lost is
over for the page (`AskFails`) and may go on in the server (`adrift`), which stores its row later
(`AnswersLate`, `late`), after a retry's or a later turn's.
`TeamScreen` has roles, removals, the transfer and the totals. A change is a call that the guard lets in
(`LetIn`, the role read at arrival) and the server executes (`ServeChange`, `Becomes` under the
workspace's lock); the page may have given it up in between (`Over`, `heard`), and Escape closes the
dialog while its call is under way. Others join, leave and change roles by themselves (`OthersChange`).

A query's `ORDER BY` is the set of the sorted lists of its rows (`InOrderOf`, `Library`, `InOrder`):
a list is a function from places to rows that respects the order, and the step takes one of them.
Where the order is total there is exactly one.

A property named for a component (`ConsoleIsCurrent`, `LocksAreKept`, ...) is the conjunction of the
component's type invariant and of its named parts, each stated beside it.

## 4. Runs and bounds

| Run | What it asks | Bounds |
|---|---|---|
| `handoff_locks` | Do three concurrent requests keep the owner, the claimants' membership, the announcements and the contract? | 2 users, 1 conversation, 3 requests |
| `handoff_liveness` | Do requests end, and do escalations reach the queue? | 2 users, 1 conversation, 2 requests, no crash |
| `handoff_demotion` | Can a viewer hold a conversation? (found) | as above |
| `answers` | Do the books balance, are chunks sound, is the fusion fair, does the report agree? | 3 turns, 2 messages, allowance 2; texts ≤ 7; 4 chunks, pool 3; 2 events over 2 days |
| `chat` | Are presence, rooms and suspended checks right; do drawer and table show what they should? | 2 users, 2 sockets, 1 conversation, 1 turn; 2 threads, ≤ 5 turns stored; 4 rows, page size 2 |
| `services` | Is anything outdated served, who owns the locks, do limits hold? Do tokens rotate, do tabs keep their session, does everybody get an answer? | 2 turns, 1 change, backlog ≤ 3; limit 2, window 2; buckets of 1 and 2 tokens, clock ≤ 3; 2 tabs, 3 requests (2 at a time), 3 pairs, 1 lost or broken answer |
| `sessions_fork` | Can one refresh token be exchanged twice? (found) | 2 tabs, 3 requests, 3 pairs |
| `documents` | What may interrupted and overlapping runs leave behind? | 2 uploads of one file, 2 chunks, 2 workers, 2 attempts, one disturbance |
| `documents_live` | Does an uploaded document end up ready, failed or removed? | 1 document, 1 chunk, 2 workers, 2 attempts, 1 crash |
| `documents_stall` | Can a ready document have unsearchable chunks? (found) | 1 document, 2 chunks, 1 stall |
| `invitations` | Do races on a link keep the contract, and is the table true? | 2 invitations, 2 requests, 2 sends, 2 attempts, 1 lost outcome |
| `screens` | Does each screen end up showing what is so? | see below |

`answers`, `chat`, `services` and `screens` hold several components that share nothing: a behaviour
chooses one of them (`kind`) and the others rest, so the state space is the sum, not the product.

Why the bounds are enough to be informative:

- *Handoff*: two owners stepping down at once need two users and two requests; the third request
  lets a claim meet both. Requests end and slots are used again, so behaviours are as long as one
  likes. A second conversation adds nothing to the races on one membership row; the proofs cover
  any number. Initial states are all role assignments with an owner.
- *AnswerMeter*: three turns can want the last of two units; two messages let one be sent again
  while another competes. Nothing else bounds the state: the allowance bounds the counters.
- *WidgetChat*: two sockets may belong to one user (presence is a count) or to two (rooms). A
  socket slot is used again once nothing is left of it, so opens and closes go on for ever.
- *AnswerCache*: one change gives two versions, hence old and new answers side by side; two turns
  compete for each lock; three late commands are enough for a late write, a late acquire and a
  late release to meet.
- *Limiters*: three ticks are longer than a window and enough to fill the largest bucket; one late
  script and one step back of the clock are each enough to meet every other step. Deadlock is not
  checked because the clock is bounded.
- *DocumentPipeline*: two chunks let a run be overtaken in the middle of its list; two attempts
  distinguish retry from final failure; two workers can run one job. `OneDisturbance` allows one
  stall, one crash or one second upload of the same file in a behaviour (the second upload is
  explored where nothing throws and jobs run one after the other, which keeps it small). `CHECK_DEADLOCK`
  is off because the pipeline rests when all documents do.
- *Invitations*: two requests are enough for every pair of operations to overlap, two sends for a
  replaced link and its late report; `Small` limits emails, failures and lost outcomes.
- *Sessions*: two requests of one tab share a refresh, or one does while the other tab has its own
  (`TwoCalls`); three pairs are a first, its successor and a fork. `MaxLost` bounds the answers that are
  lost and the statements that throw together: either is what the other tab or request has to meet.
- *Chunking, Retrieval, UsageReport*: every text of seven characters with three tunings (one whose
  overlap is as long as its target); four chunks with two grades leave some out of either pool; three
  units of time reach into a second day, and the allowance's period begins in the middle of the first
  and ends in the middle of the second, before the time does.
- *Screens*: each has the calls under way that its races need and the fewest rows that differ:
  two conversations; two links and their guests, two visits; three addresses (one malformed), two
  invitations, `PollLimit` 2; one invitation resent twice; two documents, two lists under way; three
  playground turns and answers, one call adrift per turn; one other member with two ranks. Five turns
  stored are two full pages and one that commits late. They are small where a screen is
  large: the console makes a second call only for a conversation being resolved over an undisturbed
  socket (`SmallConsole`), and two answers of the documents' list overlap only while no dialog is
  open and no progress is asked for (`SmallDocuments`); a second call on the members or a second reading
  of the totals is made only while little else is under way, and others change something only while
  hardly anything is (`SmallTeam`).
  `CHECK_DEADLOCK` is off where histories are bounded.

Symmetry is used in safety runs only. Every property has a mutant of the code that TLC must find
to violate it under the same configuration.

## 5. Fairness

- `Handoff!FairSpec` has no crash. Weak fairness per request: the server and the database finish
  what they started. `InsertSession` waits for the workspace row, which a queue of transactions
  may take again and again; PostgreSQL queues the waiters of a row lock, hence strong fairness.
  `RequestsDrain` would fail on a cycle of waits for the workspace's and the members' locks; the lock of
  a session row is held only within one step of the model, so a cycle through it would not show.
- `DocumentPipeline!FairSpec`: requests, workers and event handlers go on, the queue hands out
  waiting jobs and its stall check runs. Weak fairness each. Nobody has to upload or remove, no
  step has to throw, and crashes stay possible within their bound.
- The other modules have no liveness property: waiting in the cache is bounded by a clock the
  model replaces by an always enabled `GiveUpWaiting`, and turns in the meter never wait. The screens'
  properties say instead that something which will correct the screen is under way or due, which
  needs no fairness of the network or of the user; the chunker's loop has its bound, `ChunksAreFew`.

## 6. Proofs

Every invariant and every action property that the runs check, and both refinements, are proved for
all values of the constants, the former from an inductive invariant each.

**Assumptions** are about constants only, and TLC checks each in the run of its module. Most say that
null values differ from the members of their sets, that bounds are numbers, that counted sets (turns,
sockets, people) are finite. Those that say something about the code: the window in which a cut is
sought is smaller than a chunk (`ChunkingAssumption`: chunking.ts has 200 and 1000); the pool of a
search is less than two larger than RRF_K (`RetrievalAssumption`: 20 and 60), without which two late
places could be worth less than one early one; a bucket holds at least one message
(`TokenBucketAssumption`: every limit does); the site's bucket and the one for questions have
different keys.

**`HandoffProofs`.** `IInv` is `TypeOK`, `LockDiscipline`, `OwnerRemains`, `ClaimantIsMember`.
`OwnerRemains` is not inductive by itself: the owner count is read two steps before the commit.
`LockDiscipline` bridges them: the workspace row belongs to the one request past its lock, a
written membership row to a transaction that will commit and to no claim, and what an operation
checked is still true when it commits. From it every step of `Handoff` is shown to be a step of
`HandoffContract` or to leave the tables alone (`ContractStep`), which is
`ImplementationOfContract`; the safety of owners and claimants is then proved of the contract's
steps. `ClaimsEndProperly`, `ResolutionIsFinal` and `ChangesAreAnnounced` follow the same way; the last
rests on the read that may throw being a claim's or a resolution's only, so that it never hides a
conversation that waits.
*The drawer*: a page is a stretch of its conversation that ends at the cursor it was asked from
(`PageFits`), but for turns that became visible behind it, and stays one when the conversation grows;
`DrawerInv` says so of the page shown, of the one under way and of the one served.

**`AnswerMeterProofs`.** `IInv` is `TypeOK` and `BooksBalance`; the work is in the cardinality of
`Holding` growing and shrinking by one. `AllowanceRespected` and `DriftIsOneSided` are its
arithmetic consequences; `AccountsAlwaysBalance` is the whole.
*Playground*: `OwnAnswers` says which answer each turn may show and `TurnsWait` whose call is under way;
rows stored late are nobody's.
*Chunking*: `LoopInv` relates the cursor to the last chunk and `ChunksInv` each chunk to the next
(`Follows`); the lemmas `SentenceCutIs`, `SnapIs` and `ChunkEndIs` bound what the three cutting
functions return, and the number of chunks (`ChunksAreFew`) is their consequence.
*Retrieval*: a step computes everything at once, so the proof is about the operators. Scores are
fractions with different denominators; `TwoBeatOne` and `TwoBeatTwo` compare them by cross
multiplication, and the ranking is transitive because it is a sorted list.
*Usage report*: `UnitsBalance` (what is used is charged, reserved, owed or lost) and `StillTrue` (what
a statement read is so as long as nothing was stirred); a sum over days is a running total
(`AddsUp`), which the number of events before each day is (`SumIs`).

**`WidgetChatProofs`.** `IInv` joins presence, rooms and suspended checks with `SocketsOK` (how
entries, rooms and transports go together) and `Unclaimed` (a conversation in the queue has no
claimant). A close is treated once, for the set of sockets it closes, and used for disconnects and
revocations. *The console* (`ConsoleInv`): a stale row has an answer, an event or a call behind it, and
joins are of the conversation that is open or was. *The queue's table* (`QueueInv`): at most one fetch
is current, what is shown answers what was asked, and the page exists or a correction is due.

**`RedisProofs`.** *The cache*: `Ages` says of every place an answer can be (request, entry, late
write) that it is as new as its key's version, and that versions are as old as their content. *The
locks*: `Locks` says of every lock and every late command whose it is, and that a turn that believes
it holds a lock does, unless the lock ran out. `CatchUp`, which executes everything Redis owes in
order, is the hard step of both. *The throttle*: `WindowInv` gives every window of every place the
same relation to its observer (`KeyInv`). *The buckets*: `Balance` bounds what was granted together with
what is still held by a full bucket and what was earned since, in parts of a token; `Promise` keeps a refusal's
waiting time true while time passes and others take; `Shield` is about the order of the two buckets.

**`DocumentPipelineProofs`.** `PipelineInv` is `TypeOK`, `QueueInv` (which jobs can be active and
who holds them), `ChunksInv` (what a run has listed covers what is missing) and `ReadyIsWhole`.
`FilesInv` says what each position of a request implies for its file; `ChargeInv` that events name
chunks that were filled. `FilesFollowRows` covers any number of uploads of one file. `ForgetInv` adds
`RunsInv` (an undisturbed worker holds its job, and its place tells the status) to what
`NothingIsForgotten` says. *The documents page*: `CallsTell` says that the answer of a list is what the
table holds unless it is marked old; `ShownTells` that the page lacks at most the upload whose answer is
on its way and shows beyond the table only rows in progress, which keep it polling, or being deleted;
`PanelTells` that the panel is about the newest row in progress.

**`InvitationsProofs`.** `IInv` adds to `TypeOK` what each position of a request and each place of a
job imply for the rows. `StepInv` preserves it action by action; each property then has a step lemma
of its own from `IInv` (`SingleUseStep`, `NoStrayAccountStep`, `DeliveryStatusStep`, `QueuedStep`).
`Implements` maps every step of `Invitations`, races included, to a step of `InvitationContract` or to
none: an acceptance takes effect at its conditional update, whatever was read before.

**`SessionsProofs`.** `IInv` follows a pair of tokens from issue to revocation. No tab knows a new pair
until its answer arrives (`NewPairs`); once stored it is revoked by a tab only while that tab is about
to be told of the next (`StoredIsCurrent`); so a tab that starts an exchange presents a pair it has not
used (`FirstOfItsTab`), and a second child of one pair needs a second tab or a lost answer (`Children`).
A call that throws ends without a pair and is remembered in `broken`, the one more reason for which a tab
may lose its session.
One exchange at a time is heard in a tab (`OneInFlight`), without which none of this is inductive.

**`ScreensProofs`.** Each screen's invariant says what its calls under way will bring and when a mark of
the history variables excuses it: `ListInv` and `TotalsInv` for the team (a change made and not yet
answered will make the page read again, if the page still hears of it; `BecomesKeeps` treats every change
of a role, whoever makes it), `WatchedOrGivenUp` and `Limits` for the dialog's polling,
`Fits` for the tab, said once of what is shown and once of what has been served, and `Straight` for
the page behind a link as long as no second link was crossed with the first.

**Only model-checked:**

- Liveness under fairness: `RequestsDrain`, `EscalationReachesQueue`, `Settles`. That the chunker's loop
  ends and that screens are corrected is proved as safety: as a bound on the chunks, and as "something
  is under way".
- The violation runs (`ClaimantCanAnswer`, `ReadyIsSearchable`, `TokenUsedOnce`): a counterexample needs
  no proof.

Two limits shaped the models. The provers know nothing of `SortSeq`, `SelectSeq`, `Reverse` or a fold,
so lists are stated as sorted functions and sums as running totals. And the library's induction
theorems take an operator as a parameter, which cannot be given here; where a least number is needed
(`LeastExists`), it comes from the well-foundedness of the numbers instead, which is about sets. No
module declares a RECURSIVE operator.

## 7. Where the code disagrees with its comments

Shown by a run (PROJECT.json quotes the lines):

1. `handoff_demotion` — a claim admitted before its agent's demotion succeeds after it, and a
   viewer holds the conversation; workspaces.service.ts:93-94 says such conversations go back.
2. `documents_stall` — a processing job redelivered while the embedding job runs replaces its
   chunks; the document becomes ready with chunks that never get an embedding.
3. `sessions_fork` — two tabs refresh at the same time, both find the row of their token live, and one
   token becomes two pairs; docs/phases/02-auth-rbac.md:123 says it is usable once. `ForkIsExplained`, part
   of `TokensRotate`, says that only two tabs, or a second try after a lost answer, bring it about.

Seen while modelling, not shown by a run:

- A socket that closes during its handshake (widget-chat.gateway.ts:151-154) is registered
  afterwards, and its user stays online until a restart; agent-presence.service.ts:3 and :16 say that
  presence is the live socket. `PresenceCounts` names these sockets (`ghosts`).
- A claim or a resolution whose read after the commit fails (handoff.service.ts:301, 336) is never
  announced: consoles show the conversation in the queue, or as claimed, until something else makes them
  read. `StaleConsoleWillHear` names it (`unread`).
- A turn takes its id when it is inserted and appears when it commits: of two turns of one customer the
  lower id may appear after the higher has been read, and the drawer, which pages by id, never shows it,
  or has just said that there is nothing older. `HistoryIsWhole` names these turns (`missed`).
- A failed fetch of the queue's counts leaves the old ones on the tabs without a word
  (ConsoleApp.tsx:29 takes `data` only); `PagesAreExact` excepts it.
- Nothing stops a turn of the playground whose connection was lost: its answer is stored, and charged,
  after the page has shown an error, possibly after a retry's. A role change that was given up may be
  executed after the list was read again, which then shows the old role. `TurnsShowTheirOwn` and `RowsTell`
  except both.
- A socket authorised before a revocation and registered after it is not in the room that is cut, and
  goes on listening to the queue; rooms.ts:12-13 says that the room is how access is cut.
  `ListenersMayWork` names these sockets (`overtaken`).
- `reconcile` (quota.service.ts:139) copies the meter into the counter while turns hold units, so
  that the counter can fall behind it. Only tests call it; it is not modelled.
- InviteDialog's "Still queued after ... seconds" is not reached while polls are answered: each answer
  replaces the invitation object, which restarts the effect and its count of attempts.
- The footer of the inspector says "Prompt assembled ..., model call failed" also when the retrieval
  failed and no prompt was assembled (RetrievalInspector.tsx:33-50).
- A refresh that is under way at a sign-out stores its tokens afterwards; a refused refresh clears a
  newer pair that another tab has stored; a refresh that failed in the server (a 5xx) clears the session as a
  refused one does (session.ts:59); a network failure after a 401 redirects to the login; any
  failure of `me()` ends the session (DashboardShell.tsx).
- An in-process bucket whose clock steps back loses tokens below zero (no lower bound), a message that
  the site's bucket refuses has spent the visitor's own token, and its Retry-After ignores that bucket.
- An email whose job is given up for stalling has attempts left: `onFailed` (email.processor.ts:33-47)
  reports a retry that never comes, and the invitation's row stays queued.
- A message answered over quota is stored without its key (answer.service.ts:114), so sending it
  again records it again; `src/Widget/src/socket.ts:35-37` promises once. `AnswerMeter!logged`
  follows it.
- An AI reply that was under way when an agent claimed is still sent; widget-chat.gateway.ts:189
  says the AI steps aside (`WidgetChat!Reply`).
- A message relayed between the claim and the agent's `join-conversation` is heard by nobody and
  stored nowhere (`WidgetChat!Relay`).
- A visitor whose conversation was resolved and who escalates again is not queued: neither branch
  of `recordEscalation` matches. `ResolvedIsFinal` holds for that reason too.
- A failed embedding job leaves searchable chunks without a bump, though answer-cache.service.ts:68-70
  says every such path bumps; and it has one attempt, though document-embedding.processor.ts:68-70
  speaks of a retry.
- A crash between the insertion of a row and its job, after the embedding job was queued, or
  between `ready` and its bump leaves a document unprocessed, in processing, or its change without
  a bump, for good. These are the exceptions (`cutShort`, `late`) of `NoneForgotten`, `Settles`
  and `StaleIsExplained`.

## 8. What is not modelled

- *Of modelled components*: unlimited and pay-as-you-go workspaces; a commit whose acknowledgement
  is lost; the customer's handshake and origin check; turns with history, which bypass the cache; the
  shadow tier, which is measured and never served; the normalisation of cache keys; BullMQ's failing
  of a job that stalls twice (except for emails); two concurrent removals of one document; the send
  limits of invitations; several API processes (presence and rooms are those of one); Redis or an
  instance losing counts by a restart; floating-point amounts; several addresses behind one login key; the
  lock of a session row between the statement that takes it and its commit; a usage event whose
  transaction began in an earlier day or period than it commits in.
- *Of sessions*: `localStorage` is written at once; one sign-out at a time; the age of access tokens is
  open (any request may find its token expired), a fresh pair is accepted; password hashing.
- *Of screens*: layout and wording, searches and pages other than the queue's, switching workspaces,
  leaving from the team page, its other section, what others do to one's own membership, the document
  filters (and a document whose outcome is overwritten after a stall), the agent's own messages in the drawer, who is
  online and why conversations escalate (both are reads), the usage page and its charts, the widget
  settings. A list that always takes longer than the tab's timer is superseded for ever.
- *Other components*: permissions are guards of other modules' actions; the check of the table at
  start-up is not modelled. Extraction, providers and storage appear by their outcomes. Migrations
  appear as the constraints that decide races. The widget appears by what it sends; the demo site
  does nothing else.
