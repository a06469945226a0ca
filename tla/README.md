# A verification project for Julian

Julian is a multi-tenant "AI sales agent".  It imports and scores leads, drafts
a four-step mail sequence for each, sends the sequence on a schedule through the
customer's own Gmail, triages the replies, offers meeting times, and books a
meeting once the sales rep has approved it.  A FastAPI process serves the API
and runs the "agent loop" that polls replies and sends what is due; the state
is in an SQL database (SQLite or Postgres, through SQLAlchemy).

This directory holds TLA+ models of its control logic, the TLC configurations
that check them and the TLAPS proofs about them.  `PROJECT.json` is the index:
which lines each definition translates (`map`), which properties each run
checks (`runs`), a plausible bug that breaks each property (`mutants`), where
the program departs from what it says of itself (`findings`), what is hard to
test in it (`hazards`) and what is proved (`theorems`).

    tlc -config SchedulingSerial.cfg MCScheduling     # check one run
    tlapm SchedulingProofs.tla                        # check the proofs

Contents: 1 how the program executes, 2 inventory, 3 the models, 4 runs and
bounds, 5 fairness, 6 proofs, 7 what the program does not keep, 8 what is not
modelled, 9 plan.


## 1. How the program executes, and how that is modelled

Three facts of the code shape every model.

* **Handlers run in parallel.**  The endpoints are synchronous functions, so
  FastAPI runs each request on a thread of a pool; the agent loop runs a cycle
  on another thread (`app/main.py:58-67`) and `POST /scheduler/run` and
  `POST /replies/poll` run the same cycles on a request's thread.
* **A session is a private copy.**  Sessions are made with `autoflush=False,
  expire_on_commit=False` (`app/database.py`).  A handler reads rows, checks and
  changes the copies, and its `commit()` writes the columns it assigned,
  whatever the rows hold by then: there is no version column, and the only row
  locks are those of the send cycle's `FOR UPDATE SKIP LOCKED`.  A handler is
  therefore a sequence of steps - read and check, one step per external call,
  commit - and a commit is an atomic, *blind* write of what the copy says.  What
  is not committed when a handler fails or the process dies is lost.
* **The outside world keeps no transaction.**  Mail that left and a calendar
  event that was created survive a rollback; a call may fail, or succeed with
  its answer lost.

So "state" is in three places: the rows, the copies of the handlers under way,
and the world (mail, calendar).  The models keep the three apart, because most
of what can go wrong is a disagreement between them.


## 2. Inventory

| Component (code) | State | Operations | Interacts with |
|---|---|---|---|
| State machine (`app/state_machine.py`) | `leads.state` | `transition`; direct assignments in the triage and on a bounce | everything that touches a lead |
| Scheduling (`services/schedule_manager.py`, `routers/bookings.py`) | `leads.proposed_slots`, `pending_bookings` | propose, select, approve, reject | calendar, mail, triage (which calls propose and select) |
| Send cycle (`services/sending.py`) | `outreach_messages`, sessions of the cycle, row locks | `activate_sequence`, `run_send_cycle` | Gmail, token refresh (commits the cycle's session), suppression list, triage |
| Reply triage (`services/replies.py`, `routers/replies.py`) | `conversation_messages`, `leads.state`, the steps it retires or postpones | `ingest_reply`, `poll_replies` | LLM, Gmail, scheduling, suppression |
| Agent loop (`app/main.py`, `routers/scheduler.py`) | none | replies of all organizations, then sends of all | reply poll, send cycle |
| Google connection (`adapters/google_oauth.py`, `routers/integrations.py`) | `google_credentials`: tokens, `broken`, `broken_notified`; `oauth_states`; the cache of the status check | connect, callback, refresh, mark broken, notify once, check, disconnect | send cycle, reply poll, calendar |
| Suppression list and lead intake (`services/suppression.py`, `services/leads.py`, `routers/leads.py`, `routers/apollo.py`) | `suppressed_emails`, `leads` | suppress, ask, remove; import, upsert, score, erase | send cycle, triage |
| Sequence drafts (`services/outreach.py`) | DRAFT rows of `outreach_messages` | generate and regenerate, activate | send cycle, research |
| Lead research (`adapters/research.py`, `services/research.py`) | `leads.research_notes`, `researched_at` | guarded fetch, news, notes | drafts |
| Billing (`routers/billing.py`, `adapters/stripe_billing.py`) | the organization's subscription, customer and status | checkout, portal, webhook, the gate on paid operations | Stripe |
| Rate limiter (`app/security.py`) | a deque of times per bucket and client, shared by the threads of the pool | `rate_limit` | sign-up, login, reset |
| Business-hours slots (`adapters/calendar.py`) | that of its two loops | `_business_hour_slots`, free/busy | scheduling |
| Slot choice and classification (`services/replies.py:94`, `adapters/llm.py:339`) | none (pure) | `extract_slot_choice`, `classify_reply` | triage |
| Analytics (`services/analytics.py`) | none (reads) | `compute_analytics` | the dashboard |
| Accounts, drafting prompts, dashboard, configuration | rows of one table each, or none | requests that read or write one row | - |

Behaviours that are hard, per component, and what makes each correct:

* **State machine.**  Every handler checks the state on its copy and writes it
  blindly.  Correct: a lead moves only along the table (or along the triage's
  named bypasses) and never leaves a terminal state.
* **Scheduling.**  Two checks of the calendar (when proposing, when approving)
  that others can invalidate, an event that exists before the row says so, an
  answer that is lost, a mail that fails after the commit.  Correct: no event
  without an approval, nothing confirmed without an event, one event per
  booking, no overlapping events, no booking or lead stuck where nobody can
  decide it.
* **Send cycle.**  One long session over many mails, one commit at its end that
  a token refresh anticipates, retries, hard bounces that retire the other
  steps, a daily cap read once, replies that arrive in the middle.  Correct: a
  step is mailed once at most, SENT means mailed, a stopped lead gets nothing
  more, the cap holds, retries end, every approved step is settled.
* **Reply triage.**  Deduplication by look-up, mails and notices before the
  commit, a token refresh that commits half of it, exceptions that skip the rest
  of the agent cycle.  Correct: a reply is answered once and not dropped, an
  opt-out always wins, one organization's failure does not stop the others.
* **Google connection.**  A refresh that fails while the customer reconnects;
  a notice that must go out once; a revocation nobody reports.  Correct: a
  working credential is not left marked broken, a dead one is noticed, the rep
  is told once.
* **Intake and drafts.**  Erasure, re-import and enrichment beside a running
  cycle; drafts chosen before a slow LLM call and deleted after it.  Correct: a
  sequence on autopilot is whole, what was sent stays on record, no address gets
  a step twice unless the customer freed it.
* **Billing.**  Webhooks late, twice and out of order; two tabs.  Correct: the
  last state of the subscription at Stripe is in the end the organization's, and
  it pays for one.
* **Rate limiter.**  A deque that threads prune and count without a lock.
  Correct: no window with more calls than the limit when calls come one after
  the other; whatever the threads do, nobody refused for calls of long ago.
* **Slots.**  A walk that jumps: past a busy time by half an hour, past an offer
  by two meetings.  Correct: it offers free and spaced times only, and passes over
  none it should have offered.
* **Reading, research, analytics.**  Boundaries: an ambiguous answer, a chain of
  redirects, a ratio.  Correct against a definition that does not follow the
  code.

The `hazards` of `PROJECT.json` list these one by one, at the line where each
bites, with the properties that cover them.


## 3. The models

### LeadLifecycle - what the program promises of a lead's state

The table of `app/state_machine.py` and the three assignments of the reply
triage that do not go through it (`BypassTargets`).  It is the abstract
specification: a module that moves leads implements it (`Life!Spec`).

### Scheduling - from proposal to confirmed meeting

Variables: `leadState`, `proposed` and `booking` are the rows; `rq[r]` is what
thread `r` has read and where it stands; `events`, `repBusy` and `confirmed`
are Google's calendar and the lead's mailbox; `approveCalls` is history.

| Action | Code |
|---|---|
| `ProposeRead`, `FindSlots`, `ProposeCommit` | `propose`: guard on the state, `find_available_slots`, write of slots and state |
| `SelectRead`, `SelectCommit` | `select_slot`: the slot must be one that was proposed; a booking is inserted |
| `ApproveRead`, `CheckFree`, `CreateEvent` / `CreateEventUnanswered`, `ApproveCommit`, `MailLead` | `approve`: checks, the second look at the calendar, the event, the commit, the confirmation mail |
| `RejectRead`, `RejectCommit` | `reject`: of the lead it asks only that its state may go to MEETING_PROPOSED (`Rejectable`), so it succeeds from ENGAGED, SEQUENCE_ACTIVE and OUTREACH_PENDING too |
| `MoveRead`, `MoveCommit` | every other handler that moves a lead (score, generate, activate, bounce, opt-out, engaged), as pairs of states |
| `CallFails`, `Crash`, `RepEditsCalendar` | the world |

Time is a set of integers; `Overlap` is the half-open overlap of the calendar.
A meeting booked by `select_slot` has its default length (`MeetingLen`),
whereas `propose` looks for gaps of the length it was asked for (`Durations`):
a slot proposed as free for ten minutes need not be free for thirty.  The
commit of a new booking takes any unused id, because nothing depends on ids.

### SendCycle - the autopilot's mail

One organization.  Messages are numbered in the order the cycle selects them,
`(lead_id, step)`.  Rows: `status`, `attempts`, `due` (the scheduled time has
passed), `today` (`sent_at` is in the current day), `leadState`, `suppressed`,
`lock`.  A worker `k` running a cycle has a program counter
(idle -> loop -> send), its queue `todo`, counters `sent` and `left`
(`remaining_today`) and its **session**: `mark` (statuses assigned, not
written), `copyTries`/`retry` (attempt counters), `dead` (leads stopped by a
bounce), `listing` (addresses it is about to put on the do-not-contact list),
and `copyLead`/`copyState`, the lead object `db.get` keeps answering
with while the message before belongs to the same lead.

| Action | Code |
|---|---|
| `Begin` | the window and cap checks and the selection of due rows, locked on Postgres |
| `SkipMessage`, `CapReached`, `PickMessage` | the head of the loop: lead state, do-not-contact list, cap |
| `Delivered`, `SendFails`, `SendLost`, `HardBounce` | the four ends of `sender.send`: mail out; error; mail out but error reported; rejected address |
| `TokenRefreshed`, `TokenRevoked` | `get_valid_access_token` and `_mark_google_broken` commit **this** session in the middle of the loop and so release the locks |
| `Finish` | the commit at the end (`FlushSession`, `Unlock`) |
| `Abort` | crash, or an exception the cycle does not catch: rollback.  One of them is the `IntegrityError` of an address that is listed twice (`Collides`): a bounce lists it, and a reply's commit listed it first |
| `ActivateRead`, `ActivateCommit` | `activate_sequence` |
| `ProposeRead`, `ProposeCommit` | `POST propose`: a lead leaves its sequence for MEETING_PROPOSED, and its waiting steps stay as they are |
| `TriageRead`, `TriageRows`, `RetireCommit`, `PostponeCommit` | the part of `ingest_reply` that touches steps: opt-out, hand-off, out-of-office |
| `Tick`, `NewDay` | time |

Ghost variables: `delivered` (copies that left), `tries`, `outToday`, and
`late[k][l]`, mails worker `k` sent to `l` after `l` was on the list.
`UNSUBSCRIBED` stands for either opt-out of a reply, `MEETING_PROPOSED` for itself
and the states of the booking that comes of it.  A constant `Ops` says
which handlers a run has, `Outcomes` what may befall a send.  `RowLocks` tells
Postgres from SQLite, where `FOR UPDATE` does nothing.

`SendCycle` implements `Outbox` (`OutboxSpec`): a step is draft, pending or
settled, only what is pending leaves, nothing leaves twice and nothing settled
waits again.  `Stages` maps the five statuses of the rows to the three stages.

### ReplyTriage - a lead's reply

`poll_replies`, `ingest_reply` and `_handle_slot_selection` for the agent loop
and for manual polls, over several organizations.  The rows are `filed` (how
each Gmail message was stored, or "no"), `leadState`, `offered`, `briefed`,
`suppressed`; a poller `p` has its list `todo`, the `inbox` of the lead at hand,
`copy`, the leads as it read them when the poll began, and `w[p]`, what its
session holds of the reply in triage and has not committed.

| Action | Code |
|---|---|
| `Start`, `Fetch`, `FetchFails`, `EndPoll`, `SendPhase` | the agent cycle and the poll of one organization |
| `Duplicate`, `SelectsSlot`, `RecordsOnly`, `OptsOut`, `IsAway`, `AsksQuestion`, `ProposesMeeting`, `BriefsLead`, `HandsOff` | the branches of `ingest_reply`; what each may read from a reply is `Meanings` |
| `Book`, `SlotsFound`, `SlotsMissing` | `select_slot` and `propose_meeting`, which commit before they mail |
| `MailLead`, `MailFails`, `MailRep`, `MailRepFails` | the mails, each of which may fail before or after it left |
| `Commit`, `Collide` | the commit at the end; the `IntegrityError` of `gmail_message_id` or of the do-not-contact list |
| `TokenRefreshed`, `TokenFails`, `TokenRevoked`, `ClassifierRaises`, `Crash` | what commits the session early, or ends the poll and in the agent loop the cycle |

INTERESTED is split into MEETING (the lead asks for a call) and CURIOUS (it does
not); "RECORDED" is the category of a reply of a lead who is past triage.  The
organization has a `sales_rep_email`; without one a slot choice would be filed
and nobody asked for an approval (`replies.py:400`).  The notice of a revoked access,
sent when the poll has ended (`TokenRevoked`), may fail in turn and then ends the
cycle.  The history variable `shared` has the replies two polls were at together:
of those each poll may send an answer without anything having failed, and
`AnsweredOncePerCut` counts them apart from the failures.  The steps a reply retires
or postpones are in `SendCycle`.  `POST /replies/ingest` passes no Gmail id, so
nothing deduplicates it; it is one more triage and not modelled as a poller.
The triage implements `LeadLifecycle` (`MovesAllowed`).

### LeadDesk - leads and drafts

A dashboard request `req[t]` reads, works and commits; `lead` and `row` are the
tables, with ids that are never used again.  CSV import, upsert (a page of an
Apollo search is a sequence of them), scoring of one lead and of all (`score_all`
works on copies it read at the start), the single draft, generation and
regeneration, activation, erasure, and the removal of an address from the
do-not-contact list; beside them a send cycle reduced to what it
reads and writes of these rows, and the triage of an opt-out (`OptOutBegins`,
`OptOutSelects`, `OptOutCommits`, `OptOutFails`): the lead is read when the poll
begins, the waiting rows are selected, and SKIPPED is written over whatever they
hold at the commit.  An address is a spelling: `services/leads.py` and the unique
look-ups of leads compare as written, so two spellings of one mailbox
(`Mailbox`) are two leads, while the do-not-contact list lower-cases and has the
mailbox.  Any request may end in an error (`Abort`), and
a commit is impossible when a row it updates is gone.  `forgiven` counts how
often the customer made it possible to write to an address again.

### GoogleConnection - one organization's credential

`cred` is the row, `alive` what Google would still accept, `token` the
single-use states of the consent flow, `copy[p]` the row as thread `p` read it.
The consent flow (`Connect`, `Callback`, `Exchange`, `Store`), the use of a token
(`Begin`, `UseStored`, `Refresh`, `Refused`, `Misjudged`, `RefreshFails`,
`CallRefused`, `CallRefusedAgain`),
the status check with its cache, the notice (`Notify`, `MailRep`, `MailFails`),
`Disconnect`, and Google's side (`Revoke`, `TokenAges`).  Any error of the token
endpoint whose text contains invalid_grant, 400 or 401 counts as a revocation
(`google_oauth.py:148`); where the grant is live, an invalid client secret for
one, that is `Misjudged`, and a failure of the world like `RefreshFails`.  A commit writes the
columns that changed against the copy (`Write`); on SQLite a row stored after a
disconnect may get the id of the one that is gone, and a thread that holds the
old copy then writes to the new row.

### Billing - the subscription

A checkout names no customer, so every session becomes a customer and a
subscription of its own: one name stands for all three.  `events[s]` are the
webhooks of `s` that Stripe has not seen acknowledged; a delivery may be repeated
(`again`).  `overlaps` counts the checkouts begun while another could still be
paid for.

### RateLimiter - one bucket, many threads

`entries` is the deque, `now[t]` and `pc[t]` the call of thread `t`; `log` and
`overlapped` are history: when each call let through came, and when it was let
through; and whether two calls have been in progress at once.  Python switches
threads between any two of the accesses to the deque, so each is a step.
`LimiterIsFair` is what is kept: no window holds more calls than the limit unless
calls have overlapped (`LimitHolds`), nobody is refused for calls of long ago
(`RefusedWhenFull`), and the deque stays small (`BucketIsBounded`).

| Action | Code (`security.py`) |
|---|---|
| `Call` | `now` is read, the bucket looked up |
| `FindEmpty`, `FindSome`, `LookAtOldest` | the two tests of the `while`: is there an entry, and is the oldest out of the window |
| `PopOldest` | `popleft` |
| `FindNone` | `entries[0]` or `popleft` of a deque another thread has emptied: an IndexError |
| `Count`, `Refuse`, `Admit` | the comparison with the limit, the 429, the append |

### BusinessHours - the times that are offered

`_business_hour_slots`, one action for each turn of its loops, with `day`,
`cursor` and `slots` as variables and the arguments in `request`.

| Action | Code (`calendar.py`) |
|---|---|
| `Weekend`, `OpenDay`, `NoDaysLeft` | the head of the loop over the days |
| `Offer`, `StepOver` | the two branches of the inner loop: a free time is offered and the cursor moves two meetings on, a taken one is stepped over by half an hour |
| `CloseDay` | the end of the inner loop, and the break when enough times are found |

`OffersAreRight` is the promise: what is offered is free (`SlotsAreFree`) and
spaced out (`SlotsAreSpaced`), and nothing that suits is passed over
(`NoneIsMissed`).  Time is local and counted in ticks.  `Requests` are the arguments; a proof takes
any busy intervals, lengths and counts, TLC those of `MCAlgorithms`.

### The pure functions

`ReplyReading`, `Research` and `Analytics` are operators, each the translation of
one function; `MCAlgorithms` enumerates inputs and states what the results must
satisfy.  A behaviour of its specification `Algorithms` is one of four things: a
walk over the business hours, the calls of the rate limiter, the subscriptions of
`Billing`, or one input.  A reply is what the patterns find in it (numbers in the
order they are mentioned, ordinals, weekdays, hours, kinds of phrases),
a page is what a host answers, a mail is its lead,
step, status, variant and day.

### Modules

| Module | Role |
|---|---|
| `LeadLifecycle`, `Outbox` | abstract specifications |
| `Scheduling`, `SendCycle`, `ReplyTriage`, `LeadDesk`, `GoogleConnection`, `Billing`, `RateLimiter`, `BusinessHours` | components |
| `ReplyReading`, `Research`, `Analytics` | pure functions |
| `MCScheduling`, `MCSendCycle`, `MCReplyTriage`, `MCLeadDesk`, `MCGoogleConnection`, `MCAlgorithms` | instances for TLC |
| `SchedulingProofs`, `SendCycleProofs`, `ReplyTriageProofs`, `LeadDeskProofs`, `GoogleProofs`, `BillingProofs`, `RateLimiterProofs` | theorems and proofs, each about the component of its name |
| `AlgorithmProofs` | theorems and proofs about `BusinessHours`, `ReplyReading` and `Analytics` |

A definition whose comment starts with "Mutation:" is a plausible bug in the
definition that follows it; no action of a specification uses it.  The
`mutants` of `PROJECT.json` put it in the place of the real one, and TLC then
finds the property violated.


## 4. Runs and bounds

| Run | Instance | Properties | Shows |
|---|---|---|---|
| `scheduling_serial` | 2 leads, 2 bookings, 1 request at a time, times 0, 3, 5 (3 and 5 overlap), the rep's own appointments at 4, proposals of length 1 and 3 | `OpenBookingIsDecidable`, `OneEventPerBooking`, `NoDoubleBooking`, `DecisionsAreFinal`, `LifecycleSpec` | under every failure and crash between two steps the workflow never double-books, never decides twice, leaves no dead entry on the pending list, and implements `LeadLifecycle` |
| `scheduling_concurrent` | 1 lead, 3 bookings, 2 requests at once | `ApprovalGuarantee`, `ConfirmationsAreReal`, `AwaitingLeadHasOpenBooking` | what survives every interleaving of handlers |
| `send_concurrent` | 1 lead with 2 steps, 2 workers, 1 handler, no row locks, proposals, opt-outs and out-of-office replies, refresh, lost answers, bounces, crashes | `SentMeansDelivered`, `OptOutHonoured`, `InTurn` | what every interleaving of workers and replies keeps, sessions refused for an address listed twice included; no mail overtakes an earlier one of its lead that nobody has tried |
| `send_locked` | 2 leads with 2 and 1 steps, 2 workers, 1 handler, Postgres, proposals, opt-outs and hand-offs, revocation and errors, no refresh and no bounce | `AtMostOnce`, `RetryCap`, `StoppedLeadsHaveNothingPending`, `OutboxSpec` | row locks kept to the end of a cycle keep any two workers apart: the cycles implement `Outbox`, with a proposal or a reply at any moment of them |
| `send_progress` | 2 leads with 2 and 1 steps, cap 2, proposals, errors, bounces and refreshes, fair | `CapHolds`, `EverySettled` | the queue drains although the cap and failures hold it back, and without replies in the middle the cap is kept |
| `replies_serial` | the agent loop, 2 organizations, 3 replies of a lead of the first, 2 failures of every kind but a token endpoint out of reach, fair | `OfferedOnce`, `BriefedOncePerFailure`, `OptedOutIsLeftAlone`, `MovesAllowed`, `SendsGoOn`, `EveryReplyIsFiled` | the loop survives what goes wrong in a poll: every reply is filed, the sends go on, times are offered once, the triage moves leads as `LeadLifecycle` allows |
| `replies_concurrent` | the loop and a manual poll, 1 lead, 2 replies, 1 failure (that of the token endpoint and of the notice of a revocation among them) | `AnsweredOncePerCut`, `ForgottenOnlyByCut`, `OptOutIsListed` | with stale copies and half-committed triages: only a reply both polls were at together is answered by both, every other further answer and every dropped reply has its failure |
| `desk` | 2 spellings of one mailbox, 2 leads, 4 rows, 2 steps, 1 request at a time, 1 removal | `SequenceIsWhole`, `StepMailedOnce`, `SentIsKept` | intake, drafting, erasure and re-import beside the cycle and a reply's opt-out: sequences stay whole, an address as written gets a step once, and a sent row loses its mark to a late opt-out alone |
| `google` | 2 consents, the loop and a status request, 2 failures, fair | `NotifiedOnce`, `BrokenIsDead`, `LiveIsMended`, `DeadIsNoticed` | the broken mark is right, noticed and lifted, and reported once |
| `algorithms` | walks: 1 or 2 days of 12 ticks beginning on a Monday, a Thursday or a Saturday, up to 2 busy intervals at any place, meetings of 0, 2 and 3 ticks where half an hour is 3, up to 3 times wanted; limiter: 2 threads, limit 2, window 2, 5 calls let through in 5 ticks; billing: 3 checkouts, 2 changes each, redelivered, in order; functions: the inputs enumerated in `MCAlgorithms` | `OffersAreRight`, `LimiterIsFair`, `Mirrors`, `DoubleOnlyByOverlap`, `ReadingIsSafe`, `ResearchIsGuarded`, `AnalyticsAgree` | the parts that keep to themselves, against definitions of what they must do that do not follow their code; the row mirrors Stripe once the webhooks are in |
| `replies_no_times` | 1 lead, 2 replies, a calendar without times | `NoTimesHandsOff` | a finding (section 7): this run ends in a counterexample |
| `research_erases` | that of `algorithms` | `FailureChangesNothing` | a finding (section 7): this run ends in a counterexample |

Why the bounds are enough.  *Scheduling*: the properties relate at most two
bookings or a lead and its bookings, so two leads and two bookings (three where
requests race, so that a booking can be decided, redone and raced) show every
way two of them can meet; three times give an overlapping pair, a disjoint one,
and an appointment (4) that overlaps both members of the pair.  Two requests
are enough for a lost update, which involves one stale reader and one writer.
*SendCycle*: two steps of one lead is the least in which a step can be seen with
the stale lead object, retired by a bounce of another, or overtaken; a second
lead is needed for the copy to change and for the cap to cut in the middle.
`MAX_SEND_ATTEMPTS` is 2 instead of 4 and the cap is 2: both boundaries are
crossed.  `MaxMails` (copies of one message) and `MaxTries` only bound the
search; they exceed the limits the properties state, so a violation is
reachable, and in `send_progress` neither is ever reached.
*ReplyTriage*: three replies of one lead give every sequence rundown - proposal -
choice and an opt-out or hand-off between any two; the second organization is
there to be passed over.  The statements count failures (`cuts`, `faults`), and two
of them (`MaxFaults`) show that the count is needed more than once.  In
`replies_concurrent` one failure, because the second poll already doubles what
can go wrong.  *LeadDesk*: two addresses let an enrichment move a lead from one to
the other, and as two spellings of one mailbox they meet on the do-not-contact
list as well; four rows are two generations of a two-step sequence, so that one
rewrite, or one erasure and re-import, fits; `MaxFreed` bounds the customer's
removals.  *GoogleConnection*: two consents are a connection and a
reconnection, two threads a stale copy and its rival.  *Billing*: with three
sessions two can overlap while a third follows; `MaxChanges` bounds the changes
of one subscription.  *BusinessHours*: a time is lost or
offered twice through one busy interval, or through two with a gap between them;
nine ticks of business hours hold three half hours, and with a meeting of two
ticks the walk leaves them; the Saturday and the Thursday put the weekend before
and after a working day.  *RateLimiter*: with a limit of 2 and five calls the
window fills, empties in part and fills again; two threads, because every clash
is between one that looks and one that acts; `MaxTime` and `MaxCalls` bound
the search.  *Algorithms*: every combination of what a
reply can contain up to two weekdays and two hours; three hosts and
`MAX_REDIRECTS` 2 instead of 5, so that redirects can form a chain, a circle, and one hop too many; two leads with two
steps and the two days on either side of the oldest week.

Deadlock is not checked: with nothing to send, read or decide the system rests.
Symmetry is used where all properties are safety properties over sets of
threads, leads, bookings or addresses treated alike (`scheduling_serial`,
`scheduling_concurrent`, `send_concurrent`, `send_locked`, `desk`; in
`algorithms` over the subscriptions).


## 5. Fairness

* `send_progress`.  `WF(Work(k))`: the agent loop sleeps, runs a cycle and goes
  on whatever the cycle raised (`app/main.py:58-67`), and a cycle under way runs
  to its end.  Nothing is assumed about *which* end a send has: Gmail may fail
  forever, the step is then given up.  `WF(Tick)`, `WF(NewDay)`: clocks advance.
  `NewDay` happens between cycles, because a cycle starts only between 8 and 18
  o'clock local time (`_in_send_window`) and does not last until midnight.
  Nothing is assumed of replies, activation or aborts.  A cycle that aborts every
  time is excluded from the run; under it the code makes no progress.
* `replies_serial`.  `WF(Step(Agent) \/ SendPhase)`: the loop goes on, and
  `_run_agent_cycle` reaches the sends when the replies return.  Failures are
  bounded in number, not in place: a failure that comes back in every cycle (the
  finding of section 7, or an LLM that always answers without content) stops
  the sends of all organizations for good, and no fairness could exclude it.
* `google`.  `SF(Begin(Agent, "send"))`: the loop runs a send cycle again and
  again - which presumes there is something to send, for a connection nobody
  uses is not tried; `WF(Step(Agent))`: a cycle runs to its end;
  `SF(LastCall(Agent))`: the calls of a cycle end; `WF(TokenAges)`: the recorded
  expiry of a token passes.


## 6. Proofs

Every theorem holds for all values of the constants (numbers of leads,
bookings, messages, replies, requests, workers, polls, sessions; slots, lengths,
caps, bounds of the search).  The only assumptions are the named ASSUMEs of the
modules, which TLC evaluates on every run, and, where a theorem says so, its
hypothesis.  A hypothesis restricts *who runs at once* or *what the world may
do*, by the same constants the configurations set, and each is one that the
property needs: without it TLC finds the property violated, in a configuration
of section 7 where one is named.

| Hypothesis | Says | Without it |
|---|---|---|
| `OneAtATime` | one scheduling request at a time | `SchedulingApproveRace`, `SchedulingOptOutRace` |
| `SoleHandler` | one reply handler or activation at a time; any number of workers | a second activation that read drafts writes APPROVED over what was settled since |
| `SoleWorker` | one send cycle at a time (what `sending.py` asks for on SQLite) | `SendDouble` |
| `Exclusive` | `SoleWorker`, or row locks that no refreshed token gives up (`LockedCycles`) | `SendDouble` |
| `NoCollision` | no mail bounces, or there is one worker and no opt-out, so that no address is listed twice | `SendCollision`: a commit is refused, and with it the marks of the mails that left |
| `Undisturbed` | `Exclusive`, `SoleHandler` and `NoCollision`, no cycle is cut short and no answer of Gmail is lost | a mail that left is not on record, and the step waits again |
| `InLine` | `SoleHandler`, and one worker or no row locks | `SendOvertaken` |
| `Uncut` | `SoleWorker` and `SoleHandler`, nothing cut short or lost, and no reply retires steps | `SendOverCap`: a SKIPPED written over SENT is not counted |
| `SolePoller` | one poll at a time: the agent loop and no manual poll beside it | `RepliesTwice`; a rundown whose row collides with the other poll's is sent again; a poll mails, or moves the lead, by a copy older than the other's opt-out |
| `SoleCycler` | one agent loop; any number of status requests | two cycles read `broken_notified` before either sets it |
| `OneRequest` | one dashboard request at a time; cycle and opt-outs at any moment | `DeskTwoRequests` |
| `InOrder` | Stripe delivers the events of one subscription in order | `BillingReordered`, `BillingDouble` |

The rate limiter needs none of these: `LimitHolds` itself is about calls that
have not overlapped, and `LimiterOverrun.cfg` shows what two that do can add.

In each component the invariant was first checked by TLC on the instance of a
run, then proved inductive (initial states, one case for each action), and the
property drawn from it.

**Scheduling, any concurrency** (`SchedulingProofs`).
`Invariance == Spec => []IInv`.  The properties are not inductive alone: that an
approved booking has an event depends on what a request in `approveCommit` has
done before.  `IInv` adds `RequestsKnowTheirRows` (a request that is past its
read refers to an existing lead or booking, its copy of the booking's lead is
the booking's lead, an approve request was recorded as such, and one about to
commit or to mail has an event) and `RowsAreComplete` (a booking that exists has
a lead and a slot).  From it: `Typing`, `ApprovalGuaranteed`,
`ConfirmationsReal`, and `AwaitingHasBooking`, which has to show that a
rejection, whatever its lead was doing, leaves her in MEETING_PROPOSED and not
waiting beside a decided row.

**Scheduling, one request at a time.**  `SerialInv` adds `SnapshotsAreFresh`:
what the request has read is still so.  With it `SerialNoDoubleBooking`,
`SerialOneEvent`, `SerialOpenBookings`, `SerialDecisionsFinal`, and
`SerialLifecycle`, the refinement of `LeadLifecycle`: each step moves one lead
along the table or stutters.

**SendCycle, any concurrency, any crash** (`SendCycleProofs`).  `Typing`.
`SentIsDelivered` by `RecordsAreTrue`: a SENT in a row *or in a session* belongs
to a mail that left, and mail is never taken back.  `OptOutsAreHonoured` by
`LateIsOver`: a worker that has sent a lead one late mail is no longer sending
to it, and it cannot pick another of its steps because the list - unlike the
lead object - is asked anew each time and only grows.

**SendCycle, any workers, one handler.**  `StoppedLeads`, by
`StageInv`: a sequence that was not started is all drafts; a session assigns
statuses to started sequences only and leaves nothing pending of a lead it
stopped; and what a handler is about to retire covers everything of the lead
that is not settled, because the rows it read can only have been settled since.
It holds through aborted cycles, lost answers, bounces and any number of workers:
their sessions write settled statuses alone.  A proposal through the API does
leave the lead's steps waiting: MEETING_PROPOSED is not among the states the
property is about, and whatever takes the lead on to one of them (a hand-off, an
opt-out, a bounce) retires what is left.

**SendCycle, workers that keep apart** (`Exclusive`: one of them, or any number
whose row locks last to the end of a cycle).  `Apart` is the invariant that makes
many workers as good as one: what a worker holds (in its list, in hand, or in its
session) is locked by it, so no message is in the hands of two.
`LockedAtMostOnce` (under `Undisturbed`), by
`OnceInv`: that a mailed step is not APPROVED any more must hold across three
places, `MailedIsRecorded` (it is settled in the row, or marked in the session
of a worker), `QueueIsUnsent` and `SendingIsUnsent` (what a cycle still has
in hand has not left), `IdleIsClean`, and, for the handler that holds a stale
list of rows, `ActivatedIsUnsent` and `SelectingIsTriage`: only an activation can
make a row APPROVED, and the rows it read are drafts nobody has sent.
`ImplementsOutbox` puts `OnceInv` and `StageInv` together: under `Stages` every
step queues drafts, settles what is pending, mails a pending step for the first
time, or changes nothing of the outbox.
`RetriesAreCapped` (by `RetryInv`: a
failure is in the row or in the session that will write it, what is still to be
tried was loaded with all its failures, and what is open has attempts left
unless a session will settle it) admits lost answers and replies, and excludes
a crash and a collision, which forget the attempts of their cycle.
`NothingCollides` is what `NoCollision` buys these: what the sessions are about
to list is not listed yet.

**SendCycle, one worker.**  `CapIsKept` (by `CapInv`: the
mails of the day are exactly the rows that count as sent today and the marks of
the session, and the session's counters agree with them) needs `Uncut`; row
locks do not help here, since a second worker counts the day before the first
has committed.

**SendCycle, the order of the steps** (under `InLine`, with crashes, lost answers
and early commits).  `StepsLeaveInTurn`, by `TurnInv`: steps of a lead are
approved together and fall due in order (`DueInTurn`), so a cycle that selects
one selects all the earlier ones that are open; and of what comes before a step
in a worker's hands nothing is left out but what was tried, or what it skips
along with all that is left of the lead (`Skipping`).  With row locks and two
workers the selection itself leaves out what the other has locked.

**ReplyTriage, any number of polls, any failures** (`ReplyTriageProofs`).  The
proofs rest on one lemma, `StepKinds`: every action of a poll is a case of
`PollStep`, a short list of effects (takes up a reply, writes, saves, offers
times, sends, breaks off, ...), so each invariant is shown once per effect and
not once per action.  `OptOutsAreListed`; `TimesAreOfferedOnce` (by `OfferInv`:
offers and the polls whose copy does not know of them together never exceed the
polls); `AnswersAreNotRepeated` (by `AnswerInv`, which counts the polls that may
still answer a reply against those that have answered and not filed it, one poll
or, for a shared reply, each);
`RepliesAreNotForgotten` (by `LossInv`: a poll that reaches its commit has mailed
or told somebody).

**ReplyTriage, one poll at a time.**  `BriefedOnce` (`FreshInv`, no commit
collides, and `RundownInv`), `OptedOutAreNotMailed` (`GoneInv`: of a lead on the
list the poll's old copy knows as well) and `TriageMovesAllowed`, the step-by-step
refinement of `LeadLifecycle` (`BeliefInv`: what the poll believes of a lead is
so, or a booking was decided since).

**LeadDesk, one request at a time** (`LeadDeskProofs`).  `DeskIsInOrder` proves
the invariant from which the rest follows.  `DeskInv` has `KeysHold` (no two leads
have the same address as written, a row that is not erased has its lead), `SequencesFit` (no rows
before drafting; drafts only, all or none, while outreach is pending; whole on
autopilot; APPROVED only there), `CycleFits` (what the running cycle holds was
approved, and is erased only with its lead), `OptFits` (the rows a reply's opt-out
has selected are still its lead's, whatever became of them) and `RequestFits`:
what the request has read before its slow work still holds when it commits, but
for an opt-out, which can come at any moment.
`SequencesAreWhole` is a part of it.  `SentStays`: the rows a rewrite deletes
were drafts when it chose them, and no cycle takes up a row of a lead that is
not on autopilot; an opt-out may write SKIPPED over a SENT of its own lead, and
nothing else does.  `StepsAreMailedOnce` adds `OnceInv`: for each address and
step, the mails sent and the one that may still be sent (`Pending`, unless the
list, a row on record or an unsubscribed lead, whose row may have lost its
mark, blocks it) are accounted for by the first mail, the
times the customer freed the address, and the cycles that lost their marks.
The decisive lemma is `DueIsFree`: the row a cycle is about to mail is, by
wholeness, the only row of its step, so none other is on record for the address.

**GoogleConnection, any threads** (`GoogleProofs`).  `Typing`; `MarkedIsDead` by
`MarkInv`: a thread's copy has the grant of the row unless a reconnection
overtook it, so a refusal of the copy's grant is one of the row's.  A mark on a
live grant has one of three causes, which `excused` records: a reconnection that
overtook the thread, two 401s in a row for no good reason, or an error of the
token endpoint that reads like a revocation.  With one
agent loop `ToldOnce`, by `MailInv`: mails sent, the one on its way and the one
still owed are accounted for by the resets, and a thread that may mail knows of
the last mail.

**Billing, events of one subscription in order** (`BillingProofs`).
`RowMirrorsStripe` by `MirrorInv`: the last event on its way tells the status at
Stripe, and the row refers to a subscription that was paid for.
`DoubleNeedsOverlap` by `OverlapInv`, which counts what can still be charged
against the overlaps and lowers the bound by one once the row's subscription has
ended.

**RateLimiter, any threads** (`RateLimiterProofs`).  `Typing`; `RefusalsAreJust`
by `RefusalInv`: the deque is the end of the history (`EndOfLog`) - true whatever
the threads do, since they only append to both and drop from the front - and a
thread about to count has seen the oldest entry to be within its window, or an
empty deque, after which only younger entries can be there (`CountsRecent`).
`DequeIsBounded` by `RoomInv`, which counts the threads that have found room.
`LimitIsKept` by `SerialInv`: as long as no two calls have overlapped one thread
at most is in a call (`OneBusy`), what was dropped is too old for any call to come
(`ForgottenIsOld`), and what the thread found when it looked still holds when it
acts (`FoundExpired`, `FoundRoom`).  `LimiterKeepsItsWord` puts the three
together and has no hypothesis.

**BusinessHours, any hours, busy intervals and meetings** (`AlgorithmProofs`).
`OfferedTimesAreFree` and `OfferedTimesAreSpaced` by `SlotInv`: the slots found lie
behind the cursor with the room after them, so the next one is apart from all.
`NoTimeIsMissed` by `MissInv`: the cursor stays on the half hours, and every half
hour it has passed that would do is covered by a slot; it is about meetings
whose length keeps the walk on the half hours (`Regular`), since others make
the walk leave them.  `OffersAreAsPromised` puts the three together.

**ReplyReading, Analytics** (`AlgorithmProofs`).  `RepliesAreReadSafely` for any
distinct times offered (times of 24 hours; distinct as `OfferedTimesAreSpaced`
has them) and any reply, by the three ways a time is chosen.  It says what must
fit for a time to be chosen, which is less than the docstring (section 7).
`FunnelStagesAreNested` for any rows, by the inclusions of the sets that are
counted and the monotonicity of the rounded rate.  Both need no induction:
they are about one evaluation of operators without recursion.

**Only model-checked.**  Liveness (`EverySettled`, `SendsGoOn`,
`EveryReplyIsFiled`, `LiveIsMended`, `DeadIsNoticed`): fairness is ENABLED, which
the prover does not handle.  `ResearchIsGuarded`, whose chain of redirects is a
recursive function, and the part `TablesAgree` of `AnalyticsAgree`, whose totals
are folds: what they compute for every input is shown by induction over data.
Every other property of a passing run is stated by a theorem.  That the walk over
the business hours ends is not checked; each turn moves the cursor or the day on,
or adds a time to a list that has a bound.


## 7. What the program does not keep

**Statements of the repository that a run refutes.**  `replies_no_times`: an
interested reply "Falls back to human handoff if the calendar can't produce
slots" (`replies.py:282`); for a lead who is already ENGAGED, whom the branch
admits, the fallback is the transition ENGAGED -> ENGAGED, which the table does
not have.  The exception leaves the poll and the agent cycle, nobody is told,
and every later cycle reads the same reply and ends at the same place.

`research_erases`: "on any failure the lead is left unchanged (notes stay None)"
(`services/research.py:16`).  The LLM's failure is caught one level down
(`adapters/research.py:100-105`) and returned as empty notes, which
`run_research` stores: a lead researched again while the LLM fails loses the
notes and sources it had.

**A docstring the code keeps in part.**  `extract_slot_choice` returns a slot
"only when the match is unambiguous -- anything uncertain returns None and goes
to a human" (`replies.py:112`).  "option 1 or option 3" is read as option 1,
"Monday at 10" as the 9:00 that is the only time on that Monday, "12pm" as an
offered 14:00 (`ChoiceUnsure.cfg`, `ChoiceIsUnambiguous`).  `ReadingIsSafe` is
what does hold.

**A statement that holds up to a refresh.**  "FOR UPDATE SKIP LOCKED prevents
double-sends when several workers run the cycle concurrently" (`sending.py:206`).
`get_valid_access_token` commits the session it is given when it has refreshed the
token (`google_oauth.py:160`), and that is the session of the cycle: the locks of
the whole batch go, the rows not sent yet are still APPROVED, and a second worker
selects and mails them too (`SendDouble.cfg`).  Where no token is refreshed in a
cycle and no commit is refused (`SendCollision.cfg`) the statement holds
(`send_locked`, `LockedAtMostOnce`).

**Limits of the program.**  The configurations below show each as a
counterexample and are kept beside the runs for the reader who wants to see the
trace.  Some are against what the repository says: the locks of `sending.py:206`
(`SendDouble`), "Hard ceiling on sequence emails per day" of `models.py:91`
(`SendOverCap`), the sliding window of `security.py:63` (`LimiterOverrun`),
"mirrors Stripe's values" of `models.py:100` (`BillingReordered`), the terminal
states of `state_machine.py:14` (`SchedulingOptOutRace`), "only when the booking
is approved" of `models.py:345` (`SchedulingStrayEvent`), the order of the
cadence of `models.py:246` (`SendBumpFirst`), and the docstring above
(`ChoiceUnsure`).  The others are about what no document promises.  Each runs
with the MC module of its component (`tlc -config SendDouble.cfg MCSendCycle`);
`Billing*.cfg` run with `Billing` itself, `LimiterOverrun.cfg` with
`RateLimiter`, `ChoiceUnsure.cfg` with `MCAlgorithms`.

| Configuration | Property it breaks | What happens |
|---|---|---|
| `SendDouble.cfg` | `AtMostOnce` | two workers on Postgres and a token refreshed in the middle of a cycle: both send the same step |
| `SchedulingApproveRace.cfg` | `OneEventPerBooking` | two approvals of one booking, both past their checks before either creates its event, make two events |
| `SchedulingOptOutRace.cfg` | `OptOutIsFinal` | a handler that read the lead before an opt-out was committed writes its own next state over it |
| `SchedulingStrayEvent.cfg` | `RejectedHasNoEvent` | the event is made, its answer is lost; the retry finds the slot taken (by that event) and advises to reject; the rejected booking keeps an event |
| `SendOverCap.cfg` | `CapHolds` | a reply that read a step as pending writes SKIPPED over its SENT; the day's count misses the mail and one more than the cap goes out |
| `SendBumpFirst.cfg` | `FirstTouchFirst` | a first step given up as FAILED does not stop the sequence, and the lead gets a follow-up to a mail it never had |
| `SendOvertaken.cfg` | `InTurn` | on Postgres a worker has locked a lead's first step and not tried it yet when the next one falls due; a second worker passes over the locked row and mails the later step |
| `SendCollision.cfg` | `AtMostOnce` | a mail bounces in the cycle while a reply of the same lead opts out: the address is listed twice, the unique constraint refuses the cycle's commit, and what it sent goes out again |
| `RepliesTwice.cfg` | `NeverAnsweredByBoth` | the loop and a manual poll look up the same reply before either has filed it: both answer, nothing failing |
| `DeskTwoRequests.cfg` | `SequenceIsWhole` | two requests rewrite one sequence at once, each replacing the drafts it found: the lead goes on autopilot with two rows for every step |
| `DeskTwoSpellings.cfg` | `MailboxMailedOnce` | two spellings of one address are imported as two leads (`services/leads.py:119`): the mailbox gets every step twice |
| `BillingReordered.cfg` | `Mirrors` | events of one subscription out of order leave the row with the older status |
| `BillingDouble.cfg` | `DoubleOnlyByOverlap` | out of order, an older past_due is applied over the active that followed it; the row admits a checkout, and a second subscription is paid for beside one that is running |
| `LimiterOverrun.cfg` | `NoOverrun` | two threads count before either appends: both pass the last free place |
| `ChoiceUnsure.cfg` | `ChoiceIsUnambiguous` | a reply that names two options, or a day and an hour that no offered time has, picks a time |

**Things the models admit because the code does them**, so that the properties
are stated around them:

* Replies.  An opt-out that arrives while a booking awaits approval is recorded
  and has no other effect (`RecordsOnly`).  A poll cut short between an early
  commit and the answer leaves the reply filed and unanswered
  (`ForgottenOnlyByCut`); one cut short after the mail and before the commit
  answers it again (`AnsweredOncePerCut`).  A message without content, or one
  whose body is not JSON, gets past what `classify_reply` catches.
* Scheduling.  A rejection succeeds for a lead who has gone on to ENGAGED or back
  on her sequence, and takes her to MEETING_PROPOSED.
* Sending.  A proposal through the API leaves the steps of the lead APPROVED;
  the next cycle that finds them due makes them SKIPPED.
* Reading.  Two weekdays and an hour may pick a slot on a third day; a
  chosen time is read before an opt-out phrase.
* Google.  An error of the token endpoint with 400 or 401 in its text marks a live
  connection broken until the next refresh that works.  A mail about a broken connection that fails after `broken_notified`
  was committed is not repeated; a connection refused again right after each
  refresh is reported each time it was mended in between.
* Billing.  `past_due` may check out again; a completed event that is redelivered
  late sets the status to active once more, until the events after it follow.
* Intake.  An upsert does not consult the do-not-contact list (activation and
  the cycle do); an enrichment may move a lead to another address, on which
  nothing was sent.  `models.py:299` says of a suppressed address that it "can
  never be re-imported"; the CSV import keeps that, the upsert and the customer's
  removal do not.
* Research.  An exception that reaches `run_research` leaves the lead unchanged; an
  LLM that answers with nothing leaves it researched without notes.
* Analytics.  The meeting rate may exceed 100 %, since a meeting counts whether
  or not its lead was mailed; so may the reply rate of a step.


## 8. What is not modelled

* Within the modelled parts: texts of mails, tracking of threads, tenancy
  (every query filters on `org_id`), time zones beyond the local day.  The lock
  order of Postgres (a reply's commit and the cycle's can wait for each other's
  rows) is not modelled as waiting: the database ends it by rolling back one of
  the two, which is `Abort` or `AbortHandler`.
* A calendar that the rep's edits remove our events from: `RepEditsCalendar`
  changes the rep's own appointments only.
* The switch of threads inside one operation of the deque, which CPython does
  not make, and the `defaultdict` that holds the buckets; a meeting of less than
  no time.
* The score itself: a sum of weights over a lead's attributes; the models take
  any score.
* Accounts, keys and settings, drafting prompts, the lead-source client, the
  dashboard, configuration and migrations: single-row reads and writes, text
  processing or I/O, with no order of steps that could go wrong in ways the
  parts above do not show.


## 9. Plan

Done: the components of section 3 with their runs, and theorems for every safety
property, action property and refinement of a component.  Next:

1. The part of each result that survives without its hypothesis: what several
   polls can at most do to the rundown of a lead, which of the rows of a
   sequence two requests of the dashboard still leave in order, and by how many
   calls two threads can overrun the rate limit.
2. A composition on one lead of replies, scheduling and sending, for what
   crosses them: an opt-out between proposal and approval, and the order in
   which the commits of a reply and of a cycle take their locks.
