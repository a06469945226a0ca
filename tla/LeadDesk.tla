------------------------------ MODULE LeadDesk ------------------------------
(***************************************************************************)
(* The lead's rows: how a lead enters the database (CSV import, Apollo      *)
(* upsert), is scored, gets its sequence written, rewritten and approved,   *)
(* and is erased; and the do-not-contact list that outlives it             *)
(* (app/routers/leads.py, apollo.py, suppressions.py and the services they  *)
(* call).  The send cycle and the opt-out are here as far as they touch the *)
(* same rows: SendCycle and ReplyTriage have their insides.                 *)
(*                                                                         *)
(* Leads are told apart by their address as it is written, the list and the *)
(* mail by the mailbox it names: jane@x and Jane@x are two leads and one    *)
(* mailbox.                                                                 *)
(*                                                                         *)
(* A request reads, works on what it read (an LLM call may take a minute)   *)
(* and commits once.  Its commit fails as a whole (IntegrityError,          *)
(* StaleDataError) when a row it updates is gone, when a row it adds has no *)
(* lead any more, or when an address is there twice.                        *)
(***************************************************************************)
EXTENDS Integers, FiniteSets, Functions

CONSTANTS
  Addresses, \* as they are written
  Mailbox,   \* the mailbox of each: the address in lower case
  Ids,       \* lead ids, handed out in order and never again
  Rows,      \* ids of outreach_messages, likewise
  Steps,     \* SEQUENCE_CADENCE
  Threads,   \* requests of the dashboard in progress
  MaxFreed,  \* bound on the times the customer frees an address
  None

ASSUME IdAssumption == Ids \subseteq Nat \ {0} /\ Rows \subseteq Nat \ {0}
ASSUME StepAssumption == Steps \subseteq Nat \ {0} /\ Steps # {}
ASSUME FreedAssumption == MaxFreed \in Nat
ASSUME DeskNoneAssumption == None \notin Addresses \union Ids

VARIABLES
  lead,        \* leads: state and address by id
  row,         \* outreach_messages: lead, step and status by id
  suppressed,  \* suppressed_emails: the addresses whose mailbox is listed
  req,         \* requests: what they read and will write
  opt,         \* the poll: the opt-out in triage and what it read
  due, sent, skip, \* the send cycle: rows selected, mailed, passed over
  mailed,      \* mail: how often each step reached each address
  forgiven,    \* history: times an address was freed by the customer
  collisions   \* history: cycles whose commit failed

vars == <<lead, row, suppressed, req, opt, due, sent, skip, mailed, forgiven, collisions>>
cycle == <<opt, due, sent, skip, mailed, collisions>>

-----------------------------------------------------------------------------
(* Data *)

NoLead == [state |-> "absent", addr |-> None]
NoRow  == [lead |-> None, step |-> None, status |-> "absent"]
Unsent == {"DRAFT", "APPROVED"}

There(l) == lead[l].state \notin {"absent", "gone"}
Taken == {lead[l].addr : l \in {x \in Ids : There(x)}}
RowsOf(l) == {r \in Rows : row[r].lead = l /\ row[r].status # "deleted"}

(* The next n ids that were never handed out. *)
Lowest(n, S) == {x \in S : Cardinality({y \in S : y < x}) < n}
FreshIds(n) == Lowest(n, {l \in Ids : lead[l].state = "absent"})
FreshRows(n) == Lowest(n, {r \in Rows : row[r].status = "absent"})

(* One name for each element of A, in order. *)
Numberings(A, N) == {f \in [A -> N] : \A x, y \in A : x # y => f[x] # f[y]}

Idle == [op |-> "idle", lead |-> None, addrs |-> {}, rows |-> {}, leads |-> {},
         state |-> None, supp |-> FALSE]

Ask(t, r)  == req[t] = Idle /\ req' = [req EXCEPT ![t] = r]
Answer(t)  == req' = [req EXCEPT ![t] = Idle]

(* The do-not-contact list holds mailboxes. *)
Spellings(a) == {x \in Addresses : Mailbox[x] = Mailbox[a]}
IsSuppressed(l) == lead[l].addr \in suppressed
SuppressEmail(a) == suppressed' = suppressed \union Spellings(a)

(* The customer makes it possible to write to the addresses of A once more. *)
Free(A) == /\ A # {} => FoldFunction(+, 0, forgiven) < MaxFreed
           /\ forgiven' = [a \in Addresses |-> IF a \in A THEN forgiven[a] + 1 ELSE forgiven[a]]

(* An error answer, whatever its cause: an LLMError, a failed commit, a crash. *)
Abort(t) ==
  /\ req[t] # Idle
  /\ Answer(t)
  /\ UNCHANGED <<lead, row, suppressed, cycle, forgiven>>

-----------------------------------------------------------------------------
(* Leads come in *)

(* import_leads_csv leaves out suppressed mailboxes and addresses that a lead *)
(* has in the same spelling.                                                 *)
ImportRead(t, A) ==
  /\ Ask(t, [Idle EXCEPT !.op = "import", !.addrs = A \ (suppressed \union Taken)])
  /\ UNCHANGED <<lead, row, suppressed, cycle, forgiven>>

ImportCommit(t) ==
  LET A == req[t].addrs
      N == FreshIds(Cardinality(A))
  IN /\ req[t].op = "import"
     /\ A \intersect Taken = {}
     /\ Cardinality(N) = Cardinality(A)
     /\ \E f \in Numberings(A, N) :
          lead' = [l \in Ids |-> IF \E a \in A : f[a] = l
                                   THEN [state |-> "NEW", addr |-> CHOOSE a \in A : f[a] = l]
                                   ELSE lead[l]]
     /\ Answer(t)
     /\ UNCHANGED <<row, suppressed, cycle, forgiven>>

(* upsert_lead finds the lead by its address as written, or else by name and *)
(* domain (any lead may be that person), or else adds one.  It never         *)
(* consults the do-not-contact list.                                         *)
UpsertRead(t, a) ==
  /\ \E l \in {x \in Ids : There(x)} \union {None} :
       /\ a \in Taken => l # None /\ lead[l].addr = a
       /\ Ask(t, [Idle EXCEPT !.op = "upsert", !.addrs = {a}, !.lead = l])
  /\ UNCHANGED <<lead, row, suppressed, cycle, forgiven>>

UpsertAdds(t) ==
  /\ req[t].op = "upsert"
  /\ req[t].lead = None
  /\ req[t].addrs \intersect Taken = {}
  /\ \E l \in FreshIds(1), a \in req[t].addrs :
       lead' = [lead EXCEPT ![l] = [state |-> "NEW", addr |-> a]]
  /\ Answer(t)
  /\ UNCHANGED <<row, suppressed, cycle, forgiven>>

(* An enriched lead takes over the address Apollo has for the person. *)
UpsertUpdates(t) ==
  LET l == req[t].lead
  IN /\ req[t].op = "upsert"
     /\ l # None
     /\ There(l)
     /\ \E a \in req[t].addrs :
          IF a = lead[l].addr
            THEN UNCHANGED <<lead, forgiven>>
            ELSE /\ a \notin Taken
                 /\ lead' = [lead EXCEPT ![l].addr = a]
                 /\ Free({lead[l].addr})
     /\ Answer(t)
     /\ UNCHANGED <<row, suppressed, cycle>>

-----------------------------------------------------------------------------
(* Scoring and drafting *)

(* A request on one lead starts with what _get_lead loads. *)
Open(t, l, op, states) ==
  /\ lead[l].state \in states
  /\ Ask(t, [Idle EXCEPT !.op = op, !.lead = l, !.state = lead[l].state,
                         !.addrs = {lead[l].addr}])
  /\ UNCHANGED <<lead, row, suppressed, cycle, forgiven>>

(* score_lead with a score that reaches the threshold. *)
ScoreRead(t, l) == Open(t, l, "score", {"NEW"})

(* score_all reads the new leads once and commits after each of them.  The   *)
(* session does not expire what it has read (expire_on_commit=False), so the *)
(* later ones are scored, and moved, as the leads they were at the start.    *)
ScoreAllRead(t) ==
  LET new == {l \in Ids : lead[l].state = "NEW"}
  IN /\ new # {}
     /\ Ask(t, [Idle EXCEPT !.op = "score_all", !.leads = new])
     /\ UNCHANGED <<lead, row, suppressed, cycle, forgiven>>

ScoreNext(t) ==
  /\ req[t].op = "score_all"
  /\ \E l \in req[t].leads, reached \in BOOLEAN :
       /\ \A x \in req[t].leads : l <= x
       /\ There(l)
       /\ lead' = [lead EXCEPT ![l].state = IF reached THEN "SCORED" ELSE @]
       /\ req' = [req EXCEPT ![t] = IF req[t].leads = {l} THEN Idle
                                    ELSE [req[t] EXCEPT !.leads = req[t].leads \ {l}]]
  /\ UNCHANGED <<row, suppressed, cycle, forgiven>>

(* generate_message writes a single draft on the lead itself. *)
MessageRead(t, l) == Open(t, l, "message", {"SCORED"})

Moved(op) == IF op = "score" THEN "SCORED" ELSE "OUTREACH_PENDING"

MoveCommit(t) ==
  /\ req[t].op \in {"score", "message"}
  /\ There(req[t].lead)
  /\ lead' = [lead EXCEPT ![req[t].lead].state = Moved(req[t].op)]
  /\ Answer(t)
  /\ UNCHANGED <<row, suppressed, cycle, forgiven>>

(* Mutation: a running sequence may be rewritten too. *)
GenerateReadAlways(t, l) ==
  Open(t, l, "generate", {"SCORED", "OUTREACH_PENDING", "SEQUENCE_ACTIVE"})

GenerateRead(t, l) == Open(t, l, "generate", {"SCORED", "OUTREACH_PENDING"})

(* maybe_research commits and loads the lead again, but only once per lead;  *)
(* the unsent rows are then selected, and the LLM writes the new ones.       *)
GenerateSelect(t) ==
  /\ req[t].op = "generate"
  /\ There(req[t].lead)
  /\ \E s \in {req[t].state, lead[req[t].lead].state} :
       req' = [req EXCEPT ![t].op = "write", ![t].state = s,
                          ![t].rows = {r \in RowsOf(req[t].lead) : row[r].status \in Unsent}]
  /\ UNCHANGED <<lead, row, suppressed, cycle, forgiven>>

(* Mutation: the new steps are added to the old ones. *)
WriteKeepsOld(t) ==
  LET l == req[t].lead
      N == FreshRows(Cardinality(Steps))
  IN /\ req[t].op = "write"
     /\ There(l)
     /\ Cardinality(N) = Cardinality(Steps)
     /\ \E f \in Numberings(Steps, N) :
          /\ \A s, u \in Steps : s < u => f[s] < f[u]
          /\ row' = [r \in Rows |->
               IF \E s \in Steps : f[s] = r
                 THEN [lead |-> l, step |-> CHOOSE s \in Steps : f[s] = r, status |-> "DRAFT"]
                 ELSE row[r]]
     /\ lead' = [lead EXCEPT ![l].state = IF req[t].state = "SCORED" THEN "OUTREACH_PENDING" ELSE @]
     /\ Answer(t)
     /\ UNCHANGED <<suppressed, cycle, forgiven>>

GenerateCommit(t) ==
  LET l == req[t].lead
      N == FreshRows(Cardinality(Steps))
  IN /\ req[t].op = "write"
     /\ There(l)
     /\ Cardinality(N) = Cardinality(Steps)
     /\ \E f \in Numberings(Steps, N) :
          /\ \A s, u \in Steps : s < u => f[s] < f[u]
          /\ row' = [r \in Rows |->
               IF \E s \in Steps : f[s] = r
                 THEN [lead |-> l, step |-> CHOOSE s \in Steps : f[s] = r, status |-> "DRAFT"]
                 ELSE IF r \in req[t].rows THEN [row[r] EXCEPT !.status = "deleted"] ELSE row[r]]
     /\ lead' = [lead EXCEPT ![l].state = IF req[t].state = "SCORED" THEN "OUTREACH_PENDING" ELSE @]
     /\ Answer(t)
     /\ UNCHANGED <<suppressed, cycle, forgiven>>

(* activate_sequence refuses an address on the list, and a lead without drafts. *)
ActivateRead(t, l) ==
  LET drafts == {r \in RowsOf(l) : row[r].status = "DRAFT"}
  IN /\ lead[l].state = "OUTREACH_PENDING"
     /\ ~IsSuppressed(l)
     /\ drafts # {}
     /\ Ask(t, [Idle EXCEPT !.op = "activate", !.lead = l, !.rows = drafts])
     /\ UNCHANGED <<lead, row, suppressed, cycle, forgiven>>

ActivateCommit(t) ==
  /\ req[t].op = "activate"
  /\ There(req[t].lead)
  /\ \A r \in req[t].rows : row[r].status # "deleted"
  /\ row' = [r \in Rows |-> IF r \in req[t].rows THEN [row[r] EXCEPT !.status = "APPROVED"]
                                                  ELSE row[r]]
  /\ lead' = [lead EXCEPT ![req[t].lead].state = "SEQUENCE_ACTIVE"]
  /\ Answer(t)
  /\ UNCHANGED <<suppressed, cycle, forgiven>>

-----------------------------------------------------------------------------
(* Leads leave *)

EraseRead(t, l, suppress) ==
  /\ There(l)
  /\ Ask(t, [Idle EXCEPT !.op = "erase", !.lead = l, !.rows = RowsOf(l), !.addrs = {lead[l].addr},
                         !.supp = suppress /\ ~IsSuppressed(l)])
  /\ UNCHANGED <<lead, row, suppressed, cycle, forgiven>>

(* Mutation: the lead is erased before its address is written down. *)
EraseForgets(t) ==
  LET l == req[t].lead
  IN /\ req[t].op = "erase"
     /\ RowsOf(l) \subseteq req[t].rows
     /\ req[t].supp => req[t].addrs \intersect suppressed = {}
     /\ row' = [r \in Rows |-> IF r \in req[t].rows THEN [row[r] EXCEPT !.status = "deleted"]
                                                     ELSE row[r]]
     /\ lead' = [lead EXCEPT ![l] = [NoLead EXCEPT !.state = "gone"]]
     /\ Free(IF req[t].supp THEN {} ELSE req[t].addrs \ suppressed)
     /\ Answer(t)
     /\ UNCHANGED <<suppressed, cycle>>

(* The foreign keys refuse to erase a lead that got another row meanwhile. *)
EraseCommit(t) ==
  LET l == req[t].lead
  IN /\ req[t].op = "erase"
     /\ RowsOf(l) \subseteq req[t].rows
     /\ req[t].supp => req[t].addrs \intersect suppressed = {}
     /\ \E a \in req[t].addrs : IF req[t].supp THEN SuppressEmail(a) ELSE UNCHANGED suppressed
     /\ row' = [r \in Rows |-> IF r \in req[t].rows THEN [row[r] EXCEPT !.status = "deleted"]
                                                     ELSE row[r]]
     /\ lead' = [lead EXCEPT ![l] = [NoLead EXCEPT !.state = "gone"]]
     /\ Free(req[t].addrs \ suppressed')
     /\ Answer(t)
     /\ UNCHANGED cycle

(* remove_suppression, the customer's decision. *)
RemoveSuppression(a) ==
  /\ a \in suppressed
  /\ suppressed' = suppressed \ Spellings(a)
  /\ Free(Spellings(a))
  /\ UNCHANGED <<lead, row, req, cycle>>

-----------------------------------------------------------------------------
(* The triage of an unsubscribe, in the poll's session: the lead is read     *)
(* when the poll begins, its pending rows when the reply is triaged, and     *)
(* both are written by the commit, whatever they hold by then.               *)

NoOpt == [lead |-> None, addr |-> None, rows |-> {}, supp |-> FALSE, read |-> FALSE]

OptOutBegins(l) ==
  /\ opt = NoOpt
  /\ lead[l].state \in {"OUTREACH_PENDING", "SEQUENCE_ACTIVE"}
  /\ opt' = [NoOpt EXCEPT !.lead = l, !.addr = lead[l].addr]
  /\ UNCHANGED <<lead, row, suppressed, req, due, sent, skip, mailed, forgiven, collisions>>

OptOutSelects ==
  /\ opt # NoOpt /\ ~opt.read
  /\ opt' = [opt EXCEPT !.read = TRUE, !.supp = opt.addr \notin suppressed,
                        !.rows = {r \in RowsOf(opt.lead) : row[r].status \in Unsent}]
  /\ UNCHANGED <<lead, row, suppressed, req, due, sent, skip, mailed, forgiven, collisions>>

OptOutCommits ==
  /\ opt.read
  /\ There(opt.lead)
  /\ \A r \in opt.rows : row[r].status # "deleted"
  /\ opt.supp => opt.addr \notin suppressed
  /\ lead' = [lead EXCEPT ![opt.lead].state = "UNSUBSCRIBED"]
  /\ IF opt.supp THEN SuppressEmail(opt.addr) ELSE UNCHANGED suppressed
  /\ row' = [r \in Rows |-> IF r \in opt.rows THEN [row[r] EXCEPT !.status = "SKIPPED"]
                                              ELSE row[r]]
  /\ opt' = NoOpt
  /\ UNCHANGED <<req, due, sent, skip, mailed, forgiven, collisions>>

(* The poll fails, or its commit does: the reply is triaged again later. *)
OptOutFails ==
  /\ opt # NoOpt
  /\ opt' = NoOpt
  /\ UNCHANGED <<lead, row, suppressed, req, due, sent, skip, mailed, forgiven, collisions>>

-----------------------------------------------------------------------------
(* The send cycle: some of the approved rows are due, what it did to them is *)
(* committed at its end.                                                     *)

CycleBegin ==
  /\ due = {} /\ sent = {} /\ skip = {}
  /\ due' \in (SUBSET {r \in Rows : row[r].status = "APPROVED"}) \ {{}}
  /\ UNCHANGED <<lead, row, suppressed, req, opt, sent, skip, mailed, forgiven, collisions>>

Mailable(l) == lead[l].state = "SEQUENCE_ACTIVE" /\ ~IsSuppressed(l)

CycleSends(r) ==
  LET l == row[r].lead
  IN /\ r \in due
     /\ Mailable(l)
     /\ mailed' = [mailed EXCEPT ![lead[l].addr][row[r].step] = @ + 1]
     /\ due' = due \ {r}
     /\ sent' = sent \union {r}
     /\ UNCHANGED <<lead, row, suppressed, req, opt, skip, forgiven, collisions>>

CycleSkips(r) ==
  /\ r \in due
  /\ ~Mailable(row[r].lead)
  /\ due' = due \ {r}
  /\ skip' = skip \union {r}
  /\ UNCHANGED <<lead, row, suppressed, req, opt, sent, mailed, forgiven, collisions>>

(* StaleDataError: one row is gone, no mark of the cycle is kept. *)
CycleCommit ==
  /\ due = {}
  /\ sent \union skip # {}
  /\ IF \E r \in sent \union skip : row[r].status = "deleted"
       THEN collisions' = collisions + 1 /\ UNCHANGED row
       ELSE /\ row' = [r \in Rows |-> IF r \in sent THEN [row[r] EXCEPT !.status = "SENT"]
                                      ELSE IF r \in skip THEN [row[r] EXCEPT !.status = "SKIPPED"]
                                      ELSE row[r]]
            /\ UNCHANGED collisions
  /\ sent' = {} /\ skip' = {}
  /\ UNCHANGED <<lead, suppressed, req, opt, due, mailed, forgiven>>

-----------------------------------------------------------------------------
(* Specification *)

Init ==
  /\ lead = [l \in Ids |-> NoLead]
  /\ row = [r \in Rows |-> NoRow]
  /\ suppressed = {}
  /\ req = [t \in Threads |-> Idle]
  /\ opt = NoOpt
  /\ due = {} /\ sent = {} /\ skip = {}
  /\ mailed = [a \in Addresses |-> [s \in Steps |-> 0]]
  /\ forgiven = [a \in Addresses |-> 0]
  /\ collisions = 0

Request(t) ==
  \/ \E A \in (SUBSET Addresses) \ {{}} : ImportRead(t, A)
  \/ \E a \in Addresses : UpsertRead(t, a)
  \/ \E l \in Ids : ScoreRead(t, l) \/ MessageRead(t, l) \/ GenerateRead(t, l) \/ ActivateRead(t, l)
  \/ \E l \in Ids, s \in BOOLEAN : EraseRead(t, l, s)
  \/ ScoreAllRead(t) \/ ScoreNext(t)
  \/ ImportCommit(t) \/ UpsertAdds(t) \/ UpsertUpdates(t) \/ MoveCommit(t)
  \/ GenerateSelect(t) \/ GenerateCommit(t) \/ ActivateCommit(t) \/ EraseCommit(t)
  \/ Abort(t)

Cycle == \/ CycleBegin
         \/ \E r \in Rows : CycleSends(r) \/ CycleSkips(r)
         \/ CycleCommit

Next == \/ \E t \in Threads : Request(t)
        \/ \E a \in Addresses : RemoveSuppression(a)
        \/ \E l \in Ids : OptOutBegins(l)
        \/ OptOutSelects \/ OptOutCommits \/ OptOutFails
        \/ Cycle

Spec == Init /\ [][Next]_vars

-----------------------------------------------------------------------------
(* Properties *)

(* Regenerating replaces unsent drafts only ("never touch sent messages",    *)
(* outreach.py:34), although the rows to delete were chosen before the LLM   *)
(* wrote the new ones: the row of a sent mail goes only with its lead.  Its  *)
(* mark is lost to one thing, an opt-out that selected the row before it was *)
(* sent and writes SKIPPED over SENT.                                        *)
SentIsKept ==
  [][\A r \in Rows : row[r].status = "SENT" =>
       LET after == lead'[row[r].lead].state
       IN \/ row'[r].status = "SENT"
          \/ row'[r].status = "SKIPPED" /\ after = "UNSUBSCRIBED"
          \/ after = "gone"]_vars

(* A lead on autopilot has every step of the cadence exactly once, however   *)
(* often its sequence was rewritten, whatever failed on the way, and with    *)
(* replies and sends in between.                                             *)
SequenceIsWhole ==
  \A l \in Ids : lead[l].state = "SEQUENCE_ACTIVE" =>
    \A s \in Steps : Cardinality({r \in RowsOf(l) : row[r].step = s}) = 1

(* No address gets the same step twice, through erasure, import, enrichment  *)
(* and regeneration, except where the customer freed it (took its mailbox    *)
(* off the list, erased the lead without suppressing it, let an enrichment   *)
(* move the lead to another address) or an erasure hit a running cycle,      *)
(* whose commit then loses its marks.  Addresses are told apart as written:  *)
(* it is by spelling that the code knows a lead again.                       *)
StepMailedOnce ==
  \A a \in Addresses, s \in Steps : mailed[a][s] <= 1 + forgiven[a] + collisions

(* The same of mailboxes, which the code does not keep: a lead under each of *)
(* two spellings gets every step, although nothing was freed or lost.        *)
MailboxMailedOnce ==
  \A a \in Addresses, s \in Steps :
    collisions = 0 /\ (\A x \in Spellings(a) : forgiven[x] = 0) =>
      \A x \in Spellings(a) \ {a} : mailed[a][s] = 0 \/ mailed[x][s] = 0
=============================================================================
