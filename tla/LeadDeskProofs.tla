--------------------------- MODULE LeadDeskProofs ----------------------------
(***************************************************************************)
(* Proofs about the lead's rows, for any addresses, ids, cadence and number *)
(* of freed addresses, and one request of the dashboard at a time; beside  *)
(* it the send cycle and the triage of an opt-out, at any moment.          *)
(***************************************************************************)
EXTENDS LeadDesk, FiniteSetTheorems, TLAPS

-----------------------------------------------------------------------------
(* Typing *)

LeadStates == {"absent", "NEW", "SCORED", "OUTREACH_PENDING", "SEQUENCE_ACTIVE", "UNSUBSCRIBED", "gone"}
Leads == [state: LeadStates, addr: Addresses \union {None}]
Messages == [lead: Ids \union {None}, step: Steps \union {None},
             status: {"absent", "DRAFT", "APPROVED", "SKIPPED", "SENT", "deleted"}]
Operations == {"idle", "import", "upsert", "score", "score_all", "message", "generate", "write",
               "activate", "erase"}
Requests == [op: Operations, lead: Ids \union {None}, addrs: SUBSET Addresses, rows: SUBSET Rows,
             leads: SUBSET Ids, state: LeadStates \union {None}, supp: BOOLEAN]
OptOuts == [lead: Ids \union {None}, addr: Addresses \union {None}, rows: SUBSET Rows,
            supp: BOOLEAN, read: BOOLEAN]

Typed ==
  /\ lead \in [Ids -> Leads]
  /\ \A l \in Ids : There(l) => lead[l].addr \in Addresses
  /\ row \in [Rows -> Messages]
  /\ suppressed \subseteq Addresses
  /\ req \in [Threads -> Requests]
  /\ opt \in OptOuts
  /\ due \subseteq Rows /\ sent \subseteq Rows /\ skip \subseteq Rows
  /\ mailed \in [Addresses -> [Steps -> Nat]]
  /\ forgiven \in [Addresses -> Nat]
  /\ collisions \in Nat

-----------------------------------------------------------------------------
(* Invariants *)

OneRequest == \A t, u \in Threads : t = u

(* What the unique column and the foreign keys keep.                         *)
KeysHold ==
  /\ \A l, m \in Ids : There(l) /\ There(m) /\ lead[l].addr = lead[m].addr => l = m
  /\ \A r \in Rows : IF row[r].status = "absent" THEN row[r].lead = None
                     ELSE row[r].lead \in Ids /\ row[r].step \in Steps
  /\ \A r \in Rows : row[r].status \notin {"absent", "deleted"} => There(row[r].lead)

(* Exactly one row for each step.                                            *)
Whole(l) == \A s \in Steps : \E r \in Rows : {x \in RowsOf(l) : row[x].step = s} = {r}

(* An opt-out that read no rows leaves those that came since approved.       *)
OnSequence(s) == s \in {"SEQUENCE_ACTIVE", "UNSUBSCRIBED"}

(* What the state of a lead says of its rows.                                *)
SequencesFit ==
  /\ \A l \in Ids : /\ lead[l].state \in {"NEW", "SCORED"} => RowsOf(l) = {}
                    /\ lead[l].state = "OUTREACH_PENDING" => /\ \A r \in RowsOf(l) : row[r].status = "DRAFT"
                                                             /\ RowsOf(l) = {} \/ Whole(l)
                    /\ lead[l].state = "SEQUENCE_ACTIVE" => Whole(l)
  /\ \A r \in Rows : row[r].status = "APPROVED" => OnSequence(lead[row[r].lead].state)

(* The rows the running cycle works with.                                    *)
InCycle == due \union sent \union skip

CycleFits ==
  /\ due \intersect sent = {}
  /\ \A r \in InCycle :
       /\ row[r].status \in {"APPROVED", "SKIPPED", "deleted"}
       /\ lead[row[r].lead].state \in {"SEQUENCE_ACTIVE", "UNSUBSCRIBED", "gone"}
       /\ row[r].status = "deleted" => lead[row[r].lead].state = "gone"

(* Rows that were drafts when the request read them: no cycle has them.      *)
StillDrafts(t) ==
  /\ req[t].rows \intersect InCycle = {}
  /\ \A r \in req[t].rows : row[r].status \in {"DRAFT", "SKIPPED"} /\ row[r].lead = req[t].lead

(* What the request under way has read is still so, but for an opt-out.      *)
RequestFits(t) ==
  LET l == req[t].lead
      op == req[t].op
  IN /\ op \in {"score", "message", "generate", "write", "activate", "erase"} => l \in Ids /\ There(l)
     /\ op = "score" => lead[l].state = "NEW"
     /\ op = "message" => lead[l].state = "SCORED"
     /\ op = "score_all" => \A x \in req[t].leads : lead[x].state = "NEW"
     /\ op \in {"generate", "write"} =>
          \/ lead[l].state = req[t].state /\ req[t].state \in {"SCORED", "OUTREACH_PENDING"}
          \/ lead[l].state = "UNSUBSCRIBED" /\ req[t].state \in {"OUTREACH_PENDING", "UNSUBSCRIBED"}
     /\ op = "generate" => \A r \in RowsOf(l) : row[r].status \in {"DRAFT", "SKIPPED"} /\ r \notin InCycle
     /\ op = "write" => /\ StillDrafts(t)
                        /\ lead[l].state \in {"SCORED", "OUTREACH_PENDING"} => req[t].rows = RowsOf(l)
     /\ op = "activate" => /\ StillDrafts(t)
                           /\ req[t].rows = RowsOf(l) /\ Whole(l)
                           /\ lead[l].state \in {"OUTREACH_PENDING", "UNSUBSCRIBED"}
     /\ op = "erase" => /\ req[t].addrs = {lead[l].addr}
                        /\ \A r \in req[t].rows : row[r].lead = l

(* The lead whose opt-out is in triage is still on its sequence or erased,   *)
(* the rows it read are still its own, whatever became of them.              *)
OptFits ==
  \/ opt = NoOpt
  \/ /\ opt.lead \in Ids /\ opt.addr \in Addresses
     /\ lead[opt.lead].state \in {"OUTREACH_PENDING", "SEQUENCE_ACTIVE", "gone"}
     /\ \A r \in opt.rows : row[r].lead = opt.lead

DeskInv == KeysHold /\ SequencesFit /\ CycleFits /\ OptFits /\ \A t \in Threads : RequestFits(t)

(* No activation read this unsubscribed lead before it unsubscribed.         *)
Dormant(l) == /\ lead[l].state = "UNSUBSCRIBED"
              /\ \A t \in Threads : ~(req[t].op = "activate" /\ req[t].lead = l)

(* A step may leave for an address, unless the address is on the list, its   *)
(* lead has the step on record, in the row or in the hands of the cycle, or  *)
(* its lead has unsubscribed (which may have cost a row its mark).           *)
Marked(r) == row[r].status = "SENT" \/ r \in sent
Blocked(a, s) ==
  \/ a \in suppressed
  \/ \E r \in Rows : /\ Marked(r)
                     /\ row[r].step = s
                     /\ There(row[r].lead) /\ lead[row[r].lead].addr = a
  \/ \E l \in Ids : Dormant(l) /\ lead[l].addr = a

Pending(a, s) == IF Blocked(a, s) THEN 0 ELSE 1

OnceInv == \A a \in Addresses, s \in Steps :
  mailed[a][s] + Pending(a, s) <= 1 + forgiven[a] + collisions

-----------------------------------------------------------------------------
(* Requests that only read *)

OnlyReads == UNCHANGED <<lead, row, suppressed, cycle, forgiven>>

LEMMA IdleIsARequest == Idle \in Requests
BY DEF Idle, Requests, Operations

LEMMA Asked ==
  ASSUME Typed, NEW t \in Threads, NEW q \in Requests, Ask(t, q)
  PROVE  req' \in [Threads -> Requests] /\ req'[t] = q
BY DEF Typed, Ask

LEMMA Answered ==
  ASSUME Typed, NEW t \in Threads, Answer(t)
  PROVE  req' \in [Threads -> Requests] /\ req'[t] = Idle
BY IdleIsARequest DEF Typed, Answer

LEMMA ReadTyped ==
  ASSUME Typed, OnlyReads, req' \in [Threads -> Requests]
  PROVE  Typed'
BY DEF Typed, OnlyReads, cycle, There

(* Only a pending lead is activated.                                         *)
Calls(t) == req'[t].op = "activate" => lead[req'[t].lead].state = "OUTREACH_PENDING"

NoActivation == \A t \in Threads : req[t].op # "activate"

(* What keeps an opt-out in triage in order.                                 *)
LEMMA OptKept ==
  ASSUME OptFits, opt' = opt, opt \in OptOuts,
         \A l \in Ids : lead[l].state \in {"OUTREACH_PENDING", "SEQUENCE_ACTIVE", "gone"} =>
                         lead'[l].state \in {"OUTREACH_PENDING", "SEQUENCE_ACTIVE", "gone"},
         \A r \in Rows : row[r].lead \in Ids => row'[r].lead = row[r].lead
  PROVE  OptFits'
<1>1. CASE opt = NoOpt
  BY <1>1 DEF OptFits, NoOpt
<1>2. CASE opt # NoOpt
  <2>1. opt.lead \in Ids /\ opt.rows \subseteq Rows
    BY <1>2 DEF OptFits, OptOuts
  <2>2. opt' = opt /\ lead'[opt.lead].state \in {"OUTREACH_PENDING", "SEQUENCE_ACTIVE", "gone"}
    BY <1>2, <2>1 DEF OptFits
  <2>3. \A r \in opt.rows : row'[r].lead = opt.lead
    BY <1>2, <2>1 DEF OptFits
  <2> QED BY <1>2, <2>1, <2>2, <2>3 DEF OptFits
<1> QED BY <1>1, <1>2

(* An answered request expects nothing.                                      *)
LEMMA IdleFits ==
  ASSUME NEW t \in Threads, req[t] = Idle
  PROVE  RequestFits(t)
BY DEF RequestFits, Idle

LEMMA ReadFits ==
  ASSUME OneRequest, Typed, DeskInv, OnlyReads, NEW t \in Threads, RequestFits(t)'
  PROVE  DeskInv'
<1>1. UNCHANGED <<lead, row, opt, due, sent, skip>>
  BY DEF OnlyReads, cycle
<1>2. KeysHold'
  BY <1>1 DEF DeskInv, KeysHold, There
<1>3. \A l \in Ids : RowsOf(l)' = RowsOf(l) /\ (Whole(l) => Whole(l)')
  BY <1>1 DEF RowsOf, Whole
<1>4. SequencesFit'
  BY <1>1, <1>3 DEF DeskInv, SequencesFit
<1>5. CycleFits'
  BY <1>1 DEF DeskInv, CycleFits, InCycle
<1>6. \A u \in Threads : RequestFits(u)'
  BY DEF OneRequest
<1>7. OptFits'
  BY <1>1, OptKept DEF DeskInv, Typed
<1> QED BY <1>2, <1>4, <1>5, <1>6, <1>7 DEF DeskInv

LEMMA ImportReads ==
  ASSUME Typed, NEW t \in Threads, NEW A \in SUBSET Addresses, ImportRead(t, A)
  PROVE  req' \in [Threads -> Requests] /\ RequestFits(t)' /\ Calls(t)
<1> DEFINE q == [Idle EXCEPT !.op = "import", !.addrs = A \ (suppressed \union Taken)]
<1>1. q \in Requests /\ q.op = "import"
  BY DEF Idle, Requests, Operations
<1>2. req' \in [Threads -> Requests] /\ req'[t] = q
  BY <1>1, Asked DEF ImportRead
<1>3. req'[t].op = "import"
  BY <1>1, <1>2
<1> QED BY <1>2, <1>3 DEF RequestFits, Calls

LEMMA UpsertReads ==
  ASSUME Typed, NEW t \in Threads, NEW a \in Addresses, UpsertRead(t, a)
  PROVE  req' \in [Threads -> Requests] /\ RequestFits(t)' /\ Calls(t)
<1>1. PICK l \in Ids \union {None} : Ask(t, [Idle EXCEPT !.op = "upsert", !.addrs = {a}, !.lead = l])
  BY DEF UpsertRead
<1> DEFINE q == [Idle EXCEPT !.op = "upsert", !.addrs = {a}, !.lead = l]
<1>2. q \in Requests /\ q.op = "upsert"
  BY DEF Idle, Requests, Operations
<1>3. req' \in [Threads -> Requests] /\ req'[t] = q
  BY <1>1, <1>2, Asked
<1>4. req'[t].op = "upsert"
  BY <1>2, <1>3
<1> QED BY <1>3, <1>4 DEF RequestFits, Calls

LEMMA OpenReads ==
  ASSUME Typed, NEW t \in Threads, NEW l \in Ids, NEW op \in Operations, NEW states,
         states \subseteq {"NEW", "SCORED", "OUTREACH_PENDING"}, Open(t, l, op, states)
  PROVE  /\ OnlyReads /\ There(l) /\ lead[l].state \in states
         /\ req' \in [Threads -> Requests]
         /\ req'[t].op = op /\ req'[t].lead = l /\ req'[t].state = lead[l].state
<1> DEFINE q == [Idle EXCEPT !.op = op, !.lead = l, !.state = lead[l].state, !.addrs = {lead[l].addr}]
<1>1. OnlyReads /\ Ask(t, q) /\ lead[l].state \in states /\ There(l)
  BY DEF Open, OnlyReads, There
<1>2. lead[l].state \in LeadStates /\ lead[l].addr \in Addresses
  BY <1>1 DEF Typed, Leads
<1>3. q \in Requests /\ q.op = op /\ q.lead = l /\ q.state = lead[l].state
  BY <1>2 DEF Idle, Requests, Operations
<1> HIDE DEF q
<1> QED BY <1>1, <1>3, Asked

LEMMA ScoreReads ==
  ASSUME Typed, DeskInv, NEW t \in Threads, NEW l \in Ids,
         ScoreRead(t, l) \/ MessageRead(t, l) \/ GenerateRead(t, l)
  PROVE  OnlyReads /\ req' \in [Threads -> Requests] /\ RequestFits(t)' /\ Calls(t)
<1>1. CASE ScoreRead(t, l)
  <2>1. "score" \in Operations /\ Open(t, l, "score", {"NEW"})
    BY <1>1 DEF ScoreRead, Operations
  <2>2. /\ OnlyReads /\ There(l) /\ lead[l].state \in {"NEW"} /\ req' \in [Threads -> Requests]
        /\ req'[t].op = "score" /\ req'[t].lead = l
    BY <2>1, OpenReads
  <2> QED BY <2>2 DEF RequestFits, OnlyReads, There, Calls
<1>2. CASE MessageRead(t, l)
  <2>1. "message" \in Operations /\ Open(t, l, "message", {"SCORED"})
    BY <1>2 DEF MessageRead, Operations
  <2>2. /\ OnlyReads /\ There(l) /\ lead[l].state \in {"SCORED"} /\ req' \in [Threads -> Requests]
        /\ req'[t].op = "message" /\ req'[t].lead = l
    BY <2>1, OpenReads
  <2> QED BY <2>2 DEF RequestFits, OnlyReads, There, Calls
<1>3. CASE GenerateRead(t, l)
  <2>1. "generate" \in Operations /\ Open(t, l, "generate", {"SCORED", "OUTREACH_PENDING"})
    BY <1>3 DEF GenerateRead, Operations
  <2>2. /\ OnlyReads /\ There(l) /\ lead[l].state \in {"SCORED", "OUTREACH_PENDING"}
        /\ req' \in [Threads -> Requests]
        /\ req'[t].op = "generate" /\ req'[t].lead = l /\ req'[t].state = lead[l].state
    BY <2>1, OpenReads
  <2>3. \A r \in RowsOf(l) : row[r].status \in {"DRAFT", "SKIPPED"} /\ r \notin InCycle
    BY <2>2 DEF RowsOf, DeskInv, SequencesFit, CycleFits
  <2>4. RowsOf(l)' = RowsOf(l) /\ InCycle' = InCycle /\ lead' = lead /\ row' = row
    BY <2>2 DEF OnlyReads, cycle, RowsOf, InCycle
  <2>5. \A r \in RowsOf(req[t].lead)' : row'[r].status \in {"DRAFT", "SKIPPED"} /\ r \notin InCycle'
    <3>1. RowsOf(req[t].lead)' = RowsOf(l)
      BY <2>2, <2>4 DEF RowsOf
    <3> QED BY <2>3, <2>4, <3>1
  <2>6. There(req[t].lead)'
    BY <2>2, <2>4 DEF There
  <2> QED BY <2>2, <2>4, <2>5, <2>6 DEF RequestFits, Calls
<1> QED BY <1>1, <1>2, <1>3

LEMMA ScoreAllReads ==
  ASSUME Typed, NEW t \in Threads, ScoreAllRead(t)
  PROVE  OnlyReads /\ req' \in [Threads -> Requests] /\ RequestFits(t)' /\ Calls(t)
<1> DEFINE new == {l \in Ids : lead[l].state = "NEW"}
           q == [Idle EXCEPT !.op = "score_all", !.leads = new]
<1>1. q \in Requests /\ q.op = "score_all" /\ q.leads = new
  BY DEF Idle, Requests, Operations
<1>2. OnlyReads /\ Ask(t, q)
  BY DEF ScoreAllRead, OnlyReads
<1>3. req' \in [Threads -> Requests] /\ req'[t] = q
  BY <1>1, <1>2, Asked
<1>4. req'[t].op = "score_all" /\ req'[t].leads = new /\ lead' = lead
  BY <1>1, <1>2, <1>3 DEF OnlyReads
<1> QED BY <1>2, <1>3, <1>4 DEF RequestFits, Calls

LEMMA ActivateReads ==
  ASSUME Typed, DeskInv, NEW t \in Threads, NEW l \in Ids, ActivateRead(t, l)
  PROVE  OnlyReads /\ req' \in [Threads -> Requests] /\ RequestFits(t)' /\ Calls(t)
<1> DEFINE drafts == {r \in RowsOf(l) : row[r].status = "DRAFT"}
           q == [Idle EXCEPT !.op = "activate", !.lead = l, !.rows = drafts]
<1>1. drafts \subseteq Rows
  BY DEF RowsOf
<1> HIDE DEF drafts
<1>3. q \in Requests /\ q.op = "activate" /\ q.lead = l /\ q.rows = drafts
  BY <1>1 DEF Idle, Requests, Operations
<1> USE DEF drafts
<1>4. OnlyReads /\ Ask(t, q) /\ lead[l].state = "OUTREACH_PENDING" /\ drafts # {}
  BY DEF ActivateRead, OnlyReads
<1>5. drafts = RowsOf(l) /\ Whole(l)
  BY <1>4 DEF DeskInv, SequencesFit
<1>6. \A r \in drafts : row[r].status = "DRAFT" /\ row[r].lead = l /\ r \notin InCycle
  BY DEF RowsOf, DeskInv, CycleFits
<1> HIDE DEF q, drafts
<1>7. req' \in [Threads -> Requests] /\ req'[t] = q
  BY <1>3, <1>4, Asked
<1>8. req'[t].op = "activate" /\ req'[t].lead = l /\ req'[t].rows = drafts
  BY <1>3, <1>7
<1>9. RowsOf(l)' = RowsOf(l) /\ Whole(l)' /\ InCycle' = InCycle /\ lead' = lead /\ row' = row
  BY <1>4, <1>5 DEF OnlyReads, cycle, RowsOf, Whole, InCycle
<1>10. StillDrafts(t)'
  BY <1>6, <1>8, <1>9 DEF StillDrafts
<1>11. There(l)'
  BY <1>4, <1>9 DEF There
<1> QED BY <1>4, <1>5, <1>7, <1>8, <1>9, <1>10, <1>11 DEF RequestFits, Calls

LEMMA EraseReads ==
  ASSUME Typed, NEW t \in Threads, NEW l \in Ids, NEW s \in BOOLEAN, EraseRead(t, l, s)
  PROVE  OnlyReads /\ req' \in [Threads -> Requests] /\ RequestFits(t)' /\ Calls(t)
<1> DEFINE q == [Idle EXCEPT !.op = "erase", !.lead = l, !.rows = RowsOf(l), !.addrs = {lead[l].addr},
                             !.supp = s /\ ~IsSuppressed(l)]
<1>1. OnlyReads /\ Ask(t, q) /\ There(l)
  BY DEF EraseRead, OnlyReads
<1>3. lead[l].addr \in Addresses /\ RowsOf(l) \subseteq Rows
  BY <1>1 DEF Typed, RowsOf
<1>4. (s /\ ~IsSuppressed(l)) \in BOOLEAN
  OBVIOUS
<1>5. q \in Requests /\ q.op = "erase" /\ q.lead = l /\ q.addrs = {lead[l].addr} /\ q.rows = RowsOf(l)
  BY <1>3, <1>4 DEF Idle, Requests, Operations
<1> HIDE DEF q
<1>6. req' \in [Threads -> Requests] /\ req'[t] = q
  BY <1>1, <1>5, Asked
<1>7. /\ req'[t].op = "erase" /\ req'[t].lead = l /\ req'[t].addrs = {lead[l].addr}
      /\ req'[t].rows = RowsOf(l) /\ lead' = lead /\ row' = row
  BY <1>1, <1>5, <1>6 DEF OnlyReads
<1> QED BY <1>1, <1>6, <1>7 DEF RequestFits, There, RowsOf, Calls

-----------------------------------------------------------------------------
(* Type correctness *)

LEMMA AnsweredFits ==
  ASSUME OneRequest, Typed, NEW t \in Threads, Answer(t)
  PROVE  (\A u \in Threads : RequestFits(u)') /\ NoActivation'
<1>1. req'[t] = Idle
  BY Answered
<1>2. RequestFits(t)'
  BY <1>1 DEF RequestFits, Idle
<1>3. req'[t].op = "idle"
  BY <1>1 DEF Idle
<1> QED BY <1>2, <1>3 DEF OneRequest, NoActivation

LEMMA FreeCounts ==
  ASSUME Typed, NEW A, Free(A)
  PROVE  /\ forgiven' \in [Addresses -> Nat]
         /\ \A a \in Addresses : forgiven'[a] = IF a \in A THEN forgiven[a] + 1 ELSE forgiven[a]
<1>1. forgiven' = [a \in Addresses |-> IF a \in A THEN forgiven[a] + 1 ELSE forgiven[a]]
  BY DEF Free
<1> QED BY <1>1 DEF Typed

(* Leads that change their state only.                                       *)
LEMMA MovesLead ==
  ASSUME Typed, NEW l \in Ids, There(l), NEW s \in LeadStates, s # "absent",
         lead' = [lead EXCEPT ![l].state = s]
  PROVE  /\ lead' \in [Ids -> Leads]
         /\ \A x \in Ids : There(x)' => lead'[x].addr \in Addresses
         /\ lead'[l].state = s /\ lead'[l].addr = lead[l].addr
         /\ \A x \in Ids : x # l => lead'[x] = lead[x]
<1>1. lead[l] \in Leads /\ lead[l].addr \in Addresses
  BY DEF Typed
<1>2. [lead[l] EXCEPT !.state = s] \in Leads /\ [lead[l] EXCEPT !.state = s].state = s
      /\ [lead[l] EXCEPT !.state = s].addr = lead[l].addr
  BY <1>1 DEF Leads
<1>3. lead'[l] = [lead[l] EXCEPT !.state = s]
  BY DEF Typed
<1>4. \A x \in Ids : x # l => lead'[x] = lead[x]
  BY DEF Typed
<1>5. lead' \in [Ids -> Leads]
  BY <1>2 DEF Typed
<1>6. \A x \in Ids : There(x)' => lead'[x].addr \in Addresses
  BY <1>1, <1>2, <1>3, <1>4 DEF Typed, There
<1> QED BY <1>2, <1>3, <1>4, <1>5, <1>6

LEMMA FreshAreAbsent ==
  ASSUME NEW n
  PROVE  /\ \A l \in FreshIds(n) : l \in Ids /\ lead[l].state = "absent"
         /\ \A r \in FreshRows(n) : r \in Rows /\ row[r].status = "absent"
BY DEF FreshIds, FreshRows, Lowest

-----------------------------------------------------------------------------
(* Commits that touch the lead only *)

RowsRest == UNCHANGED <<row, opt, due, sent, skip, mailed, collisions>>

(* New leads, at addresses that were free.                                   *)
LeadsEnter ==
  /\ lead' \in [Ids -> Leads]
  /\ \A l \in Ids : lead'[l] = lead[l] \/ (/\ lead[l].state = "absent" /\ lead'[l].state = "NEW"
                                           /\ lead'[l].addr \in Addresses \ Taken)
  /\ \A l, m \in Ids :
       lead'[l] # lead[l] /\ lead'[m] # lead[m] /\ lead'[l].addr = lead'[m].addr => l = m

LEMMA ImportEnters ==
  ASSUME Typed, NEW t \in Threads, ImportCommit(t)
  PROVE  LeadsEnter /\ RowsRest /\ Answer(t) /\ UNCHANGED <<suppressed, forgiven>>
<1> DEFINE A == req[t].addrs
           N == FreshIds(Cardinality(A))
<1>1. A \subseteq Addresses /\ A \intersect Taken = {}
  BY DEF ImportCommit, Typed, Requests
<1>2. PICK f \in Numberings(A, N) :
        lead' = [l \in Ids |-> IF \E a \in A : f[a] = l
                                 THEN [state |-> "NEW", addr |-> CHOOSE a \in A : f[a] = l] ELSE lead[l]]
  BY DEF ImportCommit
<1>3. \A l \in N : l \in Ids /\ lead[l].state = "absent"
  BY FreshAreAbsent
<1> HIDE DEF N, A
<1>4. f \in [A -> N] /\ \A x, y \in A : x # y => f[x] # f[y]
  BY DEF Numberings
<1>5. ASSUME NEW l \in Ids, \E a \in A : f[a] = l
      PROVE  /\ lead'[l].state = "NEW" /\ lead'[l].addr \in A /\ f[lead'[l].addr] = l
             /\ lead[l].state = "absent" /\ lead'[l] \in Leads
  <2>1. PICK a \in A : f[a] = l
    BY <1>5
  <2> DEFINE c == CHOOSE x \in A : f[x] = l
  <2>2. c \in A /\ f[c] = l
    BY <2>1
  <2> HIDE DEF c
  <2>3. lead'[l] = [state |-> "NEW", addr |-> c]
    BY <1>2, <1>5 DEF c
  <2>4. l \in N
    BY <1>4, <2>1
  <2> QED BY <1>1, <1>3, <2>2, <2>3, <2>4 DEF Leads, LeadStates
<1>6. ASSUME NEW l \in Ids, ~\E a \in A : f[a] = l PROVE lead'[l] = lead[l]
  BY <1>2, <1>6
<1>7. lead' \in [Ids -> Leads]
  <2>1. \A l \in Ids : lead'[l] \in Leads
    BY <1>5, <1>6 DEF Typed
  <2> QED BY <1>2, <2>1
<1>8. \A l \in Ids : lead'[l] = lead[l] \/ (/\ lead[l].state = "absent" /\ lead'[l].state = "NEW"
                                            /\ lead'[l].addr \in Addresses \ Taken)
  BY <1>1, <1>5, <1>6
<1>9. ASSUME NEW l \in Ids, NEW m \in Ids, lead'[l] # lead[l], lead'[m] # lead[m], lead'[l].addr = lead'[m].addr
      PROVE  l = m
  <2>1. f[lead'[l].addr] = l /\ f[lead'[m].addr] = m
    BY <1>5, <1>6, <1>9
  <2> QED BY <1>9, <2>1
<1>10. RowsRest /\ Answer(t) /\ UNCHANGED <<suppressed, forgiven>>
  BY DEF RowsRest, ImportCommit, cycle
<1>11. LeadsEnter
  BY <1>7, <1>8, <1>9 DEF LeadsEnter
<1> QED BY <1>10, <1>11

LEMMA UpsertEnters ==
  ASSUME Typed, NEW t \in Threads, UpsertAdds(t)
  PROVE  LeadsEnter /\ RowsRest /\ Answer(t) /\ UNCHANGED <<suppressed, forgiven>>
<1>1. PICK l \in FreshIds(1), a \in req[t].addrs : lead' = [lead EXCEPT ![l] = [state |-> "NEW", addr |-> a]]
  BY DEF UpsertAdds
<1>2. a \in Addresses \ Taken
  BY DEF UpsertAdds, Typed, Requests
<1>3. l \in Ids /\ lead[l].state = "absent"
  BY FreshAreAbsent
<1>4. [state |-> "NEW", addr |-> a] \in Leads
  BY <1>2 DEF Leads, LeadStates
<1>5. /\ lead' \in [Ids -> Leads] /\ lead'[l] = [state |-> "NEW", addr |-> a]
      /\ \A m \in Ids : m # l => lead'[m] = lead[m]
  BY <1>1, <1>3, <1>4 DEF Typed
<1>6. lead'[l].state = "NEW" /\ lead'[l].addr = a
  BY <1>5
<1>7. \A m \in Ids : lead'[m] = lead[m] \/ (/\ lead[m].state = "absent" /\ lead'[m].state = "NEW"
                                            /\ lead'[m].addr \in Addresses \ Taken)
  BY <1>2, <1>3, <1>5, <1>6
<1>8. \A m, n \in Ids : lead'[m] # lead[m] /\ lead'[n] # lead[n] => m = n
  BY <1>5
<1>9. LeadsEnter
  BY <1>5, <1>7, <1>8 DEF LeadsEnter
<1> QED BY <1>9 DEF RowsRest, UpsertAdds, cycle

LEMMA AbsentHasNoRows ==
  ASSUME Typed, KeysHold, NEW l \in Ids, ~There(l)
  PROVE  RowsOf(l) = {}
BY DeskNoneAssumption DEF KeysHold, RowsOf, There

LEMMA EnterFits ==
  ASSUME Typed, KeysHold, SequencesFit, CycleFits, OptFits, LeadsEnter, RowsRest
  PROVE  /\ \A l \in Ids : There(l)' => lead'[l].addr \in Addresses
         /\ KeysHold' /\ SequencesFit' /\ CycleFits' /\ OptFits'
<1>1. \A l \in Ids : There(l) => lead'[l] = lead[l]
  BY DEF LeadsEnter, There
<1>2. \A l \in Ids : There(l)' => There(l) \/ (/\ lead[l].state = "absent" /\ lead'[l].state = "NEW"
                                              /\ lead'[l].addr \in Addresses \ Taken /\ lead'[l] # lead[l])
  BY DEF LeadsEnter, There
<1>3. \A l \in Ids : There(l)' => lead'[l].addr \in Addresses
  BY <1>1, <1>2 DEF Typed
<1>4. UNCHANGED <<row, due, sent, skip>>
  BY DEF RowsRest
<1>5. KeysHold'
  <2>1. ASSUME NEW l \in Ids, NEW m \in Ids, There(l)', There(m)', lead'[l].addr = lead'[m].addr PROVE l = m
    <3>1. CASE There(l) /\ There(m)
      BY <1>1, <2>1, <3>1 DEF KeysHold
    <3>2. CASE There(l) /\ ~There(m)
      <4>1. lead[l].addr \in Taken
        BY <3>2 DEF Taken
      <4> QED BY <1>1, <1>2, <2>1, <3>2, <4>1
    <3>3. CASE ~There(l) /\ There(m)
      <4>1. lead[m].addr \in Taken
        BY <3>3 DEF Taken
      <4> QED BY <1>1, <1>2, <2>1, <3>3, <4>1
    <3>4. CASE ~There(l) /\ ~There(m)
      BY <1>2, <2>1, <3>4 DEF LeadsEnter
    <3> QED BY <3>1, <3>2, <3>3, <3>4
  <2>2. \A r \in Rows : row[r].status \notin {"absent", "deleted"} => There(row[r].lead)'
    <3> SUFFICES ASSUME NEW r \in Rows, row[r].status \notin {"absent", "deleted"}
                 PROVE  There(row[r].lead)'
      OBVIOUS
    <3>1. row[r].lead \in Ids /\ There(row[r].lead)
      BY DEF KeysHold
    <3>2. lead'[row[r].lead] = lead[row[r].lead] /\ row' = row
      BY <1>1, <1>4, <3>1
    <3> QED BY <3>1, <3>2 DEF There
  <2> QED BY <1>4, <2>1, <2>2 DEF KeysHold
<1>6. \A l \in Ids : RowsOf(l)' = RowsOf(l) /\ (Whole(l) => Whole(l)')
  BY <1>4 DEF RowsOf, Whole
<1>7. SequencesFit'
  <2>1. ASSUME NEW l \in Ids
        PROVE  /\ lead'[l].state \in {"NEW", "SCORED"} => RowsOf(l)' = {}
               /\ lead'[l].state = "OUTREACH_PENDING" => /\ \A r \in RowsOf(l)' : row'[r].status = "DRAFT"
                                                         /\ RowsOf(l)' = {} \/ Whole(l)'
               /\ lead'[l].state = "SEQUENCE_ACTIVE" => Whole(l)'
    <3>1. CASE lead'[l] = lead[l]
      BY <1>4, <1>6, <3>1 DEF SequencesFit
    <3>2. CASE lead'[l] # lead[l]
      <4>1. lead[l].state = "absent" /\ lead'[l].state = "NEW"
        BY <3>2 DEF LeadsEnter
      <4> QED BY <1>6, <4>1, AbsentHasNoRows DEF There
    <3> QED BY <3>1, <3>2
  <2>2. ASSUME NEW r \in Rows, row[r].status = "APPROVED" PROVE OnSequence(lead'[row[r].lead].state)
    <3>1. row[r].lead \in Ids /\ OnSequence(lead[row[r].lead].state)
      BY <2>2 DEF KeysHold, SequencesFit
    <3> QED BY <1>1, <3>1 DEF There, OnSequence
  <2> QED BY <1>4, <2>1, <2>2 DEF SequencesFit
<1>8. CycleFits'
  <2>1. ASSUME NEW r \in InCycle PROVE lead'[row[r].lead] = lead[row[r].lead]
    <3>1. r \in Rows
      BY DEF InCycle, Typed
    <3>2. row[r].lead \in Ids /\ lead[row[r].lead].state # "absent"
      BY <3>1 DEF KeysHold, CycleFits
    <3> QED BY <3>2 DEF LeadsEnter
  <2> QED BY <1>4, <2>1 DEF CycleFits, InCycle
<1>9. OptFits'
  BY OptKept DEF RowsRest, Typed, LeadsEnter
<1> QED BY <1>3, <1>5, <1>7, <1>8, <1>9

(* A lead that an enrichment moves to a free address.                        *)
Enriched(l, a) ==
  /\ There(l) /\ a \notin Taken
  /\ lead' \in [Ids -> Leads]
  /\ lead'[l].state = lead[l].state /\ lead'[l].addr = a
  /\ \A m \in Ids : m # l => lead'[m] = lead[m]

LEMMA UpsertEnriches ==
  ASSUME Typed, NEW t \in Threads, UpsertUpdates(t)
  PROVE  /\ RowsRest /\ Answer(t) /\ suppressed' = suppressed
         /\ \/ UNCHANGED <<lead, forgiven>>
            \/ \E l \in Ids, a \in Addresses : Enriched(l, a) /\ Free({lead[l].addr})
<1> DEFINE l == req[t].lead
<1>1. RowsRest /\ Answer(t) /\ suppressed' = suppressed /\ l \in Ids /\ There(l)
  BY DEF UpsertUpdates, RowsRest, cycle, Typed, Requests
<1>2. PICK a \in req[t].addrs : IF a = lead[l].addr
            THEN UNCHANGED <<lead, forgiven>>
            ELSE /\ a \notin Taken
                 /\ lead' = [lead EXCEPT ![l].addr = a]
                 /\ Free({lead[l].addr})
  BY DEF UpsertUpdates
<1>3. a \in Addresses
  BY DEF Typed, Requests
<1> HIDE DEF l
<1>4. CASE a # lead[l].addr
  <2>1. lead[l] \in Leads
    BY <1>1 DEF Typed
  <2>2. /\ [lead[l] EXCEPT !.addr = a] \in Leads
        /\ [lead[l] EXCEPT !.addr = a].state = lead[l].state
        /\ [lead[l] EXCEPT !.addr = a].addr = a
    BY <1>3, <2>1 DEF Leads
  <2>3. lead' = [lead EXCEPT ![l].addr = a] /\ a \notin Taken /\ Free({lead[l].addr})
    BY <1>2, <1>4
  <2>4. lead'[l] = [lead[l] EXCEPT !.addr = a] /\ \A m \in Ids : m # l => lead'[m] = lead[m]
    BY <1>1, <2>3 DEF Typed
  <2>5. lead' \in [Ids -> Leads]
    BY <2>2, <2>3 DEF Typed
  <2>6. Enriched(l, a)
    BY <1>1, <2>2, <2>3, <2>4, <2>5 DEF Enriched
  <2> QED BY <1>1, <1>3, <2>3, <2>6
<1> QED BY <1>1, <1>2, <1>4

LEMMA SameRows ==
  ASSUME row' = row
  PROVE  \A l \in Ids : RowsOf(l)' = RowsOf(l) /\ (Whole(l) => Whole(l)')
BY DEF RowsOf, Whole

LEMMA EnrichedFits ==
  ASSUME Typed, KeysHold, SequencesFit, CycleFits, OptFits, RowsRest,
         NEW l \in Ids, NEW a \in Addresses, Enriched(l, a)
  PROVE  /\ \A m \in Ids : There(m)' => lead'[m].addr \in Addresses
         /\ KeysHold' /\ SequencesFit' /\ CycleFits' /\ OptFits'
<1>1. \A m \in Ids : lead'[m].state = lead[m].state
  BY DEF Enriched
<1>2. \A m \in Ids : There(m)' <=> There(m)
  BY <1>1 DEF There
<1>3. UNCHANGED <<row, due, sent, skip>>
  BY DEF RowsRest
<1>4. \A m \in Ids : There(m)' => lead'[m].addr \in Addresses
  BY <1>2 DEF Enriched, Typed
<1>5. \A m \in Ids : There(m) => lead[m].addr # a
  BY DEF Enriched, Taken
<1>6. \A r \in Rows : row[r].status # "absent" => row[r].lead \in Ids
  BY DEF KeysHold
<1>7. KeysHold'
  <2>1. \A m, n \in Ids : There(m)' /\ There(n)' /\ lead'[m].addr = lead'[n].addr => m = n
    BY <1>2, <1>5 DEF Enriched, KeysHold
  <2>2. \A r \in Rows : row[r].status \notin {"absent", "deleted"} => There(row[r].lead)'
    <3> SUFFICES ASSUME NEW r \in Rows, row[r].status \notin {"absent", "deleted"}
                 PROVE  There(row[r].lead)'
      OBVIOUS
    <3>1. row[r].lead \in Ids /\ There(row[r].lead) /\ row' = row
      BY <1>3 DEF KeysHold
    <3>2. lead'[row[r].lead].state \notin {"absent", "gone"}
      BY <1>2, <3>1 DEF There
    <3> QED BY <3>1, <3>2 DEF There
  <2> QED BY <1>3, <2>1, <2>2 DEF KeysHold
<1>8. SequencesFit'
  <2>1. \A m \in Ids : RowsOf(m)' = RowsOf(m) /\ (Whole(m) => Whole(m)')
    BY <1>3, SameRows
  <2>2. \A r \in Rows : row[r].status = "APPROVED" => OnSequence(lead'[row[r].lead].state)
    BY <1>1, <1>6 DEF SequencesFit
  <2> QED BY <1>1, <1>3, <2>1, <2>2 DEF SequencesFit
<1>9. CycleFits'
  <2>1. \A r \in InCycle : r \in Rows /\ row[r].lead \in Ids
    BY <1>6 DEF InCycle, Typed, CycleFits
  <2> QED BY <1>1, <1>3, <2>1 DEF CycleFits, InCycle
<1>10. OptFits'
  BY <1>1, OptKept DEF RowsRest, Typed
<1> QED BY <1>4, <1>7, <1>8, <1>9, <1>10

(* A lead that goes the way of scoring and drafting, before it has rows.     *)
Advances(l, s) ==
  /\ \/ lead[l].state = "NEW" /\ s \in {"NEW", "SCORED"}
     \/ lead[l].state = "SCORED" /\ s = "OUTREACH_PENDING"
  /\ lead' = [lead EXCEPT ![l].state = s]

LEMMA AdvanceFits ==
  ASSUME Typed, KeysHold, SequencesFit, CycleFits, OptFits, RowsRest, NEW l \in Ids, NEW s, Advances(l, s)
  PROVE  /\ lead' \in [Ids -> Leads]
         /\ \A m \in Ids : There(m)' => lead'[m].addr \in Addresses
         /\ KeysHold' /\ SequencesFit' /\ CycleFits' /\ OptFits'
<1>1. There(l) /\ s \in LeadStates /\ s # "absent"
  BY DEF Advances, There, LeadStates
<1>2. /\ lead' \in [Ids -> Leads]
      /\ \A m \in Ids : There(m)' => lead'[m].addr \in Addresses
      /\ lead'[l].state = s /\ lead'[l].addr = lead[l].addr
      /\ \A m \in Ids : m # l => lead'[m] = lead[m]
  BY <1>1, MovesLead DEF Advances
<1>3. \A m \in Ids : (There(m)' <=> There(m)) /\ lead'[m].addr = lead[m].addr
  BY <1>2 DEF Advances, There
<1>4. UNCHANGED <<row, due, sent, skip>>
  BY DEF RowsRest
<1>5. \A r \in Rows : row[r].status # "absent" => row[r].lead \in Ids
  BY DEF KeysHold
<1>6. KeysHold'
  <2>1. \A r \in Rows : row[r].status \notin {"absent", "deleted"} => There(row[r].lead)'
    <3> SUFFICES ASSUME NEW r \in Rows, row[r].status \notin {"absent", "deleted"}
                 PROVE  There(row[r].lead)'
      OBVIOUS
    <3>1. row[r].lead \in Ids /\ There(row[r].lead) /\ row' = row
      BY <1>4 DEF KeysHold
    <3>2. lead'[row[r].lead].state \notin {"absent", "gone"}
      BY <1>3, <3>1 DEF There
    <3> QED BY <3>1, <3>2 DEF There
  <2> QED BY <1>3, <1>4, <2>1 DEF KeysHold
<1>7. RowsOf(l) = {}
  BY DEF SequencesFit, Advances
<1>8. SequencesFit'
  <2>1. \A m \in Ids : RowsOf(m)' = RowsOf(m) /\ (Whole(m) => Whole(m)')
    BY <1>4, SameRows
  <2>2. \A r \in Rows : row[r].status = "APPROVED" => row[r].lead # l
    BY DEF SequencesFit, Advances, OnSequence
  <2>3. \A r \in Rows : row[r].status = "APPROVED" => OnSequence(lead'[row[r].lead].state)
    BY <1>2, <1>5, <2>2 DEF SequencesFit
  <2>4. ASSUME NEW m \in Ids
        PROVE  /\ lead'[m].state \in {"NEW", "SCORED"} => RowsOf(m)' = {}
               /\ lead'[m].state = "OUTREACH_PENDING" => /\ \A r \in RowsOf(m)' : row'[r].status = "DRAFT"
                                                         /\ RowsOf(m)' = {} \/ Whole(m)'
               /\ lead'[m].state = "SEQUENCE_ACTIVE" => Whole(m)'
    <3>1. CASE m = l
      BY <1>2, <1>7, <2>1, <3>1 DEF Advances
    <3>2. CASE m # l
      BY <1>2, <1>4, <2>1, <3>2 DEF SequencesFit
    <3> QED BY <3>1, <3>2
  <2> QED BY <1>4, <2>3, <2>4 DEF SequencesFit
<1>9. CycleFits'
  <2>1. \A r \in InCycle : r \in Rows /\ row[r].lead \in Ids /\ row[r].lead # l
    BY <1>5 DEF InCycle, Typed, CycleFits, Advances
  <2> QED BY <1>2, <1>4, <2>1 DEF CycleFits, InCycle
<1>10. OptFits'
  <2>1. \A m \in Ids : lead[m].state \in {"OUTREACH_PENDING", "SEQUENCE_ACTIVE", "gone"} => lead'[m] = lead[m]
    BY <1>2 DEF Advances
  <2> QED BY <2>1, OptKept DEF RowsRest, Typed
<1> QED BY <1>2, <1>6, <1>8, <1>9, <1>10

LEMMA MoveAdvances ==
  ASSUME Typed, NEW t \in Threads, RequestFits(t), MoveCommit(t)
  PROVE  /\ \E l \in Ids, s \in LeadStates : Advances(l, s)
         /\ RowsRest /\ Answer(t) /\ UNCHANGED <<suppressed, forgiven>>
<1> DEFINE l == req[t].lead
<1>1. RowsRest /\ Answer(t) /\ UNCHANGED <<suppressed, forgiven>>
  BY DEF MoveCommit, RowsRest, cycle
<1>2. CASE req[t].op = "score"
  <2>1. l \in Ids /\ lead[l].state = "NEW"
    BY <1>2 DEF RequestFits
  <2>2. lead' = [lead EXCEPT ![l].state = "SCORED"]
    BY <1>2 DEF MoveCommit, Moved
  <2>3. "SCORED" \in LeadStates /\ Advances(l, "SCORED")
    BY <2>1, <2>2 DEF Advances, LeadStates
  <2> QED BY <1>1, <2>1, <2>3
<1>3. CASE req[t].op = "message"
  <2>1. l \in Ids /\ lead[l].state = "SCORED"
    BY <1>3 DEF RequestFits
  <2>2. lead' = [lead EXCEPT ![l].state = "OUTREACH_PENDING"]
    BY <1>3 DEF MoveCommit, Moved
  <2>3. "OUTREACH_PENDING" \in LeadStates /\ Advances(l, "OUTREACH_PENDING")
    BY <2>1, <2>2 DEF Advances, LeadStates
  <2> QED BY <1>1, <2>1, <2>3
<1> QED BY <1>2, <1>3 DEF MoveCommit

LEMMA ScoreAdvances ==
  ASSUME Typed, NEW t \in Threads, RequestFits(t), ScoreNext(t)
  PROVE  /\ \E l \in Ids, s \in LeadStates : Advances(l, s)
         /\ RowsRest /\ UNCHANGED <<suppressed, forgiven>>
         /\ req' \in [Threads -> Requests] /\ RequestFits(t)' /\ req'[t].op # "activate"
<1>1. PICK l \in req[t].leads, reached \in BOOLEAN :
        /\ lead' = [lead EXCEPT ![l].state = IF reached THEN "SCORED" ELSE @]
        /\ req' = [req EXCEPT ![t] = IF req[t].leads = {l} THEN Idle
                                     ELSE [req[t] EXCEPT !.leads = req[t].leads \ {l}]]
  BY DEF ScoreNext
<1>2. RowsRest /\ UNCHANGED <<suppressed, forgiven>>
  BY DEF ScoreNext, RowsRest, cycle
<1>3. req[t] \in Requests /\ req[t].op = "score_all"
  BY DEF Typed, ScoreNext
<1>4. req[t].leads \subseteq Ids /\ \A x \in req[t].leads : lead[x].state = "NEW"
  BY <1>3 DEF Requests, RequestFits
<1> DEFINE s == IF reached THEN "SCORED" ELSE "NEW"
<1>5. l \in Ids /\ s \in LeadStates /\ Advances(l, s)
  BY <1>1, <1>4 DEF Advances, LeadStates, Typed
<1> DEFINE q == [req[t] EXCEPT !.leads = req[t].leads \ {l}]
<1>6. q \in Requests /\ q.op = "score_all" /\ q.leads = req[t].leads \ {l}
  BY <1>3 DEF Requests
<1>7. \E x \in {Idle, q} : req' = [req EXCEPT ![t] = x]
  BY <1>1
<1> HIDE DEF q, s
<1>8. req' \in [Threads -> Requests] /\ (req'[t] = Idle \/ req'[t] = q)
  BY <1>6, <1>7, IdleIsARequest DEF Typed
<1>9. \A x \in Ids : x # l => lead'[x] = lead[x]
  BY <1>1, <1>5 DEF Typed
<1>10. RequestFits(t)'
  <2>1. CASE req'[t] = Idle
    BY <2>1 DEF RequestFits, Idle
  <2>2. CASE req'[t] = q
    <3>1. req'[t].op = "score_all" /\ req'[t].leads = req[t].leads \ {l}
      BY <1>6, <2>2
    <3>2. \A x \in req'[t].leads : lead'[x].state = "NEW"
      BY <1>4, <1>9, <3>1
    <3> QED BY <3>1, <3>2 DEF RequestFits
  <2> QED BY <1>8, <2>1, <2>2
<1>11. req'[t].op # "activate"
  BY <1>6, <1>8 DEF Idle
<1> QED BY <1>2, <1>5, <1>8, <1>10, <1>11

-----------------------------------------------------------------------------
(* The sequence is written                                                   *)

LEMMA SelectFits ==
  ASSUME Typed, DeskInv, NEW t \in Threads, GenerateSelect(t)
  PROVE  OnlyReads /\ req' \in [Threads -> Requests] /\ RequestFits(t)' /\ Calls(t)
<1>1. OnlyReads /\ req[t] \in Requests /\ req[t].op = "generate" /\ RequestFits(t)
  BY DEF GenerateSelect, OnlyReads, Typed, DeskInv
<1> PICK l \in Ids : l = req[t].lead
  BY <1>1 DEF RequestFits
<1> DEFINE rows == {r \in RowsOf(l) : row[r].status \in Unsent}
<1>2. /\ There(l)
      /\ \/ lead[l].state = req[t].state /\ req[t].state \in {"SCORED", "OUTREACH_PENDING"}
         \/ lead[l].state = "UNSUBSCRIBED" /\ req[t].state \in {"OUTREACH_PENDING", "UNSUBSCRIBED"}
      /\ \A r \in RowsOf(l) : row[r].status \in {"DRAFT", "SKIPPED"} /\ r \notin InCycle
  BY <1>1 DEF RequestFits
<1>3. PICK s \in {req[t].state, lead[l].state} :
        req' = [req EXCEPT ![t].op = "write", ![t].state = s, ![t].rows = rows]
  BY DEF GenerateSelect
<1>4. rows \subseteq Rows /\ s \in LeadStates
  BY <1>2 DEF RowsOf, LeadStates
<1> DEFINE q == [[[req[t] EXCEPT !.op = "write"] EXCEPT !.state = s] EXCEPT !.rows = rows]
<1>5. lead[l].state \in {"SCORED", "OUTREACH_PENDING"} => rows = RowsOf(l)
  BY DEF DeskInv, SequencesFit, Unsent
<1>6. \A r \in rows : row[r].status = "DRAFT" /\ row[r].lead = l /\ r \notin InCycle
  BY <1>2 DEF RowsOf, Unsent
<1> HIDE DEF rows
<1>8. q \in Requests /\ q.op = "write" /\ q.lead = l /\ q.state = s /\ q.rows = rows
  BY <1>1, <1>4 DEF Requests, Operations
<1>9. req'[t] = q /\ req' \in [Threads -> Requests]
  <2>1. req' = [req EXCEPT ![t] = q]
    BY <1>3 DEF Typed
  <2> HIDE DEF q
  <2> QED BY <1>8, <2>1 DEF Typed
<1> HIDE DEF q
<1>10. req'[t].op = "write" /\ req'[t].lead = l /\ req'[t].state = s /\ req'[t].rows = rows
  BY <1>8, <1>9
<1>11. lead' = lead /\ row' = row /\ InCycle' = InCycle /\ RowsOf(l)' = RowsOf(l)
  BY <1>1 DEF OnlyReads, cycle, InCycle, RowsOf
<1>12. StillDrafts(t)'
  BY <1>6, <1>10, <1>11 DEF StillDrafts
<1>13. There(l)'
  BY <1>2, <1>11 DEF There
<1>14. \/ lead[l].state = s /\ s \in {"SCORED", "OUTREACH_PENDING"}
       \/ lead[l].state = "UNSUBSCRIBED" /\ s \in {"OUTREACH_PENDING", "UNSUBSCRIBED"}
  BY <1>2, <1>3
<1> QED BY <1>1, <1>2, <1>5, <1>9, <1>10, <1>11, <1>12, <1>13, <1>14 DEF RequestFits, Calls

LEMMA WholeKept ==
  ASSUME NEW l, RowsOf(l)' = RowsOf(l), \A r \in RowsOf(l) : row'[r].step = row[r].step, Whole(l)
  PROVE  Whole(l)'
<1> SUFFICES ASSUME NEW s \in Steps PROVE \E r \in Rows : {x \in RowsOf(l)' : row'[x].step = s} = {r}
  BY DEF Whole
<1>1. PICK r \in Rows : {x \in RowsOf(l) : row[x].step = s} = {r}
  BY DEF Whole
<1>2. {x \in RowsOf(l)' : row'[x].step = s} = {x \in RowsOf(l) : row[x].step = s}
  OBVIOUS
<1> QED BY <1>1, <1>2

(* What the commit of a rewrite leaves: the rows it read are gone, the rows  *)
(* M are new, one for each step.                                             *)
Rewritten(l, old, M) ==
  /\ row' \in [Rows -> Messages]
  /\ \A r \in M : /\ r \in Rows /\ row[r].status = "absent"
                  /\ row'[r].lead = l /\ row'[r].step \in Steps /\ row'[r].status = "DRAFT"
  /\ \A r \in Rows \ M : /\ row'[r].lead = row[r].lead /\ row'[r].step = row[r].step
                         /\ row'[r].status = IF r \in old THEN "deleted" ELSE row[r].status
  /\ \A s \in Steps : \E r \in M : {x \in M : row'[x].step = s} = {r}

LEMMA GenerateRewrites ==
  ASSUME Typed, NEW t \in Threads, GenerateCommit(t), req[t].lead \in Ids
  PROVE  \E M \in SUBSET Rows : Rewritten(req[t].lead, req[t].rows, M)
<1> PICK l \in Ids : l = req[t].lead
  OBVIOUS
<1> DEFINE N == FreshRows(Cardinality(Steps))
           old == req[t].rows
<1>1. \E f \in Numberings(Steps, N) :
          row' = [r \in Rows |->
               IF \E s \in Steps : f[s] = r
                 THEN [lead |-> l, step |-> CHOOSE s \in Steps : f[s] = r, status |-> "DRAFT"]
                 ELSE IF r \in old THEN [row[r] EXCEPT !.status = "deleted"] ELSE row[r]]
  BY ZenonT(60) DEF GenerateCommit
<1>2. \A r \in N : r \in Rows /\ row[r].status = "absent"
  BY FreshAreAbsent
<1> HIDE DEF N, old
<1>3. PICK f \in Numberings(Steps, N) :
          row' = [r \in Rows |->
               IF \E s \in Steps : f[s] = r
                 THEN [lead |-> l, step |-> CHOOSE s \in Steps : f[s] = r, status |-> "DRAFT"]
                 ELSE IF r \in old THEN [row[r] EXCEPT !.status = "deleted"] ELSE row[r]]
  BY <1>1
<1>4. f \in [Steps -> N] /\ \A x, y \in Steps : x # y => f[x] # f[y]
  BY DEF Numberings
<1> DEFINE M == {f[s] : s \in Steps}
<1>5. ASSUME NEW s \in Steps
      PROVE  /\ f[s] \in Rows /\ row[f[s]].status = "absent"
             /\ row'[f[s]] = [lead |-> l, step |-> s, status |-> "DRAFT"]
  <2>1. f[s] \in N
    BY <1>4
  <2> DEFINE c == CHOOSE x \in Steps : f[x] = f[s]
  <2>2. c \in Steps /\ f[c] = f[s]
    OBVIOUS
  <2>3. c = s
    BY <1>4, <2>2
  <2>4. row'[f[s]] = [lead |-> l, step |-> c, status |-> "DRAFT"]
    BY <1>2, <1>3, <2>1
  <2> HIDE DEF c
  <2> QED BY <1>2, <2>1, <2>3, <2>4
<1>6. ASSUME NEW s \in Steps
      PROVE  row'[f[s]].lead = l /\ row'[f[s]].step = s /\ row'[f[s]].status = "DRAFT" /\ row'[f[s]] \in Messages
  <2>1. row'[f[s]] = [lead |-> l, step |-> s, status |-> "DRAFT"]
    BY <1>5
  <2>2. [lead |-> l, step |-> s, status |-> "DRAFT"] \in Messages
    BY DEF Messages
  <2> QED BY <2>1, <2>2
<1>7. ASSUME NEW r \in Rows, r \notin M
      PROVE  /\ row'[r].lead = row[r].lead /\ row'[r].step = row[r].step
             /\ row'[r].status = (IF r \in old THEN "deleted" ELSE row[r].status)
             /\ row'[r] \in Messages
  <2>1. row[r] \in Messages
    BY DEF Typed
  <2>2. row'[r] = IF r \in old THEN [row[r] EXCEPT !.status = "deleted"] ELSE row[r]
    BY <1>3, <1>7
  <2>3. /\ [row[r] EXCEPT !.status = "deleted"] \in Messages
        /\ [row[r] EXCEPT !.status = "deleted"].lead = row[r].lead
        /\ [row[r] EXCEPT !.status = "deleted"].step = row[r].step
        /\ [row[r] EXCEPT !.status = "deleted"].status = "deleted"
    BY <2>1 DEF Messages
  <2> QED BY <2>1, <2>2, <2>3
<1>8. row' \in [Rows -> Messages]
  <2>1. \A r \in Rows : row'[r] \in Messages
    BY <1>6, <1>7
  <2> QED BY <1>3, <2>1
<1>9. ASSUME NEW s \in Steps PROVE \E r \in M : {x \in M : row'[x].step = s} = {r}
  <2>1. {x \in M : row'[x].step = s} = {f[s]}
    BY <1>6
  <2> QED BY <2>1
<1>10. \A r \in M : /\ r \in Rows /\ row[r].status = "absent"
                    /\ row'[r].lead = l /\ row'[r].step \in Steps /\ row'[r].status = "DRAFT"
  <2> TAKE r \in M
  <2>1. PICK s \in Steps : r = f[s]
    OBVIOUS
  <2>2. f[s] \in Rows /\ row[f[s]].status = "absent"
    BY <1>5
  <2>3. row'[f[s]].lead = l /\ row'[f[s]].step = s /\ row'[f[s]].status = "DRAFT"
    BY <1>6
  <2> QED BY <2>1, <2>2, <2>3
<1>11. M \in SUBSET Rows
  BY <1>10
<1> HIDE DEF M
<1>12. Rewritten(l, old, M)
  BY <1>7, <1>8, <1>9, <1>10 DEF Rewritten
<1> QED BY <1>11, <1>12 DEF old

CycleRest == UNCHANGED <<opt, due, sent, skip, mailed, collisions>>

LEMMA GenerateFits ==
  ASSUME OneRequest, Typed, DeskInv, NEW t \in Threads, GenerateCommit(t)
  PROVE  /\ lead' \in [Ids -> Leads] /\ row' \in [Rows -> Messages]
         /\ \A x \in Ids : There(x)' => lead'[x].addr \in Addresses
         /\ CycleRest /\ Answer(t) /\ UNCHANGED <<suppressed, forgiven>>
         /\ DeskInv'
         /\ \A r \in Rows : Marked(r) => Marked(r)' /\ row'[r].lead = row[r].lead /\ row'[r].step = row[r].step
         /\ \A x \in Ids : lead'[x].addr = lead[x].addr /\ (There(x)' <=> There(x))
<1>1. req[t].op = "write" /\ RequestFits(t) /\ Answer(t) /\ CycleRest /\ UNCHANGED <<suppressed, forgiven>>
  BY DEF GenerateCommit, DeskInv, CycleRest, cycle
<1> PICK l \in Ids : l = req[t].lead
  BY <1>1 DEF RequestFits
<1> PICK old \in SUBSET Rows : old = req[t].rows
  BY DEF Typed, Requests
<1>2. PICK M \in SUBSET Rows : Rewritten(l, old, M)
  BY GenerateRewrites
<1>3. /\ There(l) /\ old \intersect InCycle = {}
      /\ \A r \in old : row[r].status \in {"DRAFT", "SKIPPED"} /\ row[r].lead = l
      /\ lead[l].state \in {"SCORED", "OUTREACH_PENDING"} => old = RowsOf(l)
      /\ \/ lead[l].state = req[t].state /\ req[t].state \in {"SCORED", "OUTREACH_PENDING"}
         \/ lead[l].state = "UNSUBSCRIBED" /\ req[t].state \in {"OUTREACH_PENDING", "UNSUBSCRIBED"}
  BY <1>1 DEF RequestFits, StillDrafts
<1> DEFINE s == IF req[t].state = "SCORED" THEN "OUTREACH_PENDING" ELSE lead[l].state
<1>4. lead' = [lead EXCEPT ![l].state = s]
  BY DEF GenerateCommit, Typed
<1>5. /\ s = IF lead[l].state = "SCORED" THEN "OUTREACH_PENDING" ELSE lead[l].state
      /\ s \in {"OUTREACH_PENDING", "UNSUBSCRIBED"}
  BY <1>3
<1> HIDE DEF s
<1>6. /\ lead' \in [Ids -> Leads]
      /\ \A x \in Ids : There(x)' => lead'[x].addr \in Addresses
      /\ lead'[l].state = s /\ lead'[l].addr = lead[l].addr
      /\ \A x \in Ids : x # l => lead'[x] = lead[x]
  <2>1. s \in LeadStates /\ s # "absent"
    BY <1>5 DEF LeadStates
  <2> QED BY <1>3, <1>4, <2>1, MovesLead
<1>7. \A x \in Ids : (There(x)' <=> There(x)) /\ lead'[x].addr = lead[x].addr
  BY <1>3, <1>5, <1>6 DEF There
<1>8. /\ row' \in [Rows -> Messages]
      /\ \A r \in M : /\ r \in Rows /\ row[r].status = "absent"
                      /\ row'[r].lead = l /\ row'[r].step \in Steps /\ row'[r].status = "DRAFT"
      /\ \A r \in Rows \ M : /\ row'[r].lead = row[r].lead /\ row'[r].step = row[r].step
                             /\ row'[r].status = IF r \in old THEN "deleted" ELSE row[r].status
      /\ \A u \in Steps : \E r \in M : {x \in M : row'[x].step = u} = {r}
  BY <1>2 DEF Rewritten
<1>9. \A r \in Rows : row[r].status = "absent" => row[r].lead = None
  BY DEF DeskInv, KeysHold
<1>10. \A r \in Rows : row[r].status # "absent" => row[r].lead \in Ids /\ row[r].step \in Steps
  BY DEF DeskInv, KeysHold
<1>11. KeysHold'
  <2>1. \A x, y \in Ids : There(x)' /\ There(y)' /\ lead'[x].addr = lead'[y].addr => x = y
    BY <1>7 DEF DeskInv, KeysHold
  <2>2. ASSUME NEW r \in Rows
        PROVE  IF row'[r].status = "absent" THEN row'[r].lead = None
               ELSE row'[r].lead \in Ids /\ row'[r].step \in Steps
    <3>1. CASE r \in M
      BY <1>8, <3>1
    <3>2. CASE r \notin M
      BY <1>3, <1>8, <1>9, <1>10, <3>2
    <3> QED BY <3>1, <3>2
  <2>3. ASSUME NEW r \in Rows, row'[r].status \notin {"absent", "deleted"} PROVE There(row[r].lead)'
    <3>1. row'[r].lead \in Ids /\ There(row'[r].lead)
      <4>1. CASE r \in M
        BY <1>3, <1>8, <4>1
      <4>2. CASE r \notin M
        BY <1>8, <1>10, <2>3, <4>2 DEF DeskInv, KeysHold
      <4> QED BY <4>1, <4>2
    <3>2. PICK x \in Ids : x = row'[r].lead
      BY <3>1
    <3>3. There(x)'
      BY <1>7, <3>1, <3>2
    <3> QED BY <3>2, <3>3 DEF There
  <2> QED BY <2>1, <2>2, <2>3 DEF KeysHold
<1>12. ASSUME NEW x \in Ids, x # l PROVE RowsOf(x)' = RowsOf(x) /\ RowsOf(x) \intersect M = {}
  <2>1. \A r \in M : r \notin RowsOf(x) /\ r \notin RowsOf(x)'
    BY <1>8, <1>9, <1>12, DeskNoneAssumption DEF RowsOf
  <2>2. \A r \in Rows \ M : r \in RowsOf(x)' <=> r \in RowsOf(x)
    BY <1>3, <1>8, <1>12 DEF RowsOf
  <2>3. RowsOf(x) \subseteq Rows /\ RowsOf(x)' \subseteq Rows
    BY DEF RowsOf
  <2> QED BY <2>1, <2>2, <2>3
<1>13. lead[l].state \in {"SCORED", "OUTREACH_PENDING"} => RowsOf(l)' = M
  <2> SUFFICES ASSUME lead[l].state \in {"SCORED", "OUTREACH_PENDING"} PROVE RowsOf(l)' = M
    OBVIOUS
  <2>1. old = RowsOf(l)
    BY <1>3
  <2>2. \A r \in M : r \in RowsOf(l)'
    BY <1>8 DEF RowsOf
  <2>3. \A r \in Rows \ M : r \notin RowsOf(l)'
    BY <1>8, <2>1 DEF RowsOf
  <2>4. RowsOf(l)' \subseteq Rows
    BY DEF RowsOf
  <2> QED BY <2>2, <2>3, <2>4
<1>14. SequencesFit'
  <2>1. ASSUME NEW x \in Ids
        PROVE  /\ lead'[x].state \in {"NEW", "SCORED"} => RowsOf(x)' = {}
               /\ lead'[x].state = "OUTREACH_PENDING" => /\ \A r \in RowsOf(x)' : row'[r].status = "DRAFT"
                                                         /\ RowsOf(x)' = {} \/ Whole(x)'
               /\ lead'[x].state = "SEQUENCE_ACTIVE" => Whole(x)'
    <3>1. CASE x = l
      <4>1. lead'[l].state = "OUTREACH_PENDING" => RowsOf(l)' = M
        BY <1>5, <1>6, <1>13
      <4>2. RowsOf(l)' = M => Whole(l)'
        BY <1>8 DEF Whole
      <4> QED BY <1>5, <1>6, <1>8, <3>1, <4>1, <4>2
    <3>2. CASE x # l
      <4>1. RowsOf(x)' = RowsOf(x) /\ lead'[x] = lead[x]
        BY <1>6, <1>12, <3>2
      <4>2. \A r \in RowsOf(x) : r \in Rows \ M /\ r \notin old
        BY <1>3, <1>12, <3>2 DEF RowsOf
      <4>3. \A r \in RowsOf(x) : row'[r].step = row[r].step /\ row'[r].status = row[r].status
        BY <1>8, <4>2
      <4>4. Whole(x) => Whole(x)'
        BY <4>1, <4>3, WholeKept
      <4> QED BY <4>1, <4>3, <4>4 DEF DeskInv, SequencesFit
    <3> QED BY <3>1, <3>2
  <2>2. ASSUME NEW r \in Rows, row'[r].status = "APPROVED" PROVE OnSequence(lead'[row'[r].lead].state)
    <3>1. r \notin M /\ row[r].status = "APPROVED" /\ row'[r].lead = row[r].lead
      BY <1>8, <2>2
    <3>2. row[r].lead \in Ids /\ OnSequence(lead[row[r].lead].state)
      BY <1>10, <3>1 DEF DeskInv, SequencesFit
    <3>3. row[r].lead = l => lead'[l].state = "UNSUBSCRIBED"
      BY <1>3, <1>5, <1>6, <3>2 DEF OnSequence
    <3> QED BY <1>6, <3>1, <3>2, <3>3 DEF OnSequence
  <2> QED BY <2>1, <2>2 DEF SequencesFit
<1>15. CycleFits'
  <2>1. InCycle' = InCycle /\ due' = due /\ sent' = sent
    BY <1>1 DEF InCycle, CycleRest
  <2>2. ASSUME NEW r \in InCycle
        PROVE  /\ row'[r].status = row[r].status
               /\ lead'[row'[r].lead].state = lead[row[r].lead].state
    <3>1. r \in Rows /\ row[r].status \in {"APPROVED", "SKIPPED", "deleted"} /\ r \notin old
      BY <1>3 DEF InCycle, Typed, DeskInv, CycleFits
    <3>2. r \notin M
      BY <1>8, <3>1
    <3>3. row'[r].lead = row[r].lead /\ row'[r].status = row[r].status /\ row[r].lead \in Ids
      BY <1>8, <1>10, <3>1, <3>2
    <3>4. lead[row[r].lead].state \in {"SEQUENCE_ACTIVE", "UNSUBSCRIBED", "gone"}
      BY DEF DeskInv, CycleFits
    <3> QED BY <1>5, <1>6, <3>3, <3>4
  <2> QED BY <2>1, <2>2 DEF CycleFits, DeskInv
<1>16. \A u \in Threads : RequestFits(u)'
  BY <1>1, AnsweredFits
<1>17. ASSUME NEW r \in Rows, Marked(r)
       PROVE  Marked(r)' /\ row'[r].lead = row[r].lead /\ row'[r].step = row[r].step
  <2>1. sent' = sent /\ (r \in sent => r \in InCycle)
    BY <1>1 DEF CycleRest, InCycle
  <2>2. row[r].status # "absent" /\ r \notin old
    BY <1>3, <1>17, <2>1 DEF Marked, DeskInv, CycleFits
  <2>3. r \notin M
    BY <1>8, <2>2
  <2> QED BY <1>8, <1>17, <2>1, <2>2, <2>3 DEF Marked
<1>18. OptFits'
  <2>1. \A x \in Ids : lead[x].state \in {"OUTREACH_PENDING", "SEQUENCE_ACTIVE", "gone"} =>
                        lead'[x].state = lead[x].state
    BY <1>3, <1>5, <1>6
  <2>2. \A r \in Rows : row[r].lead \in Ids => row'[r].lead = row[r].lead
    BY <1>8, <1>9, DeskNoneAssumption
  <2> QED BY <1>1, <2>1, <2>2, OptKept DEF CycleRest, Typed, DeskInv
<1> QED BY <1>1, <1>6, <1>7, <1>8, <1>11, <1>14, <1>15, <1>16, <1>17, <1>18 DEF DeskInv

-----------------------------------------------------------------------------
(* Commits that mark rows                                                    *)

(* Row updates that leave a row its lead and its step.                       *)
LEMMA StatusOf ==
  ASSUME Typed, NEW r \in Rows, NEW s \in {"APPROVED", "SKIPPED", "SENT", "deleted"}
  PROVE  /\ [row[r] EXCEPT !.status = s] \in Messages
         /\ [row[r] EXCEPT !.status = s].lead = row[r].lead
         /\ [row[r] EXCEPT !.status = s].step = row[r].step
         /\ [row[r] EXCEPT !.status = s].status = s
BY DEF Typed, Messages

Restated == /\ row' \in [Rows -> Messages]
            /\ \A r \in Rows : row'[r].lead = row[r].lead /\ row'[r].step = row[r].step

LEMMA ActivateMarks ==
  ASSUME Typed, NEW t \in Threads, ActivateCommit(t)
  PROVE  /\ Restated
         /\ \A r \in Rows : row'[r].status = IF r \in req[t].rows THEN "APPROVED" ELSE row[r].status
<1>1. row' = [r \in Rows |-> IF r \in req[t].rows THEN [row[r] EXCEPT !.status = "APPROVED"] ELSE row[r]]
  BY DEF ActivateCommit
<1>2. ASSUME NEW r \in Rows
      PROVE  /\ row'[r] \in Messages /\ row'[r].lead = row[r].lead /\ row'[r].step = row[r].step
             /\ row'[r].status = IF r \in req[t].rows THEN "APPROVED" ELSE row[r].status
  BY <1>1, StatusOf DEF Typed
<1>3. row' \in [Rows -> Messages]
  BY <1>1, <1>2
<1> QED BY <1>2, <1>3 DEF Restated

LEMMA EraseMarks ==
  ASSUME Typed, NEW t \in Threads, EraseCommit(t)
  PROVE  /\ Restated
         /\ \A r \in Rows : row'[r].status = IF r \in req[t].rows THEN "deleted" ELSE row[r].status
<1>1. row' = [r \in Rows |-> IF r \in req[t].rows THEN [row[r] EXCEPT !.status = "deleted"] ELSE row[r]]
  BY DEF EraseCommit
<1>2. ASSUME NEW r \in Rows
      PROVE  /\ row'[r] \in Messages /\ row'[r].lead = row[r].lead /\ row'[r].step = row[r].step
             /\ row'[r].status = IF r \in req[t].rows THEN "deleted" ELSE row[r].status
  BY <1>1, StatusOf DEF Typed
<1>3. row' \in [Rows -> Messages]
  BY <1>1, <1>2
<1> QED BY <1>2, <1>3 DEF Restated

LEMMA OptOutMarks ==
  ASSUME Typed, OptOutCommits
  PROVE  /\ Restated
         /\ \A r \in Rows : row'[r].status = IF r \in opt.rows THEN "SKIPPED" ELSE row[r].status
<1>1. row' = [r \in Rows |-> IF r \in opt.rows THEN [row[r] EXCEPT !.status = "SKIPPED"] ELSE row[r]]
  BY DEF OptOutCommits
<1>2. ASSUME NEW r \in Rows
      PROVE  /\ row'[r] \in Messages /\ row'[r].lead = row[r].lead /\ row'[r].step = row[r].step
             /\ row'[r].status = IF r \in opt.rows THEN "SKIPPED" ELSE row[r].status
  BY <1>1, StatusOf DEF Typed
<1>3. row' \in [Rows -> Messages]
  BY <1>1, <1>2
<1> QED BY <1>2, <1>3 DEF Restated

LEMMA CycleMarks ==
  ASSUME Typed, CycleCommit, ~\E r \in sent \union skip : row[r].status = "deleted"
  PROVE  /\ Restated /\ collisions' = collisions
         /\ \A r \in Rows : row'[r].status = IF r \in sent THEN "SENT"
                                             ELSE IF r \in skip THEN "SKIPPED" ELSE row[r].status
<1>1. /\ row' = [r \in Rows |-> IF r \in sent THEN [row[r] EXCEPT !.status = "SENT"]
                                ELSE IF r \in skip THEN [row[r] EXCEPT !.status = "SKIPPED"] ELSE row[r]]
      /\ collisions' = collisions
  BY DEF CycleCommit
<1>2. ASSUME NEW r \in Rows
      PROVE  /\ row'[r] \in Messages /\ row'[r].lead = row[r].lead /\ row'[r].step = row[r].step
             /\ row'[r].status = IF r \in sent THEN "SENT"
                                 ELSE IF r \in skip THEN "SKIPPED" ELSE row[r].status
  BY <1>1, StatusOf DEF Typed
<1>3. row' \in [Rows -> Messages]
  BY <1>1, <1>2
<1> QED BY <1>1, <1>2, <1>3 DEF Restated

(* Where no row appears or goes, the leads have the rows they had.           *)
LEMMA SameSequences ==
  ASSUME Restated, \A r \in Rows : row'[r].status = "deleted" <=> row[r].status = "deleted"
  PROVE  \A l \in Ids : RowsOf(l)' = RowsOf(l) /\ (Whole(l) => Whole(l)')
<1> SUFFICES ASSUME NEW l \in Ids PROVE RowsOf(l)' = RowsOf(l) /\ (Whole(l) => Whole(l)')
  OBVIOUS
<1>1. RowsOf(l)' = RowsOf(l)
  BY DEF Restated, RowsOf
<1>2. \A r \in RowsOf(l) : row'[r].step = row[r].step
  BY DEF Restated, RowsOf
<1> QED BY <1>1, <1>2, WholeKept

LEMMA ActivateFits ==
  ASSUME OneRequest, Typed, DeskInv, NEW t \in Threads, ActivateCommit(t)
  PROVE  /\ lead' \in [Ids -> Leads] /\ row' \in [Rows -> Messages]
         /\ \A x \in Ids : There(x)' => lead'[x].addr \in Addresses
         /\ CycleRest /\ Answer(t) /\ UNCHANGED <<suppressed, forgiven>>
         /\ DeskInv'
         /\ \A r \in Rows : Marked(r) => Marked(r)' /\ row'[r].lead = row[r].lead /\ row'[r].step = row[r].step
         /\ \A x \in Ids : lead'[x].addr = lead[x].addr /\ (There(x)' <=> There(x))
<1>1. req[t].op = "activate" /\ RequestFits(t) /\ Answer(t) /\ CycleRest /\ UNCHANGED <<suppressed, forgiven>>
  BY DEF ActivateCommit, DeskInv, CycleRest, cycle
<1> PICK l \in Ids : l = req[t].lead
  BY <1>1 DEF RequestFits
<1> PICK old \in SUBSET Rows : old = req[t].rows
  BY DEF Typed, Requests
<1>2. /\ There(l) /\ old \intersect InCycle = {} /\ old = RowsOf(l) /\ Whole(l)
      /\ \A r \in old : row[r].status \in {"DRAFT", "SKIPPED"} /\ row[r].lead = l
      /\ lead[l].state \in {"OUTREACH_PENDING", "UNSUBSCRIBED"}
  BY <1>1 DEF RequestFits, StillDrafts
<1>3. /\ lead' \in [Ids -> Leads]
      /\ \A x \in Ids : There(x)' => lead'[x].addr \in Addresses
      /\ lead'[l].state = "SEQUENCE_ACTIVE" /\ lead'[l].addr = lead[l].addr
      /\ \A x \in Ids : x # l => lead'[x] = lead[x]
  <2>1. "SEQUENCE_ACTIVE" \in LeadStates /\ lead' = [lead EXCEPT ![l].state = "SEQUENCE_ACTIVE"]
    BY DEF LeadStates, ActivateCommit
  <2> QED BY <1>2, <2>1, MovesLead
<1>4. \A x \in Ids : (There(x)' <=> There(x)) /\ lead'[x].addr = lead[x].addr
  BY <1>2, <1>3 DEF There
<1>5. /\ Restated
      /\ \A r \in Rows : row'[r].status = IF r \in old THEN "APPROVED" ELSE row[r].status
  BY ActivateMarks
<1>6. \A r \in Rows : row[r].status # "absent" => row[r].lead \in Ids /\ row[r].step \in Steps
  BY DEF DeskInv, KeysHold
<1>7. \A r \in Rows : row'[r].status \in {"absent", "deleted"} <=> row[r].status \in {"absent", "deleted"}
  BY <1>2, <1>5
<1>8. KeysHold'
  <2>1. \A x, y \in Ids : There(x)' /\ There(y)' /\ lead'[x].addr = lead'[y].addr => x = y
    BY <1>4 DEF DeskInv, KeysHold
  <2>2. \A r \in Rows : IF row'[r].status = "absent" THEN row'[r].lead = None
                        ELSE row'[r].lead \in Ids /\ row'[r].step \in Steps
    BY <1>2, <1>5 DEF Restated, DeskInv, KeysHold
  <2>3. ASSUME NEW r \in Rows, row'[r].status \notin {"absent", "deleted"} PROVE There(row[r].lead)'
    <3>1. row[r].lead \in Ids /\ There(row[r].lead) /\ row'[r].lead = row[r].lead
      BY <1>5, <1>6, <1>7, <2>3 DEF Restated, DeskInv, KeysHold
    <3>2. PICK x \in Ids : x = row[r].lead
      BY <3>1
    <3> QED BY <1>4, <3>1, <3>2 DEF There
  <2> QED BY <2>1, <2>2, <2>3 DEF KeysHold
<1>9. \A x \in Ids : RowsOf(x)' = RowsOf(x) /\ (Whole(x) => Whole(x)')
  <2>1. \A r \in Rows : row'[r].status = "deleted" <=> row[r].status = "deleted"
    BY <1>2, <1>5
  <2> QED BY <1>5, <2>1, SameSequences
<1>10. SequencesFit'
  <2>1. ASSUME NEW x \in Ids
        PROVE  /\ lead'[x].state \in {"NEW", "SCORED"} => RowsOf(x)' = {}
               /\ lead'[x].state = "OUTREACH_PENDING" => /\ \A r \in RowsOf(x)' : row'[r].status = "DRAFT"
                                                         /\ RowsOf(x)' = {} \/ Whole(x)'
               /\ lead'[x].state = "SEQUENCE_ACTIVE" => Whole(x)'
    <3>1. CASE x = l
      BY <1>2, <1>3, <1>9, <3>1
    <3>2. CASE x # l
      <4>1. \A r \in RowsOf(x) : row'[r].status = row[r].status
        BY <1>2, <1>5, <3>2 DEF RowsOf
      <4> QED BY <1>3, <1>9, <3>2, <4>1 DEF DeskInv, SequencesFit
    <3> QED BY <3>1, <3>2
  <2>2. ASSUME NEW r \in Rows, row'[r].status = "APPROVED" PROVE OnSequence(lead'[row'[r].lead].state)
    <3>1. CASE row[r].lead = l
      BY <1>3, <1>5, <3>1 DEF Restated, OnSequence
    <3>2. CASE row[r].lead # l
      <4>1. row[r].status = "APPROVED" /\ row'[r].lead = row[r].lead
        BY <1>2, <1>5, <2>2, <3>2 DEF Restated
      <4>2. row[r].lead \in Ids /\ OnSequence(lead[row[r].lead].state)
        BY <1>6, <4>1 DEF DeskInv, SequencesFit
      <4> QED BY <1>3, <3>2, <4>1, <4>2
    <3> QED BY <3>1, <3>2
  <2> QED BY <2>1, <2>2 DEF SequencesFit
<1>11. CycleFits'
  <2>1. InCycle' = InCycle /\ due' = due /\ sent' = sent
    BY <1>1 DEF InCycle, CycleRest
  <2>2. ASSUME NEW r \in InCycle
        PROVE  /\ row'[r].status = row[r].status
               /\ lead'[row'[r].lead].state = lead[row[r].lead].state
    <3>1. r \in Rows /\ row[r].status \in {"APPROVED", "SKIPPED", "deleted"} /\ r \notin old
      BY <1>2 DEF InCycle, Typed, DeskInv, CycleFits
    <3>2. row'[r].lead = row[r].lead /\ row'[r].status = row[r].status /\ row[r].lead \in Ids
      BY <1>5, <1>6, <3>1 DEF Restated
    <3>3. row[r].lead # l
      <4>1. row[r].status # "deleted" => row[r].lead # l
        BY <1>2, <3>1 DEF RowsOf
      <4>2. row[r].status = "deleted" => row[r].lead # l
        BY <1>2 DEF DeskInv, CycleFits, There
      <4> QED BY <4>1, <4>2
    <3> QED BY <1>3, <3>2, <3>3
  <2> QED BY <2>1, <2>2 DEF CycleFits, DeskInv
<1>12. \A u \in Threads : RequestFits(u)'
  BY <1>1, AnsweredFits
<1>13. ASSUME NEW r \in Rows, Marked(r)
       PROVE  Marked(r)' /\ row'[r].lead = row[r].lead /\ row'[r].step = row[r].step
  BY <1>1, <1>2, <1>5, <1>13 DEF Marked, CycleRest, Restated
<1>14. OptFits'
  BY <1>1, <1>2, <1>3, <1>5, OptKept DEF CycleRest, Typed, DeskInv, Restated
<1> QED BY <1>1, <1>3, <1>4, <1>5, <1>8, <1>10, <1>11, <1>12, <1>13, <1>14 DEF DeskInv, Restated

-----------------------------------------------------------------------------
(* A lead is erased                                                          *)

Erased(l) ==
  /\ There(l)
  /\ lead' \in [Ids -> Leads] /\ lead'[l].state = "gone"
  /\ \A x \in Ids : x # l => lead'[x] = lead[x]
  /\ Restated
  /\ \A r \in Rows : IF row[r].lead = l THEN row'[r].status = "deleted" ELSE row'[r].status = row[r].status

LEMMA EraseErases ==
  ASSUME Typed, DeskInv, NEW t \in Threads, EraseCommit(t)
  PROVE  /\ CycleRest /\ Answer(t)
         /\ suppressed \subseteq suppressed' /\ suppressed' \subseteq Addresses
         /\ \E l \in Ids : Erased(l) /\ Free({lead[l].addr} \ suppressed')
<1>1. req[t].op = "erase" /\ RequestFits(t) /\ Answer(t) /\ CycleRest
  BY DEF EraseCommit, DeskInv, CycleRest, cycle
<1> PICK l \in Ids : l = req[t].lead
  BY <1>1 DEF RequestFits
<1> PICK old \in SUBSET Rows : old = req[t].rows
  BY DEF Typed, Requests
<1>2. There(l) /\ req[t].addrs = {lead[l].addr} /\ \A r \in old : row[r].lead = l
  BY <1>1 DEF RequestFits
<1>3. /\ RowsOf(l) \subseteq old
      /\ lead' = [lead EXCEPT ![l] = [NoLead EXCEPT !.state = "gone"]]
      /\ suppressed' = suppressed \/ suppressed' = suppressed \union Spellings(lead[l].addr)
      /\ Free({lead[l].addr} \ suppressed')
  BY <1>2 DEF EraseCommit, SuppressEmail
<1>4. suppressed \subseteq suppressed' /\ suppressed' \subseteq Addresses
  BY <1>3 DEF Typed, Spellings
<1>5. /\ Restated
      /\ \A r \in Rows : row'[r].status = IF r \in old THEN "deleted" ELSE row[r].status
  BY EraseMarks
<1>6. [NoLead EXCEPT !.state = "gone"] \in Leads /\ [NoLead EXCEPT !.state = "gone"].state = "gone"
  BY DEF NoLead, Leads, LeadStates
<1>7. lead' \in [Ids -> Leads] /\ lead'[l].state = "gone" /\ \A x \in Ids : x # l => lead'[x] = lead[x]
  BY <1>3, <1>6 DEF Typed
<1>8. \A r \in Rows : IF row[r].lead = l THEN row'[r].status = "deleted" ELSE row'[r].status = row[r].status
  <2> TAKE r \in Rows
  <2>1. CASE row[r].lead = l
    <3>1. r \in old \/ row[r].status = "deleted"
      BY <1>3, <2>1 DEF RowsOf
    <3> QED BY <1>5, <2>1, <3>1
  <2>2. CASE row[r].lead # l
    BY <1>2, <1>5, <2>2
  <2> QED BY <2>1, <2>2
<1> QED BY <1>1, <1>2, <1>3, <1>4, <1>5, <1>7, <1>8 DEF Erased

LEMMA ErasedFits ==
  ASSUME Typed, KeysHold, SequencesFit, CycleFits, OptFits, CycleRest, NEW l \in Ids, Erased(l)
  PROVE  /\ \A x \in Ids : There(x)' => lead'[x].addr \in Addresses
         /\ KeysHold' /\ SequencesFit' /\ CycleFits' /\ OptFits'
<1>1. \A x \in Ids : There(x)' <=> (There(x) /\ x # l)
  BY DEF Erased, There
<1>2. \A x \in Ids : There(x)' => lead'[x].addr \in Addresses
  BY <1>1 DEF Erased, Typed
<1>3. \A r \in Rows : row'[r].lead = row[r].lead /\ row'[r].step = row[r].step
  BY DEF Erased, Restated
<1>4. \A r \in Rows : row[r].status # "absent" => row[r].lead \in Ids /\ row[r].step \in Steps
  BY DEF KeysHold
<1>5. KeysHold'
  <2>1. \A x, y \in Ids : There(x)' /\ There(y)' /\ lead'[x].addr = lead'[y].addr => x = y
    BY <1>1 DEF Erased, KeysHold
  <2>2. ASSUME NEW r \in Rows
        PROVE  IF row'[r].status = "absent" THEN row'[r].lead = None
               ELSE row'[r].lead \in Ids /\ row'[r].step \in Steps
    <3>1. CASE row[r].lead = l
      <4>1. row[r].status # "absent"
        BY <3>1, DeskNoneAssumption DEF KeysHold
      <4> QED BY <1>3, <1>4, <3>1, <4>1 DEF Erased
    <3>2. CASE row[r].lead # l
      BY <1>3, <3>2 DEF Erased, KeysHold
    <3> QED BY <3>1, <3>2
  <2>3. ASSUME NEW r \in Rows, row'[r].status \notin {"absent", "deleted"} PROVE There(row[r].lead)'
    <3>1. row[r].lead # l /\ row[r].status \notin {"absent", "deleted"}
      BY <2>3 DEF Erased
    <3>2. row[r].lead \in Ids /\ There(row[r].lead) /\ row'[r].lead = row[r].lead
      BY <1>3, <1>4, <3>1 DEF KeysHold
    <3>3. PICK x \in Ids : x = row[r].lead
      BY <3>2
    <3> QED BY <1>1, <3>1, <3>2, <3>3 DEF There
  <2> QED BY <2>1, <2>2, <2>3 DEF KeysHold
<1>6. ASSUME NEW x \in Ids, x # l
      PROVE  /\ RowsOf(x)' = RowsOf(x) /\ (Whole(x) => Whole(x)')
             /\ \A r \in RowsOf(x) : row'[r].status = row[r].status
  <2>1. RowsOf(x)' = RowsOf(x)
    BY <1>3, <1>6 DEF Erased, RowsOf
  <2>2. \A r \in RowsOf(x) : row'[r].status = row[r].status /\ row'[r].step = row[r].step
    BY <1>3, <1>6 DEF Erased, RowsOf
  <2> QED BY <2>1, <2>2, WholeKept
<1>7. SequencesFit'
  <2>1. ASSUME NEW x \in Ids
        PROVE  /\ lead'[x].state \in {"NEW", "SCORED"} => RowsOf(x)' = {}
               /\ lead'[x].state = "OUTREACH_PENDING" => /\ \A r \in RowsOf(x)' : row'[r].status = "DRAFT"
                                                         /\ RowsOf(x)' = {} \/ Whole(x)'
               /\ lead'[x].state = "SEQUENCE_ACTIVE" => Whole(x)'
    <3>1. CASE x = l
      BY <3>1 DEF Erased
    <3>2. CASE x # l
      BY <1>6, <3>2 DEF Erased, SequencesFit
    <3> QED BY <3>1, <3>2
  <2>2. ASSUME NEW r \in Rows, row'[r].status = "APPROVED" PROVE OnSequence(lead'[row'[r].lead].state)
    <3>1. row[r].lead # l /\ row[r].status = "APPROVED"
      BY <2>2 DEF Erased
    <3> QED BY <1>3, <1>4, <3>1 DEF Erased, SequencesFit
  <2> QED BY <2>1, <2>2 DEF SequencesFit
<1>8. CycleFits'
  <2>1. InCycle' = InCycle /\ due' = due /\ sent' = sent
    BY DEF InCycle, CycleRest
  <2>2. ASSUME NEW r \in InCycle
        PROVE  /\ row'[r].status \in {"APPROVED", "SKIPPED", "deleted"}
               /\ lead'[row'[r].lead].state \in {"SEQUENCE_ACTIVE", "UNSUBSCRIBED", "gone"}
               /\ row'[r].status = "deleted" => lead'[row'[r].lead].state = "gone"
    <3>1. /\ r \in Rows /\ row[r].status \in {"APPROVED", "SKIPPED", "deleted"}
          /\ lead[row[r].lead].state \in {"SEQUENCE_ACTIVE", "UNSUBSCRIBED", "gone"}
          /\ row[r].status = "deleted" => lead[row[r].lead].state = "gone"
      BY DEF InCycle, Typed, CycleFits
    <3>2. row'[r].lead = row[r].lead /\ row[r].lead \in Ids
      BY <1>3, <1>4, <3>1
    <3>3. CASE row[r].lead = l
      BY <3>2, <3>3, <3>1 DEF Erased
    <3>4. CASE row[r].lead # l
      BY <3>1, <3>2, <3>4 DEF Erased
    <3> QED BY <3>3, <3>4
  <2> QED BY <2>1, <2>2 DEF CycleFits
<1>9. OptFits'
  BY <1>3, OptKept DEF CycleRest, Typed, Erased
<1> QED BY <1>2, <1>5, <1>7, <1>8, <1>9

-----------------------------------------------------------------------------
(* A lead opts out                                                           *)

(* The steps of the triage before its commit.                                *)
OptOutReads == (\E l \in Ids : OptOutBegins(l)) \/ OptOutSelects \/ OptOutFails

LEMMA OptOutReadsFit ==
  ASSUME Typed, DeskInv, OptOutReads
  PROVE  /\ UNCHANGED <<lead, row, suppressed, req, due, sent, skip, mailed, forgiven, collisions>>
         /\ opt' \in OptOuts /\ OptFits'
<1>1. UNCHANGED <<lead, row, suppressed, req, due, sent, skip, mailed, forgiven, collisions>>
  BY DEF OptOutReads, OptOutBegins, OptOutSelects, OptOutFails
<1>2. ASSUME NEW l \in Ids, OptOutBegins(l) PROVE opt' \in OptOuts /\ OptFits'
  <2>1. lead[l].state \in {"OUTREACH_PENDING", "SEQUENCE_ACTIVE"} /\ lead[l].addr \in Addresses
    BY <1>2 DEF OptOutBegins, Typed, There
  <2>2. opt' = [NoOpt EXCEPT !.lead = l, !.addr = lead[l].addr]
    BY <1>2 DEF OptOutBegins
  <2> QED BY <1>1, <2>1, <2>2 DEF OptFits, NoOpt, OptOuts
<1>3. ASSUME OptOutSelects PROVE opt' \in OptOuts /\ OptFits'
  <2> DEFINE new == {r \in RowsOf(opt.lead) : row[r].status \in Unsent}
  <2>1. opt \in OptOuts /\ opt # NoOpt
    BY <1>3 DEF OptOutSelects, Typed
  <2>2. new \subseteq Rows /\ \A r \in new : row[r].lead = opt.lead
    BY DEF RowsOf
  <2>3. opt' = [opt EXCEPT !.read = TRUE, !.supp = opt.addr \notin suppressed, !.rows = new]
    BY <1>3 DEF OptOutSelects
  <2> HIDE DEF new
  <2>4. /\ opt' \in OptOuts /\ opt'.lead = opt.lead /\ opt'.addr = opt.addr /\ opt'.rows = new
    BY <2>1, <2>2, <2>3 DEF OptOuts
  <2> QED BY <1>1, <2>1, <2>2, <2>4 DEF OptFits, DeskInv
<1>4. ASSUME OptOutFails PROVE opt' \in OptOuts /\ OptFits'
  BY <1>4 DEF OptOutFails, OptFits, NoOpt, OptOuts
<1> QED BY <1>1, <1>2, <1>3, <1>4 DEF OptOutReads

LEMMA OptOutFits ==
  ASSUME Typed, DeskInv, OptOutCommits
  PROVE  /\ lead' \in [Ids -> Leads] /\ row' \in [Rows -> Messages] /\ opt' \in OptOuts
         /\ \A x \in Ids : There(x)' => lead'[x].addr \in Addresses
         /\ UNCHANGED <<req, due, sent, skip, mailed, forgiven, collisions>>
         /\ suppressed \subseteq suppressed' /\ suppressed' \subseteq Addresses
         /\ DeskInv'
         /\ \A r \in Rows : Marked(r) =>
              /\ row'[r].lead = row[r].lead /\ row'[r].step = row[r].step
              /\ Marked(r)' \/ (row'[r].status = "SKIPPED" /\ \E l \in Ids : l = row[r].lead /\ Dormant(l)')
         /\ \A x \in Ids : lead'[x].addr = lead[x].addr /\ (There(x)' <=> There(x)) /\ (Dormant(x) => Dormant(x)')
<1>0. opt # NoOpt /\ opt.lead \in Ids /\ opt.addr \in Addresses /\ opt.rows \subseteq Rows
  BY DEF OptOutCommits, NoOpt, DeskInv, OptFits, Typed, OptOuts
<1> PICK l \in Ids : l = opt.lead
  BY <1>0
<1>1. /\ lead[l].state \in {"OUTREACH_PENDING", "SEQUENCE_ACTIVE"} /\ There(l)
      /\ \A r \in opt.rows : row[r].lead = l /\ row[r].status # "deleted"
      /\ UNCHANGED <<req, due, sent, skip, mailed, forgiven, collisions>>
      /\ opt' = NoOpt
  BY <1>0 DEF OptOutCommits, There, DeskInv, OptFits
<1>2. suppressed \subseteq suppressed' /\ suppressed' \subseteq Addresses
  BY DEF OptOutCommits, SuppressEmail, Spellings, Typed
<1>3. /\ lead' \in [Ids -> Leads]
      /\ \A x \in Ids : There(x)' => lead'[x].addr \in Addresses
      /\ lead'[l].state = "UNSUBSCRIBED" /\ lead'[l].addr = lead[l].addr
      /\ \A x \in Ids : x # l => lead'[x] = lead[x]
  <2>1. "UNSUBSCRIBED" \in LeadStates /\ lead' = [lead EXCEPT ![l].state = "UNSUBSCRIBED"]
    BY DEF LeadStates, OptOutCommits
  <2> QED BY <1>1, <2>1, MovesLead
<1>4. \A x \in Ids : (There(x)' <=> There(x)) /\ lead'[x].addr = lead[x].addr
  BY <1>1, <1>3 DEF There
<1>5. /\ Restated
      /\ \A r \in Rows : row'[r].status = IF r \in opt.rows THEN "SKIPPED" ELSE row[r].status
  BY OptOutMarks
<1>6. \A r \in Rows : row[r].status # "absent" => row[r].lead \in Ids /\ row[r].step \in Steps
  BY DEF DeskInv, KeysHold
<1>7. \A r \in Rows :
        /\ row'[r].lead = row[r].lead /\ row'[r].step = row[r].step
        /\ row'[r].status = row[r].status \/ (/\ row[r].lead = l /\ row'[r].status = "SKIPPED"
                                              /\ row[r].status \notin {"absent", "deleted"})
  <2> TAKE r \in Rows
  <2>1. CASE r \in opt.rows
    <3>1. row[r].lead = l /\ row[r].status # "deleted"
      BY <1>1, <2>1
    <3>2. row[r].status # "absent"
      BY <3>1, DeskNoneAssumption DEF DeskInv, KeysHold
    <3> QED BY <1>5, <2>1, <3>1, <3>2 DEF Restated
  <2>2. CASE r \notin opt.rows
    BY <1>5, <2>2 DEF Restated
  <2> QED BY <2>1, <2>2
<1>8. KeysHold'
  <2>1. \A x, y \in Ids : There(x)' /\ There(y)' /\ lead'[x].addr = lead'[y].addr => x = y
    BY <1>4 DEF DeskInv, KeysHold
  <2>2. \A r \in Rows : IF row'[r].status = "absent" THEN row'[r].lead = None
                        ELSE row'[r].lead \in Ids /\ row'[r].step \in Steps
    BY <1>6, <1>7 DEF DeskInv, KeysHold
  <2>3. ASSUME NEW r \in Rows, row'[r].status \notin {"absent", "deleted"} PROVE There(row[r].lead)'
    <3>1. row[r].lead \in Ids /\ There(row[r].lead) /\ row'[r].lead = row[r].lead
      BY <1>6, <1>7, <2>3 DEF DeskInv, KeysHold
    <3>2. PICK x \in Ids : x = row[r].lead
      BY <3>1
    <3> QED BY <1>4, <3>1, <3>2 DEF There
  <2> QED BY <2>1, <2>2, <2>3 DEF KeysHold
<1>9. \A x \in Ids : RowsOf(x)' = RowsOf(x) /\ (Whole(x) => Whole(x)')
  <2>1. \A r \in Rows : row'[r].status = "deleted" <=> row[r].status = "deleted"
    BY <1>7
  <2> QED BY <1>5, <2>1, SameSequences
<1>10. SequencesFit'
  <2>1. ASSUME NEW x \in Ids
        PROVE  /\ lead'[x].state \in {"NEW", "SCORED"} => RowsOf(x)' = {}
               /\ lead'[x].state = "OUTREACH_PENDING" => /\ \A r \in RowsOf(x)' : row'[r].status = "DRAFT"
                                                         /\ RowsOf(x)' = {} \/ Whole(x)'
               /\ lead'[x].state = "SEQUENCE_ACTIVE" => Whole(x)'
    <3>1. CASE x = l
      BY <1>3, <3>1
    <3>2. CASE x # l
      <4>1. \A r \in RowsOf(x) : row'[r].status = row[r].status
        BY <1>7, <3>2 DEF RowsOf
      <4> QED BY <1>3, <1>9, <3>2, <4>1 DEF DeskInv, SequencesFit
    <3> QED BY <3>1, <3>2
  <2>2. ASSUME NEW r \in Rows, row'[r].status = "APPROVED" PROVE OnSequence(lead'[row'[r].lead].state)
    <3>1. row[r].status = "APPROVED" /\ row'[r].lead = row[r].lead
      BY <1>7, <2>2
    <3>2. row[r].lead \in Ids /\ OnSequence(lead[row[r].lead].state)
      BY <1>6, <3>1 DEF DeskInv, SequencesFit
    <3> QED BY <1>3, <3>1, <3>2 DEF OnSequence
  <2> QED BY <2>1, <2>2 DEF SequencesFit
<1>11. InCycle' = InCycle /\ due' = due /\ sent' = sent
  BY <1>1 DEF InCycle
<1>12. CycleFits'
  <2>1. ASSUME NEW r \in InCycle
        PROVE  /\ row'[r].status \in {"APPROVED", "SKIPPED", "deleted"}
               /\ lead'[row'[r].lead].state \in {"SEQUENCE_ACTIVE", "UNSUBSCRIBED", "gone"}
               /\ row'[r].status = "deleted" => lead'[row'[r].lead].state = "gone"
    <3>1. /\ r \in Rows /\ row[r].status \in {"APPROVED", "SKIPPED", "deleted"}
          /\ lead[row[r].lead].state \in {"SEQUENCE_ACTIVE", "UNSUBSCRIBED", "gone"}
          /\ row[r].status = "deleted" => lead[row[r].lead].state = "gone"
      BY DEF InCycle, Typed, DeskInv, CycleFits
    <3>2. row'[r].lead = row[r].lead /\ row[r].lead \in Ids
      BY <1>6, <1>7, <3>1
    <3>3. CASE row[r].lead = l
      BY <1>1, <1>3, <1>7, <3>1, <3>2, <3>3
    <3>4. CASE row[r].lead # l
      BY <1>3, <1>7, <3>1, <3>2, <3>4
    <3> QED BY <3>3, <3>4
  <2> QED BY <1>11, <2>1 DEF CycleFits, DeskInv
<1>13. ASSUME NEW u \in Threads PROVE RequestFits(u)'
  <2>1. RequestFits(u) /\ req' = req
    BY <1>1 DEF DeskInv
  <2> DEFINE op == req[u].op
  <2>2. op \in {"score", "message", "generate", "write", "activate", "erase"} =>
          /\ req[u].lead \in Ids /\ There(req[u].lead) /\ There(req[u].lead)'
    <3>1. op \in {"score", "message", "generate", "write", "activate", "erase"} =>
            req[u].lead \in Ids /\ There(req[u].lead)
      BY <2>1 DEF RequestFits
    <3>2. \A x \in Ids : x = req[u].lead /\ There(x) => There(req[u].lead)'
      BY <1>4, <2>1 DEF There
    <3> QED BY <3>1, <3>2
  <2>3. /\ op = "score" => lead'[req[u].lead].state = "NEW"
        /\ op = "message" => lead'[req[u].lead].state = "SCORED"
    BY <1>1, <1>3, <2>1, <2>2 DEF RequestFits
  <2>4. op = "score_all" => \A x \in req[u].leads : lead'[x].state = "NEW"
    <3>1. req[u].leads \subseteq Ids
      BY DEF Typed, Requests
    <3> QED BY <1>1, <1>3, <2>1, <3>1 DEF RequestFits
  <2>5. op \in {"generate", "write"} =>
          \/ lead'[req[u].lead].state = req[u].state /\ req[u].state \in {"SCORED", "OUTREACH_PENDING"}
          \/ lead'[req[u].lead].state = "UNSUBSCRIBED" /\ req[u].state \in {"OUTREACH_PENDING", "UNSUBSCRIBED"}
    <3>1. CASE req[u].lead = l
      BY <1>1, <1>3, <2>1, <3>1 DEF RequestFits
    <3>2. CASE req[u].lead # l
      BY <1>3, <2>1, <2>2, <3>2 DEF RequestFits
    <3> QED BY <3>1, <3>2
  <2>6. StillDrafts(u) => StillDrafts(u)'
    <3>1. req[u].rows \subseteq Rows
      BY DEF Typed, Requests
    <3> QED BY <1>7, <1>11, <2>1, <3>1 DEF StillDrafts
  <2>7. op \in {"write", "activate"} => StillDrafts(u)'
    BY <2>1, <2>6 DEF RequestFits
  <2>12. op = "generate" => \A r \in RowsOf(req[u].lead)' : row'[r].status \in {"DRAFT", "SKIPPED"} /\ r \notin InCycle'
    <3>1. \A x \in Ids : x = req[u].lead => RowsOf(req[u].lead)' = RowsOf(x)
      BY <1>9, <2>1 DEF RowsOf
    <3>2. op = "generate" => \A r \in RowsOf(req[u].lead)' :
                               r \in Rows /\ row[r].status \in {"DRAFT", "SKIPPED"} /\ r \notin InCycle
      BY <2>1, <2>2, <3>1 DEF RequestFits, RowsOf
    <3> QED BY <1>7, <1>11, <3>2
  <2>8. \A x \in Ids : x = req[u].lead => RowsOf(req[u].lead)' = RowsOf(x) /\ (Whole(x) => Whole(req[u].lead)')
    BY <1>9, <2>1 DEF RowsOf, Whole
  <2>9. op = "write" => (lead'[req[u].lead].state \in {"SCORED", "OUTREACH_PENDING"} => req[u].rows = RowsOf(req[u].lead)')
    <3>1. CASE req[u].lead = l
      BY <1>3, <3>1
    <3>2. CASE req[u].lead # l
      BY <1>3, <2>1, <2>2, <2>8, <3>2 DEF RequestFits
    <3> QED BY <3>1, <3>2
  <2>10. op = "activate" => /\ req[u].rows = RowsOf(req[u].lead)' /\ Whole(req[u].lead)'
                            /\ lead'[req[u].lead].state \in {"OUTREACH_PENDING", "UNSUBSCRIBED"}
    BY <1>3, <2>1, <2>2, <2>8 DEF RequestFits
  <2>11. op = "erase" => /\ req[u].addrs = {lead'[req[u].lead].addr}
                         /\ \A r \in req[u].rows : row'[r].lead = req[u].lead
    <3>1. req[u].rows \subseteq Rows
      BY DEF Typed, Requests
    <3> QED BY <1>4, <1>7, <2>1, <2>2, <3>1 DEF RequestFits
  <2> QED BY <2>1, <2>2, <2>3, <2>4, <2>5, <2>7, <2>9, <2>10, <2>11, <2>12 DEF RequestFits
<1>14. ASSUME NEW r \in Rows, Marked(r), ~Marked(r)'
       PROVE  row[r].lead = l /\ row[r].status = "SENT" /\ row'[r].status = "SKIPPED" /\ Dormant(l)'
  <2>1. row[r].lead = l /\ row[r].status = "SENT" /\ row'[r].status = "SKIPPED"
    BY <1>1, <1>7, <1>14 DEF Marked
  <2>2. ASSUME NEW u \in Threads, req[u].op = "activate", req[u].lead = l PROVE FALSE
    <3>1. req[u].rows = RowsOf(l) /\ \A x \in req[u].rows : row[x].status \in {"DRAFT", "SKIPPED"}
      BY <2>2 DEF DeskInv, RequestFits, StillDrafts
    <3>2. r \in RowsOf(l)
      BY <2>1 DEF RowsOf
    <3> QED BY <2>1, <3>1, <3>2
  <2> QED BY <1>1, <1>3, <2>1, <2>2 DEF Dormant
<1>15. \A r \in Rows : Marked(r) =>
         /\ row'[r].lead = row[r].lead /\ row'[r].step = row[r].step
         /\ Marked(r)' \/ (row'[r].status = "SKIPPED" /\ \E x \in Ids : x = row[r].lead /\ Dormant(x)')
  BY <1>7, <1>14
<1>16. \A x \in Ids : Dormant(x) => Dormant(x)'
  BY <1>1, <1>3 DEF Dormant
<1>17. opt' \in OptOuts /\ OptFits'
  BY <1>1 DEF OptFits, OptOuts, NoOpt
<1> QED BY <1>1, <1>2, <1>3, <1>4, <1>5, <1>8, <1>10, <1>12, <1>13, <1>15, <1>16, <1>17 DEF DeskInv, Restated

-----------------------------------------------------------------------------
(* The cycle runs                                                            *)

CyclePicks == CycleBegin \/ \E r \in Rows : CycleSends(r) \/ CycleSkips(r)

LEMMA PicksFit ==
  ASSUME Typed, DeskInv, CyclePicks
  PROVE  /\ UNCHANGED <<lead, row, suppressed, req, opt, forgiven, collisions>>
         /\ due' \subseteq Rows /\ sent' \subseteq Rows /\ skip' \subseteq Rows
         /\ sent \subseteq sent'
         /\ DeskInv'
<1>1. UNCHANGED <<lead, row, suppressed, req, opt, forgiven, collisions>>
  BY DEF CyclePicks, CycleBegin, CycleSends, CycleSkips
<1>2. /\ due' \subseteq Rows /\ sent' \subseteq Rows /\ skip' \subseteq Rows /\ sent \subseteq sent'
      /\ due' \intersect sent' = {}
      /\ \A r \in InCycle' : r \in InCycle \/ (r \in Rows /\ row[r].status = "APPROVED")
  <2>1. CASE CycleBegin
    BY <2>1 DEF CycleBegin, Typed, InCycle
  <2>2. ASSUME NEW r \in Rows, CycleSends(r) \/ CycleSkips(r)
        PROVE  /\ due' \subseteq Rows /\ sent' \subseteq Rows /\ skip' \subseteq Rows /\ sent \subseteq sent'
               /\ due' \intersect sent' = {} /\ InCycle' \subseteq InCycle
    BY <2>2 DEF CycleSends, CycleSkips, Typed, InCycle, DeskInv, CycleFits
  <2> QED BY <2>1, <2>2 DEF CyclePicks
<1>3. KeysHold'
  BY <1>1 DEF DeskInv, KeysHold, There
<1>4. \A l \in Ids : RowsOf(l)' = RowsOf(l) /\ (Whole(l) => Whole(l)')
  BY <1>1, SameRows
<1>5. SequencesFit'
  BY <1>1, <1>4 DEF DeskInv, SequencesFit
<1>6. CycleFits'
  <2>1. ASSUME NEW r \in Rows, row[r].status = "APPROVED"
        PROVE  OnSequence(lead[row[r].lead].state)
    BY <2>1 DEF DeskInv, SequencesFit
  <2> QED BY <1>1, <1>2, <2>1 DEF DeskInv, CycleFits, OnSequence
<1>8. OptFits'
  BY <1>1, OptKept DEF DeskInv, Typed
<1>7. ASSUME NEW u \in Threads PROVE RequestFits(u)'
  <2>1. RequestFits(u)
    BY DEF DeskInv
  <2>6. req[u].op = "generate" =>
          \A r \in RowsOf(req[u].lead)' : row'[r].status \in {"DRAFT", "SKIPPED"} /\ r \notin InCycle'
    <3>1. RowsOf(req[u].lead)' = RowsOf(req[u].lead)
      BY <1>1 DEF RowsOf
    <3> QED BY <1>1, <1>2, <2>1, <3>1 DEF RequestFits
  <2>2. req[u].rows \subseteq Rows /\ req[u].lead \in Ids \union {None}
    BY DEF Typed, Requests
  <2>3. StillDrafts(u) => StillDrafts(u)'
    BY <1>1, <1>2, <2>2 DEF StillDrafts
  <2>4. There(req[u].lead) => There(req[u].lead)'
    BY <1>1 DEF There
  <2>5. RowsOf(req[u].lead)' = RowsOf(req[u].lead) /\ (Whole(req[u].lead) => Whole(req[u].lead)')
    BY <1>1 DEF RowsOf, Whole
  <2> QED BY <1>1, <2>1, <2>3, <2>4, <2>5, <2>6 DEF RequestFits
<1> QED BY <1>1, <1>2, <1>3, <1>5, <1>6, <1>7, <1>8 DEF DeskInv

LEMMA CommitFits ==
  ASSUME Typed, DeskInv, CycleCommit
  PROVE  /\ UNCHANGED <<lead, suppressed, req, opt, due, mailed, forgiven>>
         /\ row' \in [Rows -> Messages] /\ sent' = {} /\ skip' = {}
         /\ \A r \in Rows : /\ row'[r].lead = row[r].lead /\ row'[r].step = row[r].step
                            /\ row[r].status = "SENT" => row'[r].status = "SENT"
         /\ \/ collisions' = collisions + 1
            \/ collisions' = collisions /\ \A r \in Rows : Marked(r) => Marked(r)'
         /\ DeskInv'
<1>1. UNCHANGED <<lead, suppressed, req, opt, due, mailed, forgiven>> /\ sent' = {} /\ skip' = {} /\ due' = {}
  BY DEF CycleCommit
<1>2. /\ row' \in [Rows -> Messages]
      /\ \A r \in Rows :
           /\ row'[r].lead = row[r].lead /\ row'[r].step = row[r].step
           /\ row'[r].status = row[r].status \/ (/\ r \in InCycle /\ row[r].status \in {"APPROVED", "SKIPPED"}
                                                 /\ row'[r].status \in {"SENT", "SKIPPED"})
      /\ \/ collisions' = collisions + 1
         \/ collisions' = collisions /\ \A r \in Rows : Marked(r) => Marked(r)'
  <2>1. CASE \E r \in sent \union skip : row[r].status = "deleted"
    BY <2>1 DEF CycleCommit, Typed
  <2>2. CASE ~\E r \in sent \union skip : row[r].status = "deleted"
    <3>1. /\ Restated /\ collisions' = collisions
          /\ \A r \in Rows : row'[r].status = IF r \in sent THEN "SENT"
                                              ELSE IF r \in skip THEN "SKIPPED" ELSE row[r].status
      BY <2>2, CycleMarks
    <3>2. \A r \in sent \union skip : r \in InCycle /\ row[r].status \in {"APPROVED", "SKIPPED"}
      BY <2>2 DEF InCycle, DeskInv, CycleFits
    <3>3. \A r \in Rows : Marked(r) => row'[r].status = "SENT"
      <4> SUFFICES ASSUME NEW r \in Rows, Marked(r) PROVE row'[r].status = "SENT"
        OBVIOUS
      <4>1. CASE r \in sent
        BY <3>1, <4>1
      <4>2. CASE r \notin sent
        BY <3>1, <3>2, <4>2 DEF Marked
      <4> QED BY <4>1, <4>2
    <3> QED BY <3>1, <3>2, <3>3 DEF Restated, Marked
  <2> QED BY <2>1, <2>2
<1>3. \A r \in Rows : row[r].status # "absent" => row[r].lead \in Ids /\ row[r].step \in Steps
  BY DEF DeskInv, KeysHold
<1>4. KeysHold'
  <2>1. \A r \in Rows : IF row'[r].status = "absent" THEN row'[r].lead = None
                        ELSE row'[r].lead \in Ids /\ row'[r].step \in Steps
    BY <1>2, <1>3 DEF DeskInv, KeysHold
  <2>2. \A r \in Rows : row'[r].status \notin {"absent", "deleted"} => There(row[r].lead)
    BY <1>2 DEF DeskInv, KeysHold
  <2>3. \A r \in Rows : row'[r].status \notin {"absent", "deleted"} => There(row[r].lead)'
    BY <1>1, <1>2, <2>2 DEF There
  <2> QED BY <1>1, <2>1, <2>3 DEF DeskInv, KeysHold, There
<1>5. \A l \in Ids : RowsOf(l)' = RowsOf(l) /\ (Whole(l) => Whole(l)')
  <2>1. \A r \in Rows : row'[r].status = "deleted" <=> row[r].status = "deleted"
    BY <1>2
  <2> QED BY <1>2, <2>1, SameSequences DEF Restated
<1>6. \A r \in Rows : row'[r].status # row[r].status =>
        lead[row[r].lead].state \in {"SEQUENCE_ACTIVE", "UNSUBSCRIBED", "gone"}
  BY <1>2 DEF DeskInv, CycleFits
<1>7. SequencesFit'
  <2>1. ASSUME NEW x \in Ids
        PROVE  /\ lead'[x].state \in {"NEW", "SCORED"} => RowsOf(x)' = {}
               /\ lead'[x].state = "OUTREACH_PENDING" => /\ \A r \in RowsOf(x)' : row'[r].status = "DRAFT"
                                                         /\ RowsOf(x)' = {} \/ Whole(x)'
               /\ lead'[x].state = "SEQUENCE_ACTIVE" => Whole(x)'
    <3>1. lead[x].state = "OUTREACH_PENDING" => \A r \in RowsOf(x) : row'[r].status = row[r].status
      BY <1>6 DEF RowsOf
    <3> QED BY <1>1, <1>5, <3>1 DEF DeskInv, SequencesFit
  <2>2. \A r \in Rows : row'[r].status = "APPROVED" => OnSequence(lead'[row'[r].lead].state)
    BY <1>1, <1>2 DEF DeskInv, SequencesFit
  <2> QED BY <2>1, <2>2 DEF SequencesFit
<1>8. CycleFits'
  BY <1>1 DEF CycleFits, InCycle
<1>9. ASSUME NEW u \in Threads PROVE RequestFits(u)'
  <2>1. RequestFits(u) /\ req' = req
    BY <1>1 DEF DeskInv
  <2>2. req[u].rows \subseteq Rows /\ req[u].lead \in Ids \union {None}
    BY DEF Typed, Requests
  <2>3. StillDrafts(u) => StillDrafts(u)'
    <3> SUFFICES ASSUME StillDrafts(u) PROVE StillDrafts(u)'
      OBVIOUS
    <3>1. \A r \in req[u].rows : row'[r].status = row[r].status /\ row'[r].lead = row[r].lead
      BY <1>2, <2>2 DEF StillDrafts
    <3> QED BY <1>1, <2>1, <3>1 DEF StillDrafts, InCycle
  <2>4. There(req[u].lead) => There(req[u].lead)'
    BY <1>1 DEF There
  <2>5. \A x \in Ids : x = req[u].lead => RowsOf(req[u].lead)' = RowsOf(x) /\ (Whole(x) => Whole(req[u].lead)')
    BY <1>5, <2>1 DEF RowsOf, Whole
  <2>6. req[u].lead \in Ids => RowsOf(req[u].lead)' = RowsOf(req[u].lead) /\ (Whole(req[u].lead) => Whole(req[u].lead)')
    BY <2>5
  <2>7. \A r \in req[u].rows : row'[r].lead = row[r].lead
    BY <1>2, <2>2
  <2>8. req[u].op = "generate" =>
          \A r \in RowsOf(req[u].lead)' : row'[r].status \in {"DRAFT", "SKIPPED"} /\ r \notin InCycle'
    <3>1. req[u].op = "generate" => \A r \in RowsOf(req[u].lead)' :
                                      r \in Rows /\ row[r].status \in {"DRAFT", "SKIPPED"} /\ r \notin InCycle
      BY <2>1, <2>6 DEF RequestFits, RowsOf
    <3>2. InCycle' = {}
      BY <1>1 DEF InCycle
    <3> QED BY <1>2, <3>1, <3>2
  <2> QED BY <1>1, <2>1, <2>3, <2>4, <2>6, <2>7, <2>8 DEF RequestFits
<1>10. OptFits'
  BY <1>1, <1>2, OptKept DEF DeskInv, Typed
<1> QED BY <1>1, <1>2, <1>4, <1>7, <1>8, <1>9, <1>10 DEF DeskInv

-----------------------------------------------------------------------------
(* Every step                                                                *)

SentKept == \A r \in Rows : row[r].status = "SENT" =>
              \/ row'[r].status = "SENT"
              \/ row'[r].status = "SKIPPED" /\ lead'[row[r].lead].state = "UNSUBSCRIBED"
              \/ lead'[row[r].lead].state = "gone"

(* What a step keeps.                                                        *)
Keeps == Typed' /\ DeskInv' /\ (OnceInv => OnceInv') /\ SentKept

(* A row that is on record has a lead.                                       *)
LEMMA MarkedHasLead ==
  ASSUME Typed, DeskInv, NEW r \in Rows, Marked(r)
  PROVE  row[r].lead \in Ids /\ (row[r].status = "SENT" => r \notin InCycle)
BY DEF Marked, DeskInv, KeysHold, CycleFits, InCycle

LEMMA OnceKept ==
  ASSUME Typed, Typed', OnceInv, mailed' = mailed,
         \A a \in Addresses : forgiven'[a] >= forgiven[a], collisions' >= collisions,
         \A a \in Addresses, s \in Steps :
           Blocked(a, s) => Blocked(a, s)' \/ forgiven'[a] = forgiven[a] + 1 \/ collisions' = collisions + 1
  PROVE  OnceInv'
<1> SUFFICES ASSUME NEW a \in Addresses, NEW s \in Steps
             PROVE  mailed'[a][s] + Pending(a, s)' <= 1 + forgiven'[a] + collisions'
  BY DEF OnceInv
<1>1. /\ mailed[a][s] \in Nat /\ forgiven[a] \in Nat /\ forgiven'[a] \in Nat
      /\ collisions \in Nat /\ collisions' \in Nat
  BY DEF Typed
<1>2. mailed[a][s] + Pending(a, s) <= 1 + forgiven[a] + collisions /\ mailed'[a][s] = mailed[a][s]
  BY DEF OnceInv
<1>3. Pending(a, s) \in {0, 1} /\ Pending(a, s)' \in {0, 1}
  BY DEF Pending
<1>4. forgiven'[a] >= forgiven[a] /\ collisions' >= collisions
  OBVIOUS
<1>5. CASE Pending(a, s)' = 0
  BY <1>1, <1>2, <1>3, <1>4, <1>5
<1>6. CASE Pending(a, s)' = 1 /\ Pending(a, s) = 1
  BY <1>1, <1>2, <1>4, <1>6
<1>7. CASE Pending(a, s)' = 1 /\ Pending(a, s) = 0
  <2>1. Blocked(a, s) /\ ~Blocked(a, s)'
    BY <1>7 DEF Pending
  <2>2. forgiven'[a] = forgiven[a] + 1 \/ collisions' = collisions + 1
    BY <2>1
  <2> QED BY <1>1, <1>2, <1>4, <1>7, <2>2
<1> QED BY <1>3, <1>5, <1>6, <1>7

(* An address stays blocked by a row on record whose lead is left alone.     *)
LEMMA StaysBlocked ==
  ASSUME NEW a \in Addresses, NEW s \in Steps, Blocked(a, s),
         a \in suppressed => a \in suppressed',
         \A r \in Rows : Marked(r) /\ There(row[r].lead) /\ lead[row[r].lead].addr = a =>
           \/ /\ Marked(r)' /\ row'[r].lead = row[r].lead /\ row'[r].step = row[r].step
              /\ There(row[r].lead)' /\ lead'[row[r].lead].addr = a
           \/ \E l \in Ids : Dormant(l)' /\ lead'[l].addr = a,
         \A l \in Ids : Dormant(l) /\ lead[l].addr = a => Dormant(l)' /\ lead'[l].addr = a
  PROVE  Blocked(a, s)'
<1>1. CASE a \in suppressed
  BY <1>1 DEF Blocked
<1>2. CASE \E l \in Ids : Dormant(l)' /\ lead'[l].addr = a
  BY <1>2 DEF Blocked
<1>3. CASE a \notin suppressed /\ ~\E l \in Ids : Dormant(l)' /\ lead'[l].addr = a
  <2>1. PICK r \in Rows : /\ Marked(r) /\ row[r].step = s
                          /\ There(row[r].lead) /\ lead[row[r].lead].addr = a
    BY <1>3 DEF Blocked
  <2>2. /\ Marked(r)' /\ row'[r].lead = row[r].lead /\ row'[r].step = s
        /\ There(row[r].lead)' /\ lead'[row[r].lead].addr = a
    BY <1>3, <2>1
  <2>3. lead'[row'[r].lead].addr = a
    BY <2>2
  <2> QED BY <2>2, <2>3 DEF Blocked
<1> QED BY <1>1, <1>2, <1>3

(* An unsubscribed lead stays so, as long as it does and nobody activates it.*)
LEMMA StaysDormant ==
  ASSUME \A l \in Ids : lead[l].state = "UNSUBSCRIBED" => lead'[l].state = "UNSUBSCRIBED",
         req' = req \/ NoActivation'
  PROVE  \A l \in Ids : Dormant(l) => Dormant(l)'
BY DEF Dormant, NoActivation

(* The same, where leads and rows on record keep their place.                *)
LEMMA NothingFreed ==
  ASSUME Typed, DeskInv, Typed', suppressed \subseteq suppressed', UNCHANGED <<mailed, forgiven, collisions>>,
         \A r \in Rows : Marked(r) => /\ row'[r].lead = row[r].lead /\ row'[r].step = row[r].step
                                      /\ Marked(r)' \/ \E l \in Ids : l = row[r].lead /\ Dormant(l)',
         \A l \in Ids : There(l) => There(l)' /\ lead'[l].addr = lead[l].addr,
         \A l \in Ids : Dormant(l) => Dormant(l)'
  PROVE  OnceInv => OnceInv'
<1> SUFFICES ASSUME OnceInv PROVE OnceInv'
  OBVIOUS
<1>1. ASSUME NEW a \in Addresses, NEW s \in Steps, Blocked(a, s) PROVE Blocked(a, s)'
  <2>1. ASSUME NEW r \in Rows, Marked(r), There(row[r].lead), lead[row[r].lead].addr = a
        PROVE  \/ /\ Marked(r)' /\ row'[r].lead = row[r].lead /\ row'[r].step = row[r].step
                  /\ There(row[r].lead)' /\ lead'[row[r].lead].addr = a
               \/ \E l \in Ids : Dormant(l)' /\ lead'[l].addr = a
    <3>1. row[r].lead \in Ids
      BY <2>1, MarkedHasLead
    <3>2. PICK l \in Ids : l = row[r].lead
      BY <3>1
    <3>3. There(l)' /\ lead'[l].addr = a
      BY <2>1, <3>2
    <3>4. row'[r].lead = row[r].lead /\ row'[r].step = row[r].step /\ (Marked(r)' \/ Dormant(l)')
      BY <2>1, <3>2
    <3>5. There(row[r].lead)' /\ lead'[row[r].lead].addr = a
      BY <3>2, <3>3, <3>4 DEF There
    <3> QED BY <3>3, <3>4, <3>5
  <2>2. \A l \in Ids : Dormant(l) /\ lead[l].addr = a => Dormant(l)' /\ lead'[l].addr = a
    BY DEF Dormant, There
  <2> QED BY <1>1, <2>1, <2>2, StaysBlocked
<1>2. \A a \in Addresses : forgiven'[a] >= forgiven[a]
  BY DEF Typed
<1>3. collisions' >= collisions
  BY DEF Typed
<1> QED BY <1>1, <1>2, <1>3, OnceKept

LEMMA ReadKeeps ==
  ASSUME OneRequest, Typed, DeskInv, OnlyReads, NEW t \in Threads,
         req' \in [Threads -> Requests], RequestFits(t)', Calls(t)
  PROVE  Keeps
<1>1. Typed' /\ DeskInv'
  BY ReadTyped, ReadFits
<1>2. UNCHANGED <<lead, row, suppressed, sent, mailed, forgiven, collisions>>
  BY DEF OnlyReads, cycle
<1>5. \A l \in Ids : Dormant(l) => Dormant(l)'
  BY <1>2 DEF Dormant, Calls, OneRequest
<1>3. OnceInv => OnceInv'
  BY <1>1, <1>2, <1>5, NothingFreed DEF Marked, There
<1>4. SentKept
  BY <1>2 DEF SentKept
<1> QED BY <1>1, <1>3, <1>4 DEF Keeps

LEMMA AnswerKeeps ==
  ASSUME OneRequest, Typed, DeskInv, NEW t \in Threads, OnlyReads, Answer(t)
  PROVE  Keeps
<1>1. req' \in [Threads -> Requests] /\ RequestFits(t)' /\ Calls(t)
  BY Answered, AnsweredFits DEF Calls, NoActivation
<1> QED BY <1>1, ReadKeeps

LEMMA EnterKeeps ==
  ASSUME Typed, DeskInv, LeadsEnter, RowsRest, UNCHANGED <<suppressed, forgiven>>,
         req' \in [Threads -> Requests], \A u \in Threads : RequestFits(u)', NoActivation'
  PROVE  Keeps
<1>1. /\ \A l \in Ids : There(l)' => lead'[l].addr \in Addresses
      /\ KeysHold' /\ SequencesFit' /\ CycleFits' /\ OptFits'
  BY EnterFits DEF DeskInv
<1>2. Typed'
  BY <1>1 DEF Typed, LeadsEnter, RowsRest
<1>3. DeskInv'
  BY <1>1 DEF DeskInv
<1>4. \A l \in Ids : There(l) => There(l)' /\ lead'[l].addr = lead[l].addr
  BY DEF LeadsEnter, There
<1>7. \A l \in Ids : Dormant(l) => Dormant(l)'
  BY StaysDormant DEF LeadsEnter
<1>5. OnceInv => OnceInv'
  BY <1>2, <1>4, <1>7, NothingFreed DEF RowsRest, Marked
<1>6. SentKept
  BY DEF SentKept, RowsRest
<1> QED BY <1>2, <1>3, <1>5, <1>6 DEF Keeps

LEMMA EnrichKeeps ==
  ASSUME Typed, DeskInv, RowsRest, suppressed' = suppressed, NEW l \in Ids, NEW a \in Addresses, Enriched(l, a),
         Free({lead[l].addr}), req' \in [Threads -> Requests], \A u \in Threads : RequestFits(u)', NoActivation'
  PROVE  Keeps
<1>1. /\ \A m \in Ids : There(m)' => lead'[m].addr \in Addresses
      /\ KeysHold' /\ SequencesFit' /\ CycleFits' /\ OptFits'
  BY EnrichedFits DEF DeskInv
<1>2. /\ forgiven' \in [Addresses -> Nat]
      /\ \A b \in Addresses : forgiven'[b] = IF b \in {lead[l].addr} THEN forgiven[b] + 1 ELSE forgiven[b]
  BY FreeCounts
<1>3. Typed'
  BY <1>1, <1>2 DEF Typed, Enriched, RowsRest
<1>4. DeskInv'
  BY <1>1 DEF DeskInv
<1>5. SentKept
  BY DEF SentKept, RowsRest
<1>6. ASSUME OnceInv PROVE OnceInv'
  <2>1. ASSUME NEW b \in Addresses, NEW s \in Steps, Blocked(b, s)
        PROVE  Blocked(b, s)' \/ forgiven'[b] = forgiven[b] + 1
    <3>1. CASE b = lead[l].addr
      BY <1>2, <3>1
    <3>2. CASE b # lead[l].addr
      <4>1. ASSUME NEW r \in Rows, Marked(r), There(row[r].lead), lead[row[r].lead].addr = b
            PROVE  /\ Marked(r)' /\ row'[r].lead = row[r].lead /\ row'[r].step = row[r].step
                   /\ There(row[r].lead)' /\ lead'[row[r].lead].addr = b
        <5>1. row[r].lead \in Ids /\ row[r].lead # l
          BY <3>2, <4>1, MarkedHasLead
        <5>2. lead'[row[r].lead] = lead[row[r].lead] /\ row' = row /\ sent' = sent
          BY <5>1 DEF Enriched, RowsRest
        <5> QED BY <4>1, <5>2 DEF Marked, There
      <4>2. \A m \in Ids : Dormant(m) => Dormant(m)'
        BY StaysDormant DEF Enriched
      <4>3. \A m \in Ids : Dormant(m) /\ lead[m].addr = b => Dormant(m)' /\ lead'[m].addr = b
        BY <3>2, <4>2 DEF Enriched
      <4>4. b \in suppressed => b \in suppressed'
        OBVIOUS
      <4> QED BY <2>1, <4>1, <4>3, <4>4, StaysBlocked
    <3> QED BY <3>1, <3>2
  <2>2. \A b \in Addresses : forgiven'[b] >= forgiven[b]
    BY <1>2 DEF Typed
  <2>3. mailed' = mailed /\ collisions' >= collisions
    BY DEF RowsRest, Typed
  <2> QED BY <1>3, <1>6, <2>1, <2>2, <2>3, OnceKept
<1> QED BY <1>3, <1>4, <1>5, <1>6 DEF Keeps

LEMMA AdvanceKeeps ==
  ASSUME Typed, DeskInv, RowsRest, UNCHANGED <<suppressed, forgiven>>, NEW l \in Ids, NEW s, Advances(l, s),
         req' \in [Threads -> Requests], \A u \in Threads : RequestFits(u)', NoActivation'
  PROVE  Keeps
<1>1. /\ lead' \in [Ids -> Leads]
      /\ \A m \in Ids : There(m)' => lead'[m].addr \in Addresses
      /\ KeysHold' /\ SequencesFit' /\ CycleFits' /\ OptFits'
  BY AdvanceFits DEF DeskInv
<1>2. Typed'
  BY <1>1 DEF Typed, RowsRest
<1>3. DeskInv'
  BY <1>1 DEF DeskInv
<1>4. \A m \in Ids : There(m) => There(m)' /\ lead'[m].addr = lead[m].addr
  <2>1. s \in LeadStates /\ s # "absent" /\ s # "gone" /\ There(l)
    BY DEF Advances, LeadStates, There
  <2>2. lead'[l].state = s /\ lead'[l].addr = lead[l].addr /\ \A m \in Ids : m # l => lead'[m] = lead[m]
    BY <2>1, MovesLead DEF Advances
  <2> QED BY <2>1, <2>2 DEF There
<1>7. \A m \in Ids : Dormant(m) => Dormant(m)'
  <2>1. \A m \in Ids : lead[m].state = "UNSUBSCRIBED" => lead'[m] = lead[m]
    BY DEF Advances, Typed
  <2> QED BY <2>1, StaysDormant
<1>5. OnceInv => OnceInv'
  BY <1>2, <1>4, <1>7, NothingFreed DEF RowsRest, Marked
<1>6. SentKept
  BY DEF SentKept, RowsRest
<1> QED BY <1>2, <1>3, <1>5, <1>6 DEF Keeps

(* Rewriting, activation and opt-out leave what is on record, or a lead that *)
(* has unsubscribed.                                                         *)
LEMMA RowsKeep ==
  ASSUME Typed, DeskInv, DeskInv', UNCHANGED <<due, sent, skip, mailed, forgiven, collisions>>,
         opt' \in OptOuts, suppressed \subseteq suppressed', suppressed' \subseteq Addresses,
         req' \in [Threads -> Requests],
         lead' \in [Ids -> Leads], row' \in [Rows -> Messages],
         \A x \in Ids : There(x)' => lead'[x].addr \in Addresses,
         \A r \in Rows : Marked(r) =>
           /\ row'[r].lead = row[r].lead /\ row'[r].step = row[r].step
           /\ Marked(r)' \/ (row'[r].status = "SKIPPED" /\ \E l \in Ids : l = row[r].lead /\ Dormant(l)'),
         \A x \in Ids : lead'[x].addr = lead[x].addr /\ (There(x)' <=> There(x)) /\ (Dormant(x) => Dormant(x)')
  PROVE  Keeps
<1>1. Typed'
  BY DEF Typed
<1>2. OnceInv => OnceInv'
  BY <1>1, NothingFreed
<1>3. SentKept
  <2> SUFFICES ASSUME NEW r \in Rows, row[r].status = "SENT"
               PROVE  \/ row'[r].status = "SENT"
                      \/ row'[r].status = "SKIPPED" /\ lead'[row[r].lead].state = "UNSUBSCRIBED"
    BY DEF SentKept
  <2>1. Marked(r) /\ r \notin sent
    BY MarkedHasLead DEF Marked, InCycle
  <2>2. CASE Marked(r)'
    BY <2>1, <2>2 DEF Marked
  <2>3. CASE ~Marked(r)'
    BY <2>1, <2>3 DEF Dormant
  <2> QED BY <2>2, <2>3
<1> QED BY <1>1, <1>2, <1>3 DEF Keeps

LEMMA EraseKeeps ==
  ASSUME Typed, DeskInv, CycleRest, NEW l \in Ids, Erased(l), Free({lead[l].addr} \ suppressed'),
         suppressed \subseteq suppressed', suppressed' \subseteq Addresses,
         req' \in [Threads -> Requests], \A u \in Threads : RequestFits(u)', NoActivation'
  PROVE  Keeps
<1>1. /\ \A x \in Ids : There(x)' => lead'[x].addr \in Addresses
      /\ KeysHold' /\ SequencesFit' /\ CycleFits' /\ OptFits'
  BY ErasedFits DEF DeskInv
<1>2. /\ forgiven' \in [Addresses -> Nat]
      /\ \A b \in Addresses :
           forgiven'[b] = IF b \in {lead[l].addr} \ suppressed' THEN forgiven[b] + 1 ELSE forgiven[b]
  BY FreeCounts
<1>3. Typed'
  BY <1>1, <1>2 DEF Typed, Erased, Restated, CycleRest
<1>4. DeskInv'
  BY <1>1 DEF DeskInv
<1>5. SentKept
  <2> SUFFICES ASSUME NEW r \in Rows, row[r].status = "SENT"
               PROVE  row'[r].status = "SENT" \/ lead'[row[r].lead].state = "gone"
    BY DEF SentKept
  <2> QED BY DEF Erased
<1>6. ASSUME OnceInv PROVE OnceInv'
  <2>1. ASSUME NEW b \in Addresses, NEW s \in Steps, Blocked(b, s)
        PROVE  Blocked(b, s)' \/ forgiven'[b] = forgiven[b] + 1
    <3>1. CASE b \in suppressed'
      BY <3>1 DEF Blocked
    <3>2. CASE b = lead[l].addr /\ b \notin suppressed'
      BY <1>2, <3>2
    <3>3. CASE b # lead[l].addr
      <4>1. ASSUME NEW r \in Rows, Marked(r), There(row[r].lead), lead[row[r].lead].addr = b
            PROVE  /\ Marked(r)' /\ row'[r].lead = row[r].lead /\ row'[r].step = row[r].step
                   /\ There(row[r].lead)' /\ lead'[row[r].lead].addr = b
        <5>1. row[r].lead \in Ids /\ row[r].lead # l
          BY <3>3, <4>1, MarkedHasLead
        <5>2. /\ lead'[row[r].lead] = lead[row[r].lead] /\ sent' = sent
              /\ row'[r].lead = row[r].lead /\ row'[r].step = row[r].step /\ row'[r].status = row[r].status
          BY <5>1 DEF Erased, Restated, CycleRest
        <5> QED BY <4>1, <5>2 DEF Marked, There
      <4>2. \A m \in Ids : Dormant(m) /\ lead[m].addr = b => Dormant(m)' /\ lead'[m].addr = b
        BY <3>3 DEF Erased, Dormant, NoActivation
      <4>3. b \in suppressed => b \in suppressed'
        OBVIOUS
      <4> QED BY <2>1, <4>1, <4>2, <4>3, StaysBlocked
    <3> QED BY <3>1, <3>2, <3>3
  <2>2. \A b \in Addresses : forgiven'[b] >= forgiven[b]
    BY <1>2 DEF Typed
  <2>3. mailed' = mailed /\ collisions' >= collisions
    BY DEF CycleRest, Typed
  <2> QED BY <1>3, <1>6, <2>1, <2>2, <2>3, OnceKept
<1> QED BY <1>3, <1>4, <1>5, <1>6 DEF Keeps

LEMMA SameInv ==
  ASSUME DeskInv, UNCHANGED <<lead, row, req, opt, due, sent, skip>>
  PROVE  DeskInv'
BY DEF DeskInv, KeysHold, SequencesFit, CycleFits, OptFits, InCycle, RequestFits, StillDrafts, Whole, RowsOf, There

LEMMA RemoveKeeps ==
  ASSUME Typed, DeskInv, NEW a \in Addresses, RemoveSuppression(a)
  PROVE  Keeps
<1>1. /\ UNCHANGED <<lead, row, req, opt, due, sent, skip, mailed, collisions>>
      /\ suppressed' = suppressed \ Spellings(a)
  BY DEF RemoveSuppression, cycle
<1>2. /\ forgiven' \in [Addresses -> Nat]
      /\ \A b \in Addresses : forgiven'[b] = IF b \in Spellings(a) THEN forgiven[b] + 1 ELSE forgiven[b]
  BY FreeCounts DEF RemoveSuppression
<1>3. Typed'
  BY <1>1, <1>2 DEF Typed, There
<1>4. DeskInv'
  BY <1>1, SameInv
<1>5. ASSUME OnceInv PROVE OnceInv'
  <2>1. ASSUME NEW b \in Addresses, NEW s \in Steps, Blocked(b, s)
        PROVE  Blocked(b, s)' \/ forgiven'[b] = forgiven[b] + 1
    <3>1. CASE b \in Spellings(a)
      BY <1>2, <3>1
    <3>2. CASE b \notin Spellings(a)
      BY <1>1, <2>1, <3>2, StaysBlocked DEF Marked, There, Dormant
    <3> QED BY <3>1, <3>2
  <2>2. \A b \in Addresses : forgiven'[b] >= forgiven[b]
    BY <1>2 DEF Typed
  <2>3. mailed' = mailed /\ collisions' >= collisions
    BY <1>1 DEF Typed
  <2> QED BY <1>3, <1>5, <2>1, <2>2, <2>3, OnceKept
<1>6. SentKept
  BY <1>1 DEF SentKept
<1> QED BY <1>3, <1>4, <1>5, <1>6 DEF Keeps

(* A row the cycle has taken up, of a lead on autopilot, is the only one on  *)
(* its step, and not on record: nothing blocks it but the list.              *)
LEMMA DueIsFree ==
  ASSUME Typed, DeskInv, NEW r \in due, Mailable(row[r].lead)
  PROVE  /\ r \in Rows /\ row[r].lead \in Ids /\ row[r].step \in Steps
         /\ There(row[r].lead) /\ lead[row[r].lead].addr \in Addresses
         /\ ~Blocked(lead[row[r].lead].addr, row[r].step)
<1>1. r \in Rows /\ r \in InCycle /\ r \notin sent
  BY DEF Typed, InCycle, DeskInv, CycleFits
<1>2. PICK l \in Ids : l = row[r].lead
  BY <1>1 DEF DeskInv, KeysHold, CycleFits
<1>3. PICK s \in Steps : s = row[r].step
  BY <1>1 DEF DeskInv, KeysHold, CycleFits
<1>4. lead[l].state = "SEQUENCE_ACTIVE" /\ lead[l].addr \notin suppressed /\ There(l) /\ lead[l].addr \in Addresses
  BY <1>2 DEF Mailable, IsSuppressed, There, Typed
<1>5. row[r].status \in {"APPROVED", "SKIPPED"}
  BY <1>1, <1>2, <1>4 DEF DeskInv, CycleFits
<1>6. PICK y \in Rows : {x \in RowsOf(l) : row[x].step = s} = {y}
  BY <1>4 DEF DeskInv, SequencesFit, Whole
<1>7. ASSUME NEW x \in Rows, Marked(x), row[x].step = s, There(row[x].lead), lead[row[x].lead].addr = lead[l].addr
      PROVE  FALSE
  <2>1. row[x].lead = l
    BY <1>4, <1>7, MarkedHasLead DEF DeskInv, KeysHold
  <2>2. row[x].status # "deleted"
    BY <1>4, <1>7, <2>1 DEF Marked, InCycle, DeskInv, CycleFits
  <2>3. x \in RowsOf(l) /\ r \in RowsOf(l)
    BY <1>1, <1>2, <1>5, <2>1, <2>2 DEF RowsOf
  <2>4. x = r
    BY <1>3, <1>6, <1>7, <2>3
  <2> QED BY <1>1, <1>5, <1>7, <2>4 DEF Marked
<1>8. ~Blocked(lead[l].addr, s)
  <2>1. \A x \in Ids : Dormant(x) => lead[x].addr # lead[l].addr
    BY <1>4 DEF Dormant, There, DeskInv, KeysHold
  <2> QED BY <1>4, <1>7, <2>1 DEF Blocked
<1> QED BY <1>1, <1>2, <1>3, <1>4, <1>8

LEMMA MailCounts ==
  ASSUME Typed, NEW b \in Addresses, NEW s \in Steps, mailed' = [mailed EXCEPT ![b][s] = @ + 1]
  PROVE  /\ mailed' \in [Addresses -> [Steps -> Nat]]
         /\ mailed'[b][s] = mailed[b][s] + 1
         /\ \A c \in Addresses, u \in Steps : c # b \/ u # s => mailed'[c][u] = mailed[c][u]
BY DEF Typed

LEMMA SendKeeps ==
  ASSUME Typed, DeskInv, NEW r \in Rows, CycleSends(r)
  PROVE  Keeps
<1>1. /\ UNCHANGED <<lead, row, suppressed, req, opt, forgiven, collisions>>
      /\ due' \subseteq Rows /\ sent' \subseteq Rows /\ skip' \subseteq Rows
      /\ DeskInv'
  BY PicksFit DEF CyclePicks
<1>2. r \in due /\ Mailable(row[r].lead) /\ sent' = sent \union {r}
      /\ mailed' = [mailed EXCEPT ![lead[row[r].lead].addr][row[r].step] = @ + 1]
  BY DEF CycleSends
<1>3. /\ row[r].lead \in Ids /\ row[r].step \in Steps
      /\ There(row[r].lead) /\ lead[row[r].lead].addr \in Addresses
      /\ ~Blocked(lead[row[r].lead].addr, row[r].step)
  BY <1>2, DueIsFree
<1>4. PICK b \in Addresses, s \in Steps : b = lead[row[r].lead].addr /\ s = row[r].step
  BY <1>3
<1>5. /\ mailed' \in [Addresses -> [Steps -> Nat]]
      /\ mailed'[b][s] = mailed[b][s] + 1
      /\ \A c \in Addresses, u \in Steps : c # b \/ u # s => mailed'[c][u] = mailed[c][u]
  <2>1. mailed' = [mailed EXCEPT ![b][s] = @ + 1]
    BY <1>2, <1>4
  <2> QED BY <2>1, MailCounts
<1>6. Typed'
  BY <1>1, <1>5 DEF Typed, There
<1>7. ASSUME NEW c \in Addresses, NEW u \in Steps, Blocked(c, u) PROVE Blocked(c, u)'
  BY <1>1, <1>2, <1>7, StaysBlocked DEF Marked, There, Dormant
<1>8. ~Blocked(b, s) /\ Blocked(b, s)'
  <2>1. Marked(r)' /\ row' = row /\ lead' = lead
    BY <1>1, <1>2 DEF Marked
  <2> QED BY <1>3, <1>4, <2>1 DEF Blocked, There
<1>9. ASSUME OnceInv, NEW c \in Addresses, NEW u \in Steps
      PROVE  mailed'[c][u] + Pending(c, u)' <= 1 + forgiven'[c] + collisions'
  <2>1. mailed[c][u] + Pending(c, u) <= 1 + forgiven[c] + collisions
    BY <1>9 DEF OnceInv
  <2>2. mailed[c][u] \in Nat /\ forgiven[c] \in Nat /\ collisions \in Nat
    BY DEF Typed
  <2>3. forgiven' = forgiven /\ collisions' = collisions
    BY <1>1
  <2>4. CASE c = b /\ u = s
    <3>1. Pending(c, u) = 1 /\ Pending(c, u)' = 0
      BY <1>8, <2>4 DEF Pending
    <3> QED BY <1>5, <2>1, <2>2, <2>3, <2>4, <3>1
  <2>5. CASE c # b \/ u # s
    <3>1. mailed'[c][u] = mailed[c][u]
      BY <1>5, <2>5
    <3>2. Pending(c, u) \in {0, 1} /\ Pending(c, u)' \in {0, 1} /\ (Pending(c, u) = 0 => Pending(c, u)' = 0)
      BY <1>7 DEF Pending
    <3> QED BY <2>1, <2>2, <2>3, <3>1, <3>2
  <2> QED BY <2>4, <2>5
<1>10. SentKept
  BY <1>1 DEF SentKept
<1> QED BY <1>1, <1>6, <1>9, <1>10 DEF Keeps, OnceInv

LEMMA CycleKeeps ==
  ASSUME Typed, DeskInv, Cycle
  PROVE  Keeps
<1>1. CASE CycleBegin \/ \E r \in Rows : CycleSkips(r)
  <2>1. /\ UNCHANGED <<lead, row, suppressed, req, opt, forgiven, collisions>>
        /\ due' \subseteq Rows /\ sent' \subseteq Rows /\ skip' \subseteq Rows /\ sent \subseteq sent'
        /\ DeskInv'
    BY <1>1, PicksFit DEF CyclePicks
  <2>2. mailed' = mailed
    BY <1>1 DEF CycleBegin, CycleSkips
  <2>3. Typed'
    BY <2>1, <2>2 DEF Typed, There
  <2>4. OnceInv => OnceInv'
    BY <2>1, <2>2, <2>3, NothingFreed DEF Marked, There, Dormant
  <2>5. SentKept
    BY <2>1 DEF SentKept
  <2> QED BY <2>1, <2>3, <2>4, <2>5 DEF Keeps
<1>2. CASE \E r \in Rows : CycleSends(r)
  BY <1>2, SendKeeps
<1>3. CASE CycleCommit
  <2>1. /\ UNCHANGED <<lead, suppressed, req, opt, due, mailed, forgiven>>
        /\ row' \in [Rows -> Messages] /\ sent' = {} /\ skip' = {}
        /\ \A r \in Rows : /\ row'[r].lead = row[r].lead /\ row'[r].step = row[r].step
                           /\ row[r].status = "SENT" => row'[r].status = "SENT"
        /\ \/ collisions' = collisions + 1
           \/ collisions' = collisions /\ \A r \in Rows : Marked(r) => Marked(r)'
        /\ DeskInv'
    BY <1>3, CommitFits
  <2>2. collisions' \in Nat /\ collisions' >= collisions
    BY <2>1 DEF Typed
  <2>3. Typed'
    BY <2>1, <2>2 DEF Typed, There
  <2>4. SentKept
    BY <2>1 DEF SentKept
  <2>5. ASSUME OnceInv PROVE OnceInv'
    <3>1. ASSUME NEW c \in Addresses, NEW u \in Steps, Blocked(c, u), collisions' # collisions + 1
          PROVE  Blocked(c, u)'
      <4>1. \A r \in Rows : Marked(r) => Marked(r)'
        BY <2>1, <3>1
      <4> QED BY <2>1, <3>1, <4>1, StaysBlocked DEF There, Dormant
    <3>2. \A c \in Addresses : forgiven'[c] >= forgiven[c]
      BY <2>1 DEF Typed
    <3> QED BY <2>1, <2>2, <2>3, <2>5, <3>1, <3>2, OnceKept
  <2> QED BY <2>1, <2>3, <2>4, <2>5 DEF Keeps
<1> QED BY <1>1, <1>2, <1>3 DEF Cycle

LEMMA GenerateLeavesDormant ==
  ASSUME Typed, DeskInv, NEW t \in Threads, GenerateCommit(t), NoActivation'
  PROVE  \A x \in Ids : Dormant(x) => Dormant(x)'
<1>1. RequestFits(t) /\ req[t].op = "write"
  BY DEF DeskInv, GenerateCommit
<1>2. lead[req[t].lead].state = "UNSUBSCRIBED" => req[t].state # "SCORED"
  BY <1>1 DEF RequestFits
<1>3. lead' = [lead EXCEPT ![req[t].lead].state = IF req[t].state = "SCORED" THEN "OUTREACH_PENDING" ELSE @]
  BY DEF GenerateCommit
<1>4. \A x \in Ids : lead[x].state = "UNSUBSCRIBED" => lead'[x].state = "UNSUBSCRIBED"
  BY <1>2, <1>3 DEF Typed, Leads
<1> QED BY <1>4, StaysDormant

LEMMA ActivateLeavesDormant ==
  ASSUME Typed, DeskInv, NEW t \in Threads, ActivateCommit(t), NoActivation'
  PROVE  \A x \in Ids : Dormant(x) => Dormant(x)'
<1> SUFFICES ASSUME NEW x \in Ids, Dormant(x) PROVE Dormant(x)'
  OBVIOUS
<1>1. x # req[t].lead
  BY DEF Dormant, ActivateCommit
<1>2. lead'[x] = lead[x]
  BY <1>1 DEF ActivateCommit, Typed
<1> QED BY <1>2 DEF Dormant, NoActivation

LEMMA RequestKeeps ==
  ASSUME OneRequest, Typed, DeskInv, NEW t \in Threads, Request(t)
  PROVE  Keeps
<1> USE DEF DeskInv
<1>1. CASE \E A \in (SUBSET Addresses) \ {{}} : ImportRead(t, A)
  <2>1. OnlyReads
    BY <1>1 DEF ImportRead, OnlyReads
  <2> QED BY <1>1, <2>1, ImportReads, ReadKeeps
<1>2. CASE \E a \in Addresses : UpsertRead(t, a)
  <2>1. OnlyReads
    BY <1>2 DEF UpsertRead, OnlyReads
  <2> QED BY <1>2, <2>1, UpsertReads, ReadKeeps
<1>3. CASE \E l \in Ids : ScoreRead(t, l) \/ MessageRead(t, l) \/ GenerateRead(t, l) \/ ActivateRead(t, l)
  BY <1>3, ScoreReads, ActivateReads, ReadKeeps
<1>4. CASE \E l \in Ids, s \in BOOLEAN : EraseRead(t, l, s)
  BY <1>4, EraseReads, ReadKeeps
<1>5. CASE ScoreAllRead(t)
  BY <1>5, ScoreAllReads, ReadKeeps
<1>6. CASE ScoreNext(t)
  <2>1. /\ \E l \in Ids, s \in LeadStates : Advances(l, s)
        /\ RowsRest /\ UNCHANGED <<suppressed, forgiven>>
        /\ req' \in [Threads -> Requests] /\ RequestFits(t)' /\ req'[t].op # "activate"
    BY <1>6, ScoreAdvances
  <2>2. (\A u \in Threads : RequestFits(u)') /\ NoActivation'
    BY <2>1 DEF OneRequest, NoActivation
  <2> QED BY <2>1, <2>2, AdvanceKeeps
<1>7. CASE ImportCommit(t) \/ UpsertAdds(t)
  <2>1. LeadsEnter /\ RowsRest /\ Answer(t) /\ UNCHANGED <<suppressed, forgiven>>
    BY <1>7, ImportEnters, UpsertEnters
  <2> QED BY <2>1, Answered, AnsweredFits, EnterKeeps
<1>8. CASE UpsertUpdates(t)
  <2>1. /\ RowsRest /\ Answer(t) /\ suppressed' = suppressed
        /\ \/ UNCHANGED <<lead, forgiven>>
           \/ \E l \in Ids, a \in Addresses : Enriched(l, a) /\ Free({lead[l].addr})
    BY <1>8, UpsertEnriches
  <2>2. CASE UNCHANGED <<lead, forgiven>>
    BY <2>1, <2>2, AnswerKeeps DEF OnlyReads, RowsRest, cycle
  <2>3. CASE \E l \in Ids, a \in Addresses : Enriched(l, a) /\ Free({lead[l].addr})
    BY <2>1, <2>3, Answered, AnsweredFits, EnrichKeeps
  <2> QED BY <2>1, <2>2, <2>3
<1>9. CASE MoveCommit(t)
  <2>1. /\ \E l \in Ids, s \in LeadStates : Advances(l, s)
        /\ RowsRest /\ Answer(t) /\ UNCHANGED <<suppressed, forgiven>>
    BY <1>9, MoveAdvances
  <2> QED BY <2>1, Answered, AnsweredFits, AdvanceKeeps
<1>10. CASE GenerateSelect(t)
  BY <1>10, SelectFits, ReadKeeps
<1>11. CASE GenerateCommit(t)
  <2>1. /\ lead' \in [Ids -> Leads] /\ row' \in [Rows -> Messages]
        /\ \A x \in Ids : There(x)' => lead'[x].addr \in Addresses
        /\ CycleRest /\ Answer(t) /\ UNCHANGED <<suppressed, forgiven>>
        /\ DeskInv'
        /\ \A r \in Rows : Marked(r) => Marked(r)' /\ row'[r].lead = row[r].lead /\ row'[r].step = row[r].step
        /\ \A x \in Ids : lead'[x].addr = lead[x].addr /\ (There(x)' <=> There(x))
    BY <1>11, GenerateFits
  <2>2. suppressed \subseteq suppressed' /\ suppressed' \subseteq Addresses /\ opt' \in OptOuts
    BY <2>1 DEF Typed, CycleRest
  <2>3. \A x \in Ids : Dormant(x) => Dormant(x)'
    BY <1>11, <2>1, AnsweredFits, GenerateLeavesDormant
  <2> QED BY <2>1, <2>2, <2>3, Answered, RowsKeep DEF CycleRest
<1>12. CASE ActivateCommit(t)
  <2>1. /\ lead' \in [Ids -> Leads] /\ row' \in [Rows -> Messages]
        /\ \A x \in Ids : There(x)' => lead'[x].addr \in Addresses
        /\ CycleRest /\ Answer(t) /\ UNCHANGED <<suppressed, forgiven>>
        /\ DeskInv'
        /\ \A r \in Rows : Marked(r) => Marked(r)' /\ row'[r].lead = row[r].lead /\ row'[r].step = row[r].step
        /\ \A x \in Ids : lead'[x].addr = lead[x].addr /\ (There(x)' <=> There(x))
    BY <1>12, ActivateFits
  <2>2. suppressed \subseteq suppressed' /\ suppressed' \subseteq Addresses /\ opt' \in OptOuts
    BY <2>1 DEF Typed, CycleRest
  <2>3. \A x \in Ids : Dormant(x) => Dormant(x)'
    BY <1>12, <2>1, AnsweredFits, ActivateLeavesDormant
  <2> QED BY <2>1, <2>2, <2>3, Answered, RowsKeep DEF CycleRest
<1>13. CASE EraseCommit(t)
  <2>1. /\ CycleRest /\ Answer(t)
        /\ suppressed \subseteq suppressed' /\ suppressed' \subseteq Addresses
        /\ \E l \in Ids : Erased(l) /\ Free({lead[l].addr} \ suppressed')
    BY <1>13, EraseErases
  <2> QED BY <2>1, Answered, AnsweredFits, EraseKeeps
<1>14. CASE Abort(t)
  BY <1>14, AnswerKeeps DEF Abort, OnlyReads
<1> QED
  BY <1>1, <1>2, <1>3, <1>4, <1>5, <1>6, <1>7, <1>8, <1>9, <1>10, <1>11, <1>12, <1>13, <1>14 DEF Request

LEMMA OptOutKeeps ==
  ASSUME Typed, DeskInv, OptOutReads \/ OptOutCommits
  PROVE  Keeps
<1>1. CASE OptOutReads
  <2>1. /\ UNCHANGED <<lead, row, suppressed, req, due, sent, skip, mailed, forgiven, collisions>>
        /\ opt' \in OptOuts /\ OptFits'
    BY <1>1, OptOutReadsFit
  <2>2. Typed'
    BY <2>1 DEF Typed, There
  <2>3. DeskInv'
    BY <2>1 DEF DeskInv, KeysHold, SequencesFit, CycleFits, InCycle, RequestFits, StillDrafts, Whole, RowsOf, There
  <2>4. OnceInv => OnceInv'
    BY <2>1, <2>2, NothingFreed DEF Marked, There, Dormant
  <2>5. SentKept
    BY <2>1 DEF SentKept
  <2> QED BY <2>2, <2>3, <2>4, <2>5 DEF Keeps
<1>2. CASE OptOutCommits
  <2>1. req' \in [Threads -> Requests]
    BY <1>2 DEF OptOutCommits, Typed
  <2> QED BY <1>2, <2>1, OptOutFits, RowsKeep
<1> QED BY <1>1, <1>2

LEMMA StutterKeeps ==
  ASSUME Typed, DeskInv, UNCHANGED vars
  PROVE  Keeps
<1> USE DEF vars, cycle
<1>1. Typed'
  BY DEF Typed, There
<1>2. DeskInv'
  BY SameInv
<1>3. OnceInv => OnceInv'
  BY <1>1, NothingFreed DEF Marked, There, Dormant
<1>4. SentKept
  BY DEF SentKept
<1> QED BY <1>1, <1>2, <1>3, <1>4 DEF Keeps

LEMMA StepKeeps ==
  ASSUME OneRequest, Typed, DeskInv, [Next]_vars
  PROVE  Keeps
<1>1. CASE \E t \in Threads : Request(t)
  BY <1>1, RequestKeeps
<1>2. CASE \E a \in Addresses : RemoveSuppression(a)
  BY <1>2, RemoveKeeps
<1>3. CASE (\E l \in Ids : OptOutBegins(l)) \/ OptOutSelects \/ OptOutCommits \/ OptOutFails
  BY <1>3, OptOutKeeps DEF OptOutReads
<1>4. CASE Cycle
  BY <1>4, CycleKeeps
<1>5. CASE UNCHANGED vars
  BY <1>5, StutterKeeps
<1> QED BY <1>1, <1>2, <1>3, <1>4, <1>5 DEF Next

LEMMA InitFits ==
  ASSUME Init
  PROVE  Typed /\ DeskInv /\ OnceInv
<1>1. /\ \A l \in Ids : lead[l] = NoLead /\ ~There(l) /\ lead[l].state = "absent"
      /\ \A r \in Rows : row[r] = NoRow /\ row[r].status = "absent" /\ row[r].lead = None
      /\ due = {} /\ sent = {} /\ skip = {}
  BY DEF Init, There, NoLead, NoRow
<1>2. NoLead \in Leads /\ NoRow \in Messages /\ Idle \in Requests
  BY IdleIsARequest DEF NoLead, NoRow, Leads, LeadStates, Messages
<1>3. Typed
  <2>1. opt \in OptOuts
    BY DEF Init, NoOpt, OptOuts
  <2> QED BY <1>1, <1>2, <2>1 DEF Init, Typed
<1>4. KeysHold
  BY <1>1 DEF KeysHold
<1>5. SequencesFit
  BY <1>1 DEF SequencesFit
<1>6. CycleFits
  BY <1>1 DEF CycleFits, InCycle
<1>7. \A t \in Threads : RequestFits(t)
  BY IdleFits DEF Init
<1>8. OnceInv
  <2> SUFFICES ASSUME NEW a \in Addresses, NEW s \in Steps
               PROVE  mailed[a][s] + Pending(a, s) <= 1 + forgiven[a] + collisions
    BY DEF OnceInv
  <2>1. mailed[a][s] = 0 /\ forgiven[a] = 0 /\ collisions = 0
    BY DEF Init
  <2>2. Pending(a, s) \in {0, 1}
    BY DEF Pending
  <2> QED BY <2>1, <2>2
<1>9. OptFits
  BY DEF Init, OptFits
<1> QED BY <1>3, <1>4, <1>5, <1>6, <1>7, <1>8, <1>9 DEF DeskInv

-----------------------------------------------------------------------------
(* Theorems                                                                  *)

(* With one request of the dashboard at a time, at any moment of the send    *)
(* cycle and of the triage of an opt-out: every row has its type, no two     *)
(* leads have the same address as written (two spellings of one mailbox may  *)
(* be two leads), every row that is not erased has its lead, the rows of a   *)
(* lead are as its state says, what the request under way has read is still  *)
(* so when it commits, but for an opt-out, and an opt-out commits on rows of *)
(* its own lead, be they sent by then.                                       *)
THEOREM DeskIsInOrder ==
  ASSUME OneRequest
  PROVE  Spec => [](Typed /\ DeskInv)
<1>1. Init => Typed /\ DeskInv
  BY InitFits
<1>2. ASSUME Typed, DeskInv, [Next]_vars PROVE Typed' /\ DeskInv'
  BY <1>2, StepKeeps DEF Keeps
<1> QED BY <1>1, <1>2, PTL DEF Spec

(* A lead on autopilot has every step of the cadence exactly once, however   *)
(* often its sequence was rewritten, and whatever failed on the way          *)
(* (generate_sequence, activate_sequence).                                   *)
THEOREM SequencesAreWhole ==
  ASSUME OneRequest
  PROVE  Spec => []SequenceIsWhole
<1>1. ASSUME DeskInv PROVE SequenceIsWhole
  <2> SUFFICES ASSUME NEW l \in Ids, lead[l].state = "SEQUENCE_ACTIVE", NEW s \in Steps
               PROVE  Cardinality({r \in RowsOf(l) : row[r].step = s}) = 1
    BY DEF SequenceIsWhole
  <2>1. PICK y \in Rows : {r \in RowsOf(l) : row[r].step = s} = {y}
    BY <1>1 DEF DeskInv, SequencesFit, Whole
  <2> QED BY <2>1, FS_Singleton
<1> QED BY <1>1, DeskIsInOrder, PTL

(* No address, as written, gets a step twice, through erasure, import,       *)
(* enrichment and rewriting, and although a late opt-out may take the mark   *)
(* off a sent row, but where the customer freed it or a cycle lost its marks *)
(* to an erasure (delete_lead, remove_suppression, upsert_lead,              *)
(* _retire_pending_steps, run_send_cycle).  A mailbox with two spellings is  *)
(* two addresses here.                                                       *)
THEOREM StepsAreMailedOnce ==
  ASSUME OneRequest
  PROVE  Spec => []StepMailedOnce
<1>1. Init => Typed /\ DeskInv /\ OnceInv
  BY InitFits
<1>2. ASSUME Typed, DeskInv, OnceInv, [Next]_vars PROVE Typed' /\ DeskInv' /\ OnceInv'
  BY <1>2, StepKeeps DEF Keeps
<1>3. ASSUME Typed, OnceInv PROVE StepMailedOnce
  <2> SUFFICES ASSUME NEW a \in Addresses, NEW s \in Steps
               PROVE  mailed[a][s] <= 1 + forgiven[a] + collisions
    BY DEF StepMailedOnce
  <2>1. mailed[a][s] + Pending(a, s) <= 1 + forgiven[a] + collisions
    BY <1>3 DEF OnceInv
  <2>2. mailed[a][s] \in Nat /\ forgiven[a] \in Nat /\ collisions \in Nat
    BY <1>3 DEF Typed
  <2>3. Pending(a, s) \in {0, 1}
    BY DEF Pending
  <2> QED BY <2>1, <2>2, <2>3
<1> QED BY <1>1, <1>2, <1>3, PTL DEF Spec

(* A row that records a sent mail goes only with its lead, and loses its     *)
(* mark only to the opt-out of its lead, which writes SKIPPED over it:       *)
(* rewriting a sequence replaces the rows it chose before the LLM wrote the  *)
(* new ones, and none of them can have been sent since (generate_sequence).  *)
THEOREM SentStays ==
  ASSUME OneRequest
  PROVE  Spec => SentIsKept
<1>1. ASSUME Typed, DeskInv, [Next]_vars
      PROVE  [\A r \in Rows : row[r].status = "SENT" =>
                LET after == lead'[row[r].lead].state
                IN \/ row'[r].status = "SENT"
                   \/ row'[r].status = "SKIPPED" /\ after = "UNSUBSCRIBED"
                   \/ after = "gone"]_vars
  BY <1>1, StepKeeps DEF Keeps, SentKept
<1> QED BY <1>1, DeskIsInOrder, PTL DEF Spec, SentIsKept
=============================================================================
