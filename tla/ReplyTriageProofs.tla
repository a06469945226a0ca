-------------------------- MODULE ReplyTriageProofs --------------------------
(***************************************************************************)
(* Proofs about the reply triage, for any organizations, leads, replies    *)
(* and meanings, and any number of faults.  Polls that run side by side    *)
(* share no memory but the tables: what each holds of a reply is stale.    *)
(***************************************************************************)
EXTENDS ReplyTriage, FiniteSetTheorems, WellFoundedInduction, TLAPS

-----------------------------------------------------------------------------
(* Typing *)

(* Where a poll rests between two replies, and where it is with one. *)
Resting == {"idle", "poll", "send"}
Busy == {"book", "slots", "mail", "ask", "fyi", "tell", "commit"}

DatabaseTyped ==
  /\ arrived \subseteq Replies
  /\ filed \in [Replies -> Category \union {"no", "RECORDED"}]
  /\ leadState \in [Leads -> LeadState]
  /\ offered \subseteq Leads /\ briefed \subseteq Leads /\ suppressed \subseteq Leads
  /\ broken \subseteq Orgs

PollsTyped ==
  /\ pc \in [Pollers -> Resting \union Busy]
  /\ org \in [Pollers -> Orgs \union {None}]
  /\ todo \in [Pollers -> SUBSET Leads]
  /\ inbox \in [Pollers -> SUBSET arrived]
  /\ copy \in [Pollers -> [Leads -> [state: LeadState \union {None}, offered: BOOLEAN]]]
  /\ w \in [Pollers -> Works]

MailTyped ==
  /\ mails \in [Replies -> Nat]
  /\ told \subseteq Replies /\ shared \subseteq Replies /\ noSlots \subseteq Replies
  /\ offers \in [Leads -> Nat] /\ rundowns \in [Leads -> Nat]
  /\ faults \in 0..MaxFaults /\ cuts \in 0..faults

(* The parts make up TypeOK. *)
LEMMA TypeParts == TypeOK <=> DatabaseTyped /\ PollsTyped /\ MailTyped
BY DEF TypeOK, DatabaseTyped, PollsTyped, MailTyped, Resting, Busy

(* Between two replies the session holds nothing; during one it is about a   *)
(* reply of a lead of the organization it polls.                             *)
PollShape(p) ==
  /\ pc[p] \in Resting => w[p] = NoWork
  /\ pc[p] \in Busy => w[p].reply \in Replies /\ LeadOrg[Lead(p)] = org[p]
  /\ pc[p] \notin {"idle", "send"} => org[p] \in Orgs
  /\ \A l \in todo[p] : LeadOrg[l] = org[p]
  /\ \A r \in inbox[p] : LeadOrg[From[r]] = org[p]

Typed == TypeOK /\ \A p \in Pollers : PollShape(p)

(* A set of naturals has a least element. *)
LEMMA LeastNat ==
  ASSUME NEW T, T \subseteq Nat, T # {}
  PROVE  \E x \in T : \A y \in T : x <= y
<1>1. IsWellFoundedOn(OpToRel(<, Nat), Nat)
  BY NatLessThanWellFounded
<1>2. \E x \in T : \A y \in T : <<y, x>> \notin OpToRel(<, Nat)
  BY <1>1, WFMin
<1>3. PICK x \in T : \A y \in T : <<y, x>> \notin OpToRel(<, Nat)
  BY <1>2
<1>4. \A y \in T : ~(y < x)
  BY <1>3 DEF OpToRel
<1> QED
  BY <1>4

(* The constants, as the proofs use them. *)
LEMMA ConstantFacts ==
  /\ \A r \in Replies : From[r] \in Leads /\ Meanings[r] \subseteq Category
  /\ \A l \in Leads : LeadOrg[l] \in Orgs
  /\ Orgs \subseteq Nat
  /\ None \notin Leads /\ None \notin Replies /\ None \notin Orgs /\ None \notin LeadState
  /\ MaxFaults \in Nat
BY OrgAssumption, ReplyAssumption, NoneAssumption, NoneIsNoState, FaultAssumption

(* The organization a poll turns to next is one that follows. *)
LEMMA NextOrgFollows ==
  ASSUME NEW o, Following(o) # {}
  PROVE  NextOrg(o) \in Following(o)
<1>1. Following(o) \subseteq Nat
  BY ConstantFacts DEF Following
<1>2. \E q \in Following(o) : \A x \in Following(o) : q <= x
  BY <1>1, LeastNat
<1> QED
  BY <1>2 DEF NextOrg

(* A session that holds nothing is one. *)
LEMMA NoWorkTyped ==
  /\ NoWork \in Works
  /\ NoWork.reply = None /\ NoWork.to = None
  /\ ~NoWork.open /\ ~NoWork.supp /\ ~NoWork.row
BY DEF NoWork, Works

(* The other polls do nothing meanwhile. *)
Aside(p) == \A q \in Pollers \ {p} :
  /\ pc'[q] = pc[q] /\ org'[q] = org[q] /\ todo'[q] = todo[q] /\ inbox'[q] = inbox[q]
  /\ copy'[q] = copy[q] /\ w'[q] = w[q]

LEMMA AsideShape ==
  ASSUME Typed, NEW p \in Pollers, Aside(p)
  PROVE  \A q \in Pollers \ {p} : PollShape(q)'
BY DEF Typed, Aside, PollShape, Lead

(* What a poll that begins anew, or has ended, holds of the leads: nothing,  *)
(* or what the tables say of leads it was not at work on.                    *)
Renewed(p) ==
  \A l \in Leads : \/ copy'[p][l] = NoCopy[l]
                   \/ /\ copy'[p][l] = [state |-> leadState[l], offered |-> l \in offered]
                      /\ pc[p] \in Busy => LeadOrg[l] # org[p]

LEMMA VisitTyping ==
  ASSUME Typed, NEW p \in Pollers, NEW o \in Orgs, Visit(p, o), arrived' = arrived
  PROVE  /\ PollsTyped' /\ PollShape(p)' /\ Aside(p)
         /\ pc'[p] = "poll" /\ w'[p] = NoWork
         /\ \A l \in Leads : copy'[p][l] = IF LeadOrg[l] = o
              THEN [state |-> leadState[l], offered |-> l \in offered] ELSE NoCopy[l]
<1> USE DEF Typed, TypeOK, Visit, Goto
<1>1. /\ pc'[p] = "poll" /\ w'[p] = NoWork /\ org'[p] = o /\ inbox'[p] = {}
      /\ todo'[p] = {l \in Leads : LeadOrg[l] = o /\ leadState[l] \in TRIAGEABLE_STATES}
  OBVIOUS
<1>2. \A l \in Leads : copy'[p][l] = IF LeadOrg[l] = o
              THEN [state |-> leadState[l], offered |-> l \in offered] ELSE NoCopy[l]
  OBVIOUS
<1>3. copy' \in [Pollers -> [Leads -> [state: LeadState \union {None}, offered: BOOLEAN]]]
  BY DEF NoCopy
<1>4. PollsTyped'
  BY <1>3, NoWorkTyped DEF PollsTyped, Resting, Busy
<1>5. PollShape(p)'
  BY <1>1 DEF PollShape, Resting, Busy
<1>6. Aside(p)
  BY DEF Aside
<1> QED
  BY <1>1, <1>2, <1>4, <1>5, <1>6

LEMMA LeaveTyping ==
  ASSUME Typed, NEW p \in Pollers, NEW where \in {"idle", "send"}, Leave(p, where),
         arrived' = arrived
  PROVE  /\ PollsTyped' /\ PollShape(p)' /\ Aside(p)
         /\ pc'[p] \in Resting /\ w'[p] = NoWork /\ Renewed(p)
<1> USE DEF Typed, TypeOK, Leave, Goto
<1>1. /\ pc'[p] = where /\ w'[p] = NoWork /\ inbox'[p] = {} /\ todo'[p] = {}
      /\ copy'[p] = NoCopy
  OBVIOUS
<1>2. PollsTyped'
  BY NoWorkTyped DEF PollsTyped, Resting, Busy, NoCopy
<1>3. PollShape(p)'
  BY <1>1 DEF PollShape, Resting, Busy
<1>4. Aside(p)
  BY DEF Aside
<1> QED
  BY <1>1, <1>2, <1>3, <1>4 DEF Resting, Renewed

(* The agent goes on to the next organization or to its sending half.        *)
LEMMA AfterOrgTyping ==
  ASSUME Typed, NEW p \in Pollers, NEW o \in Nat, AfterOrg(p, o), arrived' = arrived,
         pc[p] \in Busy => o = org[p]
  PROVE  /\ PollsTyped' /\ PollShape(p)' /\ Aside(p)
         /\ pc'[p] \in Resting /\ w'[p] = NoWork /\ Renewed(p)
<1>1. CASE \E where \in {"idle", "send"} : Leave(p, where)
  BY <1>1, LeaveTyping
<1>2. CASE Following(o) # {} /\ Visit(p, NextOrg(o))
  <2>1. NextOrg(o) \in Orgs /\ NextOrg(o) > o
    BY <1>2, NextOrgFollows DEF Following
  <2>2. /\ PollsTyped' /\ PollShape(p)' /\ Aside(p)
        /\ pc'[p] = "poll" /\ w'[p] = NoWork
        /\ \A l \in Leads : copy'[p][l] = IF LeadOrg[l] = NextOrg(o)
              THEN [state |-> leadState[l], offered |-> l \in offered] ELSE NoCopy[l]
    BY <1>2, <2>1, VisitTyping
  <2>3. pc[p] \in Busy => NextOrg(o) # org[p]
    BY <2>1
  <2>4. Renewed(p)
    BY <2>2, <2>3 DEF Renewed
  <2> QED
    BY <2>2, <2>4 DEF Resting
<1> QED
  BY <1>1, <1>2 DEF AfterOrg

-----------------------------------------------------------------------------
(* The kinds of steps *)

(* Nothing that is recorded, mailed or counted changes. *)
Stands == UNCHANGED <<filed, leadState, offered, briefed, suppressed, mails, told, offers, rundowns>>

(* The poll takes leads and mails from its lists, ends or begins anew.       *)
LooksOn(p) ==
  /\ pc[p] \in Resting /\ pc'[p] \in Resting /\ w'[p] = NoWork
  /\ copy'[p] = copy[p] \/ Renewed(p)
  /\ Stands /\ faults' >= faults /\ cuts' \in {cuts, cuts + 1}

(* How the triage of r begins, with k for its work. *)
OptOuts == {"UNSUBSCRIBE", "NOT_INTERESTED"}
Begins(p, r, where, k) ==
  LET s == Me(p, r).state
  IN \/ where = "book" /\ k.cat = "SLOT_SELECTED" /\ k.to = "AWAITING_APPROVAL" /\ k.kind = "ack"
          /\ ~k.supp /\ s = "MEETING_PROPOSED"
     \/ where = "commit" /\ k.cat \in {"RECORDED", "OUT_OF_OFFICE"} /\ k.to = None
          /\ k.kind = None /\ ~k.supp
     \/ where = "commit" /\ k.cat \in OptOuts /\ k.to \in {"UNSUBSCRIBED", "NOT_INTERESTED"}
          /\ k.kind = None /\ (k.supp <=> From[r] \notin suppressed) /\ s \in TRIAGEABLE_STATES
     \/ where = "mail" /\ k.cat = "QUESTION" /\ k.to = EngagedFirst(s) /\ k.kind = "answer"
          /\ ~k.supp /\ s \in TRIAGEABLE_STATES
     \/ where = "slots" /\ k.cat \in {"MEETING", "CURIOUS"} /\ k.to = None /\ k.kind = "times"
          /\ ~k.supp /\ s \in Uncommitted /\ ~Me(p, r).offered
     \/ where = "mail" /\ k.cat \in {"MEETING", "CURIOUS"} /\ k.to = Engaged(s)
          /\ k.kind = "rundown" /\ ~k.supp /\ s \in Uncommitted /\ From[r] \notin briefed
     \/ where = "tell" /\ k.cat \in MayBeUnwritten \union {"COMPLEX"} /\ k.to = Engaged(s)
          /\ k.kind = None /\ ~k.supp /\ s \in TRIAGEABLE_STATES

TakesUp(p, r) ==
  /\ pc[p] = "poll" /\ pc'[p] \in Busy
  /\ filed[r] = "no"
  /\ w'[p].reply = r /\ w'[p].open /\ ~w'[p].row
  /\ \E k \in Works : k = w'[p] /\ Begins(p, r, pc'[p], k)
  /\ \A l \in Leads : copy'[p][l] = IF l = From[r] /\ w'[p].to # None
                                      THEN [copy[p][l] EXCEPT !.state = w'[p].to] ELSE copy[p][l]
  /\ Stands /\ UNCHANGED <<faults, cuts>>

(* What a commit of p writes of its reply, with to as the state of the lead. *)
Writes(p, to) ==
  /\ pc[p] \in Busy /\ ~Conflict(p)
  /\ \A r \in Replies : filed'[r] = IF w[p].open /\ r = w[p].reply THEN w[p].cat ELSE filed[r]
  /\ \A l \in Leads : leadState'[l] = IF to # None /\ l = Lead(p) THEN to ELSE leadState[l]
  /\ suppressed' = IF w[p].supp THEN suppressed \union {Lead(p)} ELSE suppressed
  /\ briefed' = IF w[p].row THEN briefed \union {Lead(p)} ELSE briefed
  /\ UNCHANGED <<mails, told, rundowns>>

(* A commit in the middle: of a booking, or with a refreshed token. *)
Saves(p) ==
  /\ Writes(p, w[p].to)
  /\ \/ pc[p] = "book" /\ pc'[p] = "ask"
     \/ pc[p] \in {"slots", "mail"} /\ pc'[p] = pc[p]
  /\ w'[p] = Flushed(p) /\ copy'[p] = copy[p]
  /\ UNCHANGED <<offered, offers, faults, cuts>>

(* The commit of the times that are offered. *)
OffersTimes(p) ==
  /\ Writes(p, "MEETING_PROPOSED")
  /\ pc[p] = "slots" /\ pc'[p] = "mail"
  /\ w'[p] = Flushed(p)
  /\ \A l \in Leads : copy'[p][l] = IF l = Lead(p)
       THEN [state |-> "MEETING_PROPOSED", offered |-> TRUE] ELSE copy[p][l]
  /\ offered' = offered \union {Lead(p)}
  /\ \A l \in Leads : offers'[l] = IF l = Lead(p) THEN offers[l] + 1 ELSE offers[l]
  /\ UNCHANGED <<faults, cuts>>

(* The commit at the end of a triage. *)
Closes(p) ==
  /\ Writes(p, w[p].to)
  /\ pc[p] = "commit" /\ pc'[p] = "poll"
  /\ w'[p] = NoWork /\ copy'[p] = copy[p]
  /\ UNCHANGED <<offered, offers, faults, cuts>>

(* The commit that marks the connection broken, and ends the poll. *)
BreaksOff(p) ==
  /\ Writes(p, w[p].to)
  /\ pc[p] \in {"slots", "mail"} /\ pc'[p] \in Resting
  /\ w'[p] = NoWork /\ Renewed(p)
  /\ faults' = faults + 1 /\ cuts' = cuts + 1
  /\ UNCHANGED <<offered, offers>>

(* A mail to the lead has left; the program may not know. *)
Sends(p) ==
  /\ pc[p] = "mail"
  /\ \A r \in Replies : mails'[r] = IF r = w[p].reply THEN mails[r] + 1 ELSE mails[r]
  /\ \A l \in Leads : rundowns'[l] = IF l = Lead(p) /\ w[p].kind = "rundown"
                                       THEN rundowns[l] + 1 ELSE rundowns[l]
  /\ \/ /\ pc'[p] = IF w[p].kind \in {"rundown", "times"} THEN "fyi" ELSE "commit"
        /\ faults' = faults
        /\ w'[p] = [w[p] EXCEPT !.row = (w[p].kind = "rundown")]
     \/ /\ pc'[p] = IF w[p].kind = "ack" THEN "commit" ELSE "tell"
        /\ faults' = faults + 1 /\ w'[p] = w[p]
  /\ copy'[p] = copy[p]
  /\ UNCHANGED <<filed, leadState, offered, briefed, suppressed, told, offers, cuts>>

(* The triage goes on without a commit or a mail to the lead. *)
GoesOn(p) ==
  /\ \/ /\ pc[p] = "mail" /\ pc'[p] = IF w[p].kind = "ack" THEN "commit" ELSE "tell"
        /\ told' = told /\ faults' = faults + 1 /\ w'[p] = w[p] /\ copy'[p] = copy[p]
     \/ /\ pc[p] \in {"ask", "fyi", "tell"}
        /\ pc'[p] = IF pc[p] = "ask" THEN "mail" ELSE "commit"
        /\ told' = told \union {w[p].reply} /\ faults' = faults /\ w'[p] = w[p]
        /\ copy'[p] = copy[p]
     \/ /\ pc[p] = "fyi" /\ pc'[p] = "tell"
        /\ told' = told /\ faults' = faults + 1 /\ w'[p] = w[p] /\ copy'[p] = copy[p]
     \/ /\ pc[p] = "slots" /\ pc'[p] = "tell" /\ copy[p][Lead(p)].state # "ENGAGED"
        /\ told' = told /\ faults' = faults + 1 /\ w'[p] = [w[p] EXCEPT !.to = "ENGAGED"]
        /\ \A l \in Leads : copy'[p][l] = IF l = Lead(p)
             THEN [copy[p][l] EXCEPT !.state = "ENGAGED"] ELSE copy[p][l]
  /\ UNCHANGED <<filed, leadState, offered, briefed, suppressed, mails, offers, rundowns, cuts>>

(* The poll is over and what it held is lost: by a failure, or by a conflict. *)
Drops(p) ==
  /\ pc'[p] \in Resting /\ w'[p] = NoWork /\ Renewed(p)
  /\ Stands
  /\ \/ faults' = faults + 1 /\ cuts' = cuts + 1
     \/ Conflict(p) /\ pc[p] \in Busy /\ UNCHANGED <<faults, cuts>>

(* The process dies. *)
Dies ==
  /\ \A p \in Pollers : /\ pc'[p] = "idle" /\ w'[p] = NoWork
                        /\ \A l \in Leads : copy'[p][l] = NoCopy[l]
  /\ Stands /\ faults' = faults + 1 /\ cuts' = cuts + 1

(* Something happens outside; at most a pending booking is decided. *)
Outside ==
  /\ UNCHANGED <<pc, copy, w, filed, offered, briefed, suppressed, mails, told, offers, rundowns,
                 faults, cuts>>
  /\ \/ leadState' = leadState
     \/ \E l \in Leads : /\ leadState[l] = "AWAITING_APPROVAL"
                         /\ \E s \in {"MEETING_CONFIRMED", "MEETING_PROPOSED"} :
                              leadState' = [leadState EXCEPT ![l] = s]

PollStep(p) ==
  /\ Aside(p)
  /\ \/ LooksOn(p)
     \/ \E r \in Replies : TakesUp(p, r)
     \/ Saves(p) \/ OffersTimes(p) \/ Closes(p) \/ BreaksOff(p)
     \/ Sends(p) \/ GoesOn(p) \/ Drops(p)

AnyStep == Dies \/ Outside \/ \E p \in Pollers : PollStep(p)

-----------------------------------------------------------------------------
(* Every step is of one of these kinds, and keeps the types *)

(* What is to be shown of a step of one poll. *)
Sound(p) == Typed' /\ PollStep(p)

LEMMA TypedAgain ==
  ASSUME Typed, NEW p \in Pollers, Aside(p),
         DatabaseTyped', PollsTyped', MailTyped', PollShape(p)'
  PROVE  Typed'
BY AsideShape, TypeParts DEF Typed, DatabaseTyped, PollsTyped, MailTyped, TypeOK, Resting, Busy

(* The tables, the mail and the counts are as they were, or a failure more.  *)
LEMMA SameTyped ==
  ASSUME Typed, UNCHANGED <<arrived, filed, leadState, offered, briefed, suppressed>>
  PROVE  /\ broken' = broken => DatabaseTyped'
         /\ UNCHANGED <<mails, told, offers, rundowns, shared, noSlots, faults, cuts>> => MailTyped'
         /\ \A f : /\ UNCHANGED <<mails, told, offers, rundowns, shared, noSlots>> /\ Fault(f)
                   /\ cuts' \in {cuts, cuts + 1}
                   => MailTyped'
<1>1. broken' = broken => DatabaseTyped'
  BY DEF Typed, TypeOK, DatabaseTyped
<1>2. UNCHANGED <<mails, told, offers, rundowns, shared, noSlots, faults, cuts>> => MailTyped'
  BY DEF Typed, TypeOK, MailTyped
<1>3. ASSUME NEW f, UNCHANGED <<mails, told, offers, rundowns, shared, noSlots>>, Fault(f),
             cuts' \in {cuts, cuts + 1}
      PROVE  MailTyped'
  <2>1. faults \in Nat /\ cuts \in Nat /\ cuts <= faults /\ faults < MaxFaults /\ MaxFaults \in Nat
        /\ faults' = faults + 1
    BY <1>3, ConstantFacts DEF Typed, TypeOK, Fault
  <2>2. faults' \in 0..MaxFaults /\ cuts' \in 0..faults'
    BY <1>3, <2>1
  <2> QED
    BY <1>3, <2>2 DEF Typed, TypeOK, MailTyped
<1> QED
  BY <1>1, <1>2, <1>3

LEMMA StartStep ==
  ASSUME Typed, NEW p \in Pollers, Start(p)
  PROVE  Sound(p)
<1>1. /\ UNCHANGED <<arrived, filed, leadState, offered, briefed, suppressed, broken, mails, told,
                     offers, rundowns, shared, noSlots, faults, cuts>>
      /\ pc[p] = "idle"
  BY DEF Start, db, mail
<1>2. PollsTyped' /\ PollShape(p)' /\ Aside(p) /\ pc'[p] \in Resting /\ w'[p] = NoWork /\ Renewed(p)
  <2>1. CASE AfterOrg(p, 0)
    BY <1>1, <2>1, AfterOrgTyping DEF Busy
  <2>2. CASE \E o \in Orgs : Visit(p, o)
    BY <1>1, <2>2, VisitTyping DEF Renewed, Resting, Busy
  <2> QED
    BY <2>1, <2>2 DEF Start
<1>3. Typed'
  BY <1>1, <1>2, TypedAgain, SameTyped
<1>4. faults \in Int /\ cuts \in Int
  BY DEF Typed, TypeOK
<1>5. LooksOn(p)
  BY <1>1, <1>2, <1>4 DEF LooksOn, Stands, Resting
<1> QED
  BY <1>2, <1>3, <1>5 DEF Sound, PollStep

LEMMA EndPollStep ==
  ASSUME Typed, NEW p \in Pollers, EndPoll(p)
  PROVE  Sound(p)
<1>1. /\ UNCHANGED <<arrived, filed, leadState, offered, briefed, suppressed, broken, mails, told,
                     offers, rundowns, shared, noSlots, faults, cuts>>
      /\ pc[p] = "poll" /\ AfterOrg(p, org[p])
  BY DEF EndPoll, db, mail, Looking
<1>2. org[p] \in Nat
  BY <1>1, ConstantFacts DEF Typed, PollShape
<1>3. PollsTyped' /\ PollShape(p)' /\ Aside(p) /\ pc'[p] \in Resting /\ w'[p] = NoWork /\ Renewed(p)
  BY <1>1, <1>2, AfterOrgTyping
<1>4. Typed'
  BY <1>1, <1>3, TypedAgain, SameTyped
<1>5. faults \in Int /\ cuts \in Int
  BY DEF Typed, TypeOK
<1>6. LooksOn(p)
  BY <1>1, <1>3, <1>5 DEF LooksOn, Stands, Resting
<1> QED
  BY <1>3, <1>4, <1>6 DEF Sound, PollStep

LEMMA SendPhaseStep ==
  ASSUME Typed, SendPhase
  PROVE  Agent \in Pollers /\ Sound(Agent)
<1>1. /\ UNCHANGED <<arrived, filed, leadState, offered, briefed, suppressed, broken, mails, told,
                     offers, rundowns, shared, noSlots, faults, cuts>>
      /\ pc[Agent] = "send" /\ Leave(Agent, "idle")
  BY DEF SendPhase, db, mail
<1>2. Agent \in Pollers
  BY PollerAssumption
<1>3. /\ PollsTyped' /\ PollShape(Agent)' /\ Aside(Agent) /\ pc'[Agent] \in Resting
      /\ w'[Agent] = NoWork /\ Renewed(Agent)
  BY <1>1, <1>2, LeaveTyping
<1>4. Typed'
  BY <1>1, <1>2, <1>3, TypedAgain, SameTyped
<1>5. faults \in Int /\ cuts \in Int
  BY DEF Typed, TypeOK
<1>6. LooksOn(Agent)
  BY <1>1, <1>3, <1>5 DEF LooksOn, Stands, Resting
<1> QED
  BY <1>2, <1>3, <1>4, <1>6 DEF Sound, PollStep

(* A poll that takes a lead, or a mail that is filed, off its lists. *)
LEMMA ListStep ==
  ASSUME Typed, NEW p \in Pollers,
         \/ \E l \in Leads : Fetch(p, l) \/ FetchFails(p, l)
         \/ \E r \in Replies : Duplicate(p, r)
  PROVE  Sound(p)
<1>1. /\ UNCHANGED <<arrived, filed, leadState, offered, briefed, suppressed, broken, mails, told,
                     offers, rundowns, shared, noSlots, cuts, pc, org, copy, w>>
      /\ pc[p] = "poll"
      /\ faults' = faults \/ Fault("gmail")
  BY DEF Fetch, FetchFails, Duplicate, Looking, db, mail
<1> DEFINE Shortened ==
      /\ todo' \in [Pollers -> SUBSET Leads] /\ inbox' \in [Pollers -> SUBSET arrived]
      /\ todo'[p] \subseteq todo[p]
      /\ \A r \in inbox'[p] : LeadOrg[From[r]] = org[p]
      /\ \A q \in Pollers \ {p} : todo'[q] = todo[q] /\ inbox'[q] = inbox[q]
<1>2. Shortened
  <2>1. ASSUME NEW l \in Leads, Fetch(p, l) PROVE Shortened
    BY <2>1 DEF Fetch, Typed, TypeOK, PollShape
  <2>2. ASSUME NEW l \in Leads, FetchFails(p, l) PROVE Shortened
    BY <2>2 DEF FetchFails, Typed, TypeOK, PollShape
  <2>3. ASSUME NEW r \in Replies, Duplicate(p, r) PROVE Shortened
    BY <2>3 DEF Duplicate, Typed, TypeOK, PollShape
  <2> QED
    BY <2>1, <2>2, <2>3
<1>3. PollsTyped' /\ PollShape(p)' /\ Aside(p)
  BY <1>1, <1>2 DEF PollsTyped, PollShape, Aside, Typed, TypeOK, Resting, Busy, Lead
<1>4. DatabaseTyped' /\ MailTyped'
  BY <1>1, SameTyped
<1>5. Typed'
  BY <1>3, <1>4, TypedAgain
<1>6. w[p] = NoWork
  BY <1>1 DEF Typed, PollShape, Resting
<1>7. faults' >= faults /\ cuts' \in {cuts, cuts + 1}
  BY <1>1 DEF Typed, TypeOK, Fault
<1>8. LooksOn(p)
  BY <1>1, <1>6, <1>7 DEF LooksOn, Stands, Resting
<1> QED
  BY <1>3, <1>5, <1>8 DEF Sound, PollStep

(* The work of a triage is what it is made of. *)
LEMMA WorkFields ==
  ASSUME NEW r \in Replies, NEW cat \in Category \union {"RECORDED"},
         NEW to \in LeadState \union {None}, NEW kind \in Kinds \union {None}
  PROVE  LET k == Work(r, cat, to, kind)
         IN /\ k \in Works
            /\ k.reply = r /\ k.cat = cat /\ k.to = to /\ k.kind = kind
            /\ k.open /\ ~k.supp /\ ~k.row
BY DEF Work, NoWork, Works

LEMMA SuppFields ==
  ASSUME NEW k \in Works, NEW b \in BOOLEAN
  PROVE  LET j == [k EXCEPT !.supp = b]
         IN /\ j \in Works
            /\ j.reply = k.reply /\ j.cat = k.cat /\ j.to = k.to /\ j.kind = k.kind
            /\ j.open = k.open /\ j.supp = b /\ j.row = k.row
BY DEF Works

(* A reply is taken up with the work its category calls for. *)
LEMMA TriageStep ==
  ASSUME Typed, NEW p \in Pollers, NEW r \in Replies, NEW where \in Busy, NEW k \in Works,
         k.reply = r, k.open, ~k.row, Triage(p, r, where, k), Begins(p, r, where, k)
  PROVE  Sound(p)
<1> USE DEF Triage, Goto
<1>1. /\ UNCHANGED <<arrived, filed, leadState, offered, briefed, suppressed, broken, mails, told,
                     offers, rundowns, noSlots, faults, cuts, org, todo>>
      /\ shared' \subseteq shared \union {r}
      /\ pc[p] = "poll" /\ filed[r] = "no" /\ r \in inbox[p]
  BY DEF db
<1>2. /\ pc' \in [Pollers -> Resting \union Busy] /\ pc'[p] = where
      /\ w' \in [Pollers -> Works] /\ w'[p] = k
      /\ inbox' \in [Pollers -> SUBSET arrived] /\ inbox'[p] \subseteq inbox[p]
      /\ \A q \in Pollers \ {p} : /\ pc'[q] = pc[q] /\ w'[q] = w[q] /\ inbox'[q] = inbox[q]
                                  /\ copy'[q] = copy[q]
  BY DEF Typed, TypeOK, Resting, Busy
<1>3. From[r] \in Leads /\ k.to \in LeadState \union {None} /\ None \notin LeadState
  BY ConstantFacts DEF Works
<1> DEFINE Row == [state: LeadState \union {None}, offered: BOOLEAN]
           now == [copy[p][From[r]] EXCEPT !.state = IF k.to = None THEN @ ELSE k.to]
<1>4. copy' \in [Pollers -> [Leads -> Row]]
  <2>1. copy \in [Pollers -> [Leads -> Row]]
    BY DEF Typed, TypeOK
  <2>2. copy[p][From[r]] \in Row
    BY <1>3, <2>1
  <2>3. now \in Row
    BY <1>3, <2>2
  <2>4. copy' = [copy EXCEPT ![p] = [copy[p] EXCEPT ![From[r]] = now]]
    BY <1>3
  <2> HIDE DEF now, Row
  <2>5. [copy[p] EXCEPT ![From[r]] = now] \in [Leads -> Row]
    BY <2>1, <2>3
  <2> QED
    BY <2>1, <2>4, <2>5
<1>5. \A l \in Leads : copy'[p][l] = IF l = From[r] /\ k.to # None
                                      THEN [copy[p][l] EXCEPT !.state = k.to] ELSE copy[p][l]
  BY <1>3 DEF Typed, TypeOK
<1>6. Aside(p)
  BY <1>1, <1>2 DEF Aside
<1>7. PollsTyped'
  BY <1>1, <1>2, <1>4 DEF PollsTyped, Typed, TypeOK
<1>8. LeadOrg[From[r]] = org[p] /\ org[p] \in Orgs
  BY <1>1 DEF Typed, PollShape
<1>9. PollShape(p)'
  BY <1>1, <1>2, <1>8 DEF PollShape, Typed, Resting, Busy, Lead
<1>10. DatabaseTyped' /\ MailTyped'
  BY <1>1, SameTyped DEF MailTyped, Typed, TypeOK
<1>11. Typed'
  BY <1>6, <1>7, <1>9, <1>10, TypedAgain
<1>12. TakesUp(p, r)
  BY <1>1, <1>2, <1>5 DEF TakesUp, Stands
<1> QED
  BY <1>6, <1>11, <1>12 DEF Sound, PollStep

LEMMA TakeStep ==
  ASSUME Typed, NEW p \in Pollers, NEW r \in Replies, Take(p, r)
  PROVE  Sound(p)
<1> DEFINE s == Me(p, r).state
<1>1. From[r] \in Leads /\ Meanings[r] \subseteq Category /\ None \notin LeadState
  BY ConstantFacts
<1>2. s \in LeadState \union {None}
  BY <1>1 DEF Typed, TypeOK, Me
<1>3. Readings(p, r) \subseteq Category
  BY <1>1 DEF Readings, Category
<1>4. /\ Engaged(s) \in LeadState \union {None} /\ EngagedFirst(s) \in LeadState \union {None}
      /\ None \in LeadState \union {None} /\ "AWAITING_APPROVAL" \in LeadState \union {None}
      /\ "UNSUBSCRIBED" \in LeadState \union {None} /\ "NOT_INTERESTED" \in LeadState \union {None}
  BY DEF Engaged, EngagedFirst, LeadState, TRIAGEABLE_STATES
<1>5. /\ "ack" \in Kinds \union {None} /\ "answer" \in Kinds \union {None}
      /\ "times" \in Kinds \union {None} /\ "rundown" \in Kinds \union {None}
      /\ None \in Kinds \union {None}
  BY DEF Kinds
<1>6. CASE SelectsSlot(p, r)
  <2> DEFINE k == Work(r, "SLOT_SELECTED", "AWAITING_APPROVAL", "ack")
  <2>1. s = "MEETING_PROPOSED"
    BY <1>6 DEF SelectsSlot, Readings, Me
  <2>2. /\ k \in Works /\ k.reply = r /\ k.open /\ ~k.row /\ k.cat = "SLOT_SELECTED"
        /\ k.to = "AWAITING_APPROVAL" /\ k.kind = "ack" /\ ~k.supp
    BY <1>4, <1>5, WorkFields DEF Category
  <2> HIDE DEF k
  <2>3. Begins(p, r, "book", k)
    BY <2>1, <2>2 DEF Begins
  <2>4. Triage(p, r, "book", k)
    BY <1>6 DEF SelectsSlot, k
  <2> QED
    BY <2>2, <2>3, <2>4, TriageStep DEF Busy
<1>7. CASE RecordsOnly(p, r) \/ IsAway(p, r)
  <2>1. PICK cat \in {"RECORDED", "OUT_OF_OFFICE"} : Triage(p, r, "commit", Work(r, cat, None, None))
    BY <1>7 DEF RecordsOnly, IsAway
  <2> DEFINE k == Work(r, cat, None, None)
  <2>2. cat \in Category \union {"RECORDED"}
    BY DEF Category
  <2>3. /\ k \in Works /\ k.reply = r /\ k.open /\ ~k.row /\ k.cat = cat
        /\ k.to = None /\ k.kind = None /\ ~k.supp
    BY <1>4, <1>5, <2>2, WorkFields
  <2>4. Triage(p, r, "commit", k)
    BY <2>1
  <2> HIDE DEF k
  <2>5. Begins(p, r, "commit", k)
    BY <2>3 DEF Begins
  <2> QED
    BY <2>3, <2>4, <2>5, TriageStep DEF Busy
<1>8. CASE OptsOut(p, r)
  <2>1. PICK c \in OptOuts :
          Triage(p, r, "commit",
                 [Work(r, c, IF c = "UNSUBSCRIBE" THEN "UNSUBSCRIBED" ELSE c, None)
                    EXCEPT !.supp = From[r] \notin suppressed])
    BY <1>8 DEF OptsOut, OptOuts
  <2> DEFINE to == IF c = "UNSUBSCRIBE" THEN "UNSUBSCRIBED" ELSE c
             k == [Work(r, c, to, None) EXCEPT !.supp = From[r] \notin suppressed]
  <2>2. c \in Category \union {"RECORDED"} /\ to \in {"UNSUBSCRIBED", "NOT_INTERESTED"}
    BY DEF Category, OptOuts
  <2>3. Triage(p, r, "commit", k)
    BY <2>1
  <2> HIDE DEF to
  <2>9. (From[r] \notin suppressed) \in BOOLEAN /\ to \in LeadState \union {None}
    BY <1>4, <2>2
  <2>10. LET j == Work(r, c, to, None)
         IN j \in Works /\ j.reply = r /\ j.open /\ ~j.row /\ j.cat = c /\ j.to = to /\ j.kind = None
    BY <1>5, <2>2, <2>9, WorkFields
  <2>4. /\ k \in Works /\ k.reply = r /\ k.open /\ ~k.row /\ k.cat = c
        /\ k.to = to /\ k.kind = None /\ (k.supp = (From[r] \notin suppressed))
    BY ZenonT(60), <2>9, <2>10, SuppFields
  <2> HIDE DEF k
  <2>5. s \in TRIAGEABLE_STATES
    BY <1>8 DEF OptsOut, Triageable
  <2>6. Begins(p, r, "commit", k)
    BY <2>2, <2>4, <2>5 DEF Begins
  <2> QED
    BY <2>3, <2>4, <2>6, TriageStep DEF Busy
<1>9. CASE AsksQuestion(p, r)
  <2> DEFINE k == Work(r, "QUESTION", EngagedFirst(s), "answer")
  <2>1. s \in TRIAGEABLE_STATES /\ Triage(p, r, "mail", k)
    BY <1>9 DEF AsksQuestion, Triageable
  <2>9. /\ "QUESTION" \in Category \union {"RECORDED"} /\ "answer" \in Kinds \union {None}
        /\ EngagedFirst(s) \in LeadState \union {None}
    BY <1>4, <1>5 DEF Category
  <2>2. /\ k \in Works /\ k.reply = r /\ k.open /\ ~k.row /\ k.cat = "QUESTION"
        /\ k.to = EngagedFirst(s) /\ k.kind = "answer" /\ ~k.supp
    BY <2>9, WorkFields
  <2> HIDE DEF k
  <2>3. Begins(p, r, "mail", k)
    BY <2>1, <2>2 DEF Begins
  <2> QED
    BY <2>1, <2>2, <2>3, TriageStep DEF Busy
<1>10. CASE ProposesMeeting(p, r)
  <2>1. PICK c \in Readings(p, r) : Proposes(p, r, c) /\ Triage(p, r, "slots", Work(r, c, None, "times"))
    BY <1>10 DEF ProposesMeeting
  <2> DEFINE k == Work(r, c, None, "times")
  <2>2. c \in {"MEETING", "CURIOUS"} /\ s \in Uncommitted /\ ~Me(p, r).offered
    BY <2>1 DEF Proposes
  <2>9. /\ c \in Category \union {"RECORDED"} /\ "times" \in Kinds \union {None}
        /\ None \in LeadState \union {None}
    BY <1>3, <1>4, <1>5
  <2>3. /\ k \in Works /\ k.reply = r /\ k.open /\ ~k.row /\ k.cat = c
        /\ k.to = None /\ k.kind = "times" /\ ~k.supp
    BY SMTT(40), <2>9, WorkFields
  <2>4. Triage(p, r, "slots", k)
    BY <2>1
  <2> HIDE DEF k
  <2>5. Begins(p, r, "slots", k)
    BY <2>2, <2>3 DEF Begins
  <2> QED
    BY <2>3, <2>4, <2>5, TriageStep DEF Busy
<1>11. CASE BriefsLead(p, r)
  <2>1. PICK c \in Readings(p, r) :
          Briefs(p, r, c) /\ Triage(p, r, "mail", Work(r, c, EngagedFirst(s), "rundown"))
    BY <1>11 DEF BriefsLead
  <2> DEFINE k == Work(r, c, EngagedFirst(s), "rundown")
  <2>2. c \in {"MEETING", "CURIOUS"} /\ s \in Uncommitted /\ From[r] \notin briefed
    BY <2>1 DEF Briefs
  <2>9. /\ c \in Category \union {"RECORDED"} /\ "rundown" \in Kinds \union {None}
        /\ EngagedFirst(s) \in LeadState \union {None}
    BY <1>3, <1>4, <1>5
  <2>3. /\ k \in Works /\ k.reply = r /\ k.open /\ ~k.row /\ k.cat = c
        /\ k.to = EngagedFirst(s) /\ k.kind = "rundown" /\ ~k.supp
    BY <2>9, WorkFields
  <2>4. Triage(p, r, "mail", k)
    BY <2>1
  <2> HIDE DEF k
  <2>5. Begins(p, r, "mail", k)
    BY <2>2, <2>3 DEF Begins, Engaged, EngagedFirst, Uncommitted
  <2> QED
    BY <2>3, <2>4, <2>5, TriageStep DEF Busy
<1>12. CASE HandsOff(p, r)
  <2>1. PICK c \in Readings(p, r) :
          c \in MayBeUnwritten \union {"COMPLEX"} /\ Triage(p, r, "tell", Work(r, c, Engaged(s), None))
    BY <1>12 DEF HandsOff
  <2> DEFINE k == Work(r, c, Engaged(s), None)
  <2>2. s \in TRIAGEABLE_STATES
    BY <1>12 DEF HandsOff, Triageable
  <2>9. /\ c \in Category \union {"RECORDED"} /\ None \in Kinds \union {None}
        /\ Engaged(s) \in LeadState \union {None}
    BY <1>3, <1>4, <1>5
  <2>3. /\ k \in Works /\ k.reply = r /\ k.open /\ ~k.row /\ k.cat = c
        /\ k.to = Engaged(s) /\ k.kind = None /\ ~k.supp
    BY <2>9, WorkFields
  <2>4. Triage(p, r, "tell", k)
    BY <2>1
  <2> HIDE DEF k
  <2>5. Begins(p, r, "tell", k)
    BY <2>1, <2>2, <2>3 DEF Begins
  <2> QED
    BY <2>3, <2>4, <2>5, TriageStep DEF Busy
<1> QED
  BY <1>6, <1>7, <1>8, <1>9, <1>10, <1>11, <1>12 DEF Take

(* A commit writes what the session holds of its reply, and keeps the types. *)
LEMMA FlushWrites ==
  ASSUME Typed, NEW p \in Pollers, pc[p] \in Busy, ~Conflict(p),
         NEW to \in LeadState \union {None}, Flush(p, to), UNCHANGED <<mails, told, rundowns>>
  PROVE  /\ Writes(p, to)
         /\ filed' \in [Replies -> Category \union {"no", "RECORDED"}]
         /\ leadState' \in [Leads -> LeadState]
         /\ suppressed' \subseteq Leads /\ briefed' \subseteq Leads
<1>1. w[p].reply \in Replies /\ Lead(p) \in Leads
  BY ConstantFacts DEF Typed, PollShape, Lead
<1>2. w[p].cat \in Category \union {"no", "RECORDED"}
  BY DEF Typed, TypeOK, Works
<1>3. \A r \in Replies : filed'[r] = IF w[p].open /\ r = w[p].reply THEN w[p].cat ELSE filed[r]
  BY <1>1 DEF Flush, Typed, TypeOK
<1>4. \A l \in Leads : leadState'[l] = IF to # None /\ l = Lead(p) THEN to ELSE leadState[l]
  BY <1>1 DEF Flush, Typed, TypeOK
<1>5. Writes(p, to)
  BY <1>3, <1>4 DEF Flush, Writes
<1>6. filed' \in [Replies -> Category \union {"no", "RECORDED"}]
  BY <1>1, <1>2 DEF Flush, Typed, TypeOK
<1>7. leadState' \in [Leads -> LeadState]
  BY <1>1 DEF Flush, Typed, TypeOK
<1> QED
  BY <1>1, <1>5, <1>6, <1>7 DEF Flush, Typed, TypeOK

(* The session's part of a triage after a commit, and with another state.    *)
LEMMA WorkUpdates ==
  ASSUME NEW k \in Works
  PROVE  /\ \A b \in BOOLEAN : [k EXCEPT !.row = b] \in Works
         /\ \A s \in LeadState : [k EXCEPT !.to = s] \in Works
BY DEF Works

LEMMA FlushedWork ==
  ASSUME NEW p, w[p] \in Works
  PROVE  /\ Flushed(p) \in Works
         /\ Flushed(p).reply = w[p].reply /\ Flushed(p).cat = w[p].cat
         /\ Flushed(p).kind = w[p].kind /\ Flushed(p).to = None
         /\ ~Flushed(p).supp /\ ~Flushed(p).row /\ ~Flushed(p).open
BY DEF Flushed, Works

(* A step of a busy poll that changes at most pc, copy and w of it. *)
LEMMA BusyTyping ==
  ASSUME Typed, NEW p \in Pollers, pc[p] \in Busy,
         NEW where \in Busy \union {"poll"}, NEW k \in Works,
         pc' = [pc EXCEPT ![p] = where], w' = [w EXCEPT ![p] = k],
         UNCHANGED <<arrived, org, todo, inbox>>,
         copy' \in [Pollers -> [Leads -> [state: LeadState \union {None}, offered: BOOLEAN]]],
         \A q \in Pollers \ {p} : copy'[q] = copy[q],
         IF where = "poll" THEN k = NoWork ELSE k.reply = w[p].reply
  PROVE  /\ PollsTyped' /\ PollShape(p)' /\ Aside(p)
         /\ pc'[p] = where /\ w'[p] = k
<1>1. pc'[p] = where /\ w'[p] = k
  BY DEF Typed, TypeOK
<1>2. PollsTyped'
  BY DEF PollsTyped, Typed, TypeOK, Resting, Busy
<1>3. Aside(p)
  BY DEF Aside, Typed, TypeOK
<1>4. PollShape(p)'
  BY <1>1 DEF PollShape, Typed, Resting, Busy, Lead
<1> QED
  BY <1>1, <1>2, <1>3, <1>4

LEMMA BookStep ==
  ASSUME Typed, NEW p \in Pollers, Book(p)
  PROVE  Sound(p)
<1>1. /\ pc[p] = "book" /\ ~Conflict(p) /\ Flush(p, w[p].to) /\ pc[p] \in Busy
      /\ UNCHANGED <<arrived, offered, broken, org, todo, inbox, copy, mails, told, offers, rundowns, shared,
                     noSlots, faults, cuts>>
      /\ pc' = [pc EXCEPT ![p] = "ask"] /\ w' = [w EXCEPT ![p] = Flushed(p)]
  BY DEF Book, Goto, mail, Busy
<1>2. w[p] \in Works /\ w[p].to \in LeadState \union {None}
  BY DEF Typed, TypeOK, Works
<1>3. Flushed(p) \in Works /\ Flushed(p).reply = w[p].reply
  BY <1>2, FlushedWork
<1>4. /\ Writes(p, w[p].to)
      /\ filed' \in [Replies -> Category \union {"no", "RECORDED"}]
      /\ leadState' \in [Leads -> LeadState]
      /\ suppressed' \subseteq Leads /\ briefed' \subseteq Leads
  BY <1>1, <1>2, FlushWrites
<1>5. copy' \in [Pollers -> [Leads -> [state: LeadState \union {None}, offered: BOOLEAN]]]
  BY <1>1 DEF Typed, TypeOK
<1>6. "ask" \in Busy \union {"poll"} /\ "ask" # "poll"
  BY DEF Busy
<1>7. PollsTyped' /\ PollShape(p)' /\ Aside(p) /\ pc'[p] = "ask" /\ w'[p] = Flushed(p)
  BY <1>1, <1>3, <1>5, <1>6, BusyTyping
<1>8. DatabaseTyped' /\ MailTyped'
  BY <1>1, <1>4 DEF DatabaseTyped, MailTyped, Typed, TypeOK
<1>9. Saves(p)
  BY <1>1, <1>4, <1>7 DEF Saves
<1> QED
  BY <1>7, <1>8, <1>9, TypedAgain DEF Sound, PollStep

LEMMA TokenRefreshedStep ==
  ASSUME Typed, NEW p \in Pollers, TokenRefreshed(p)
  PROVE  Sound(p)
<1>1. /\ pc[p] \in {"slots", "mail"} /\ ~Conflict(p) /\ Flush(p, w[p].to) /\ pc[p] \in Busy
      /\ UNCHANGED <<arrived, offered, broken, pc, org, todo, inbox, copy, mails, told, offers,
                     rundowns, shared, noSlots, faults, cuts>>
      /\ w' = [w EXCEPT ![p] = Flushed(p)]
  BY DEF TokenRefreshed, UsesToken, mail, Busy
<1>2. w[p] \in Works /\ w[p].to \in LeadState \union {None}
  BY DEF Typed, TypeOK, Works
<1>3. Flushed(p) \in Works /\ Flushed(p).reply = w[p].reply
  BY <1>2, FlushedWork
<1>4. /\ Writes(p, w[p].to)
      /\ filed' \in [Replies -> Category \union {"no", "RECORDED"}]
      /\ leadState' \in [Leads -> LeadState]
      /\ suppressed' \subseteq Leads /\ briefed' \subseteq Leads
  BY <1>1, <1>2, FlushWrites
<1>5. copy' \in [Pollers -> [Leads -> [state: LeadState \union {None}, offered: BOOLEAN]]]
  BY <1>1 DEF Typed, TypeOK
<1>6. pc[p] \in Busy \union {"poll"} /\ pc[p] # "poll" /\ pc' = [pc EXCEPT ![p] = pc[p]]
  BY <1>1 DEF Typed, TypeOK
<1>7. PollsTyped' /\ PollShape(p)' /\ Aside(p) /\ pc'[p] = pc[p] /\ w'[p] = Flushed(p)
  BY <1>1, <1>3, <1>5, <1>6, BusyTyping
<1>8. DatabaseTyped' /\ MailTyped'
  BY <1>1, <1>4 DEF DatabaseTyped, MailTyped, Typed, TypeOK
<1>9. Saves(p)
  BY <1>1, <1>4, <1>7 DEF Saves
<1> QED
  BY <1>7, <1>8, <1>9, TypedAgain DEF Sound, PollStep

LEMMA CommitStep ==
  ASSUME Typed, NEW p \in Pollers, Commit(p)
  PROVE  Sound(p)
<1>1. /\ pc[p] = "commit" /\ ~Conflict(p) /\ Flush(p, w[p].to) /\ pc[p] \in Busy
      /\ UNCHANGED <<arrived, offered, broken, org, todo, inbox, copy, mails, told, offers, rundowns, shared,
                     noSlots, faults, cuts>>
      /\ pc' = [pc EXCEPT ![p] = "poll"] /\ w' = [w EXCEPT ![p] = NoWork]
  BY DEF Commit, Goto, mail, Busy
<1>2. w[p] \in Works /\ w[p].to \in LeadState \union {None}
  BY DEF Typed, TypeOK, Works
<1>3. /\ Writes(p, w[p].to)
      /\ filed' \in [Replies -> Category \union {"no", "RECORDED"}]
      /\ leadState' \in [Leads -> LeadState]
      /\ suppressed' \subseteq Leads /\ briefed' \subseteq Leads
  BY <1>1, <1>2, FlushWrites
<1>4. copy' \in [Pollers -> [Leads -> [state: LeadState \union {None}, offered: BOOLEAN]]]
  BY <1>1 DEF Typed, TypeOK
<1>5. PollsTyped' /\ PollShape(p)' /\ Aside(p) /\ pc'[p] = "poll" /\ w'[p] = NoWork
  BY <1>1, <1>4, NoWorkTyped, BusyTyping
<1>6. DatabaseTyped' /\ MailTyped'
  BY <1>1, <1>3 DEF DatabaseTyped, MailTyped, Typed, TypeOK
<1>7. Closes(p)
  BY <1>1, <1>3, <1>5 DEF Closes
<1> QED
  BY <1>5, <1>6, <1>7, TypedAgain DEF Sound, PollStep

LEMMA SlotsFoundStep ==
  ASSUME Typed, NEW p \in Pollers, SlotsFound(p)
  PROVE  Sound(p)
<1> DEFINE Row == [state: LeadState \union {None}, offered: BOOLEAN]
           now == [state |-> "MEETING_PROPOSED", offered |-> TRUE]
<1>1. /\ pc[p] = "slots" /\ ~Conflict(p) /\ Flush(p, "MEETING_PROPOSED") /\ pc[p] \in Busy
      /\ UNCHANGED <<arrived, broken, org, todo, inbox, mails, told, rundowns, shared, noSlots, faults, cuts>>
      /\ pc' = [pc EXCEPT ![p] = "mail"] /\ w' = [w EXCEPT ![p] = Flushed(p)]
      /\ copy' = [copy EXCEPT ![p][Lead(p)] = now]
      /\ offered' = offered \union {Lead(p)}
      /\ offers' = [offers EXCEPT ![Lead(p)] = @ + 1]
  BY DEF SlotsFound, Goto, Busy
<1>2. w[p] \in Works /\ "MEETING_PROPOSED" \in LeadState \union {None} /\ Lead(p) \in Leads
  BY <1>1, ConstantFacts DEF Typed, TypeOK, PollShape, Lead, LeadState, TRIAGEABLE_STATES
<1>3. Flushed(p) \in Works /\ Flushed(p).reply = w[p].reply
  BY <1>2, FlushedWork
<1>4. /\ Writes(p, "MEETING_PROPOSED")
      /\ filed' \in [Replies -> Category \union {"no", "RECORDED"}]
      /\ leadState' \in [Leads -> LeadState]
      /\ suppressed' \subseteq Leads /\ briefed' \subseteq Leads
  BY <1>1, <1>2, FlushWrites
<1>5. now \in Row
  BY <1>2
<1>6. copy \in [Pollers -> [Leads -> Row]]
  BY DEF Typed, TypeOK
<1>7. /\ copy' \in [Pollers -> [Leads -> Row]]
      /\ \A q \in Pollers \ {p} : copy'[q] = copy[q]
      /\ \A l \in Leads : copy'[p][l] = IF l = Lead(p) THEN now ELSE copy[p][l]
  <2> HIDE DEF now, Row
  <2> QED
    BY <1>1, <1>2, <1>5, <1>6
<1>8. "mail" \in Busy \union {"poll"} /\ "mail" # "poll"
  BY DEF Busy
<1> HIDE DEF now
<1>9. PollsTyped' /\ PollShape(p)' /\ Aside(p) /\ pc'[p] = "mail" /\ w'[p] = Flushed(p)
  <2>1. /\ pc[p] \in Busy /\ UNCHANGED <<arrived, org, todo, inbox>>
        /\ pc' = [pc EXCEPT ![p] = "mail"] /\ w' = [w EXCEPT ![p] = Flushed(p)]
    BY <1>1
  <2>2. /\ copy' \in [Pollers -> [Leads -> Row]] /\ \A q \in Pollers \ {p} : copy'[q] = copy[q]
    BY <1>7
  <2> QED
    BY ZenonT(60), <1>3, <1>8, <2>1, <2>2, BusyTyping
<1>10. /\ \A l \in Leads : offers'[l] = IF l = Lead(p) THEN offers[l] + 1 ELSE offers[l]
       /\ offers' \in [Leads -> Nat]
  BY <1>1, <1>2 DEF Typed, TypeOK
<1>11. DatabaseTyped' /\ MailTyped'
  BY <1>1, <1>2, <1>4, <1>10 DEF DatabaseTyped, MailTyped, Typed, TypeOK
<1>12. OffersTimes(p)
  BY <1>1, <1>4, <1>7, <1>9, <1>10 DEF OffersTimes, now
<1> QED
  BY <1>9, <1>11, <1>12, TypedAgain DEF Sound, PollStep

(* A poll that ends with an exception loses what its session held. *)
LEMMA DropStep ==
  ASSUME Typed, NEW p \in Pollers, Leave(p, "idle"),
         UNCHANGED <<arrived, filed, leadState, offered, briefed, suppressed, broken, mails, told,
                     offers, rundowns>>,
         MailTyped',
         \/ faults' = faults + 1 /\ cuts' = cuts + 1
         \/ Conflict(p) /\ pc[p] \in Busy /\ UNCHANGED <<faults, cuts>>
  PROVE  Sound(p)
<1>1. /\ PollsTyped' /\ PollShape(p)' /\ Aside(p) /\ pc'[p] \in Resting /\ w'[p] = NoWork
      /\ Renewed(p)
  BY LeaveTyping
<1>2. DatabaseTyped'
  BY SameTyped
<1>3. Drops(p)
  BY <1>1 DEF Drops, Stands
<1> QED
  BY <1>1, <1>2, <1>3, TypedAgain DEF Sound, PollStep

LEMMA ExceptionStep ==
  ASSUME Typed, NEW p \in Pollers, ClassifierRaises(p) \/ TokenFails(p) \/ Collide(p)
  PROVE  Sound(p)
<1>1. /\ Leave(p, "idle")
      /\ UNCHANGED <<arrived, filed, leadState, offered, briefed, suppressed, broken, mails, told,
                     offers, rundowns, shared, noSlots>>
      /\ \/ (Fault("llm") \/ Fault("token")) /\ cuts' = cuts + 1
         \/ Conflict(p) /\ pc[p] \in Busy /\ UNCHANGED <<faults, cuts>>
  BY DEF ClassifierRaises, TokenFails, Collide, db, mail, Busy, Cut
<1>2. MailTyped'
  BY <1>1, SameTyped
<1> QED
  BY <1>1, <1>2, DropStep DEF Fault

LEMMA SlotsMissingStep ==
  ASSUME Typed, NEW p \in Pollers, SlotsMissing(p)
  PROVE  Sound(p)
<1> DEFINE Row == [state: LeadState \union {None}, offered: BOOLEAN]
           now == [copy[p][Lead(p)] EXCEPT !.state = "ENGAGED"]
<1>1. /\ pc[p] = "slots" /\ pc[p] \in Busy /\ Fault("slots")
      /\ UNCHANGED <<arrived, filed, leadState, offered, briefed, suppressed, broken, mails, told,
                     offers, rundowns, shared>>
      /\ noSlots' = noSlots \union {w[p].reply} /\ cuts' \in {cuts, cuts + 1}
  BY DEF SlotsMissing, db, mail, Busy, Cut
<1>2. w[p].reply \in Replies /\ Lead(p) \in Leads /\ w[p] \in Works
  BY <1>1, ConstantFacts DEF Typed, TypeOK, PollShape, Lead
<1>3. MailTyped'
  <2>1. faults \in Nat /\ cuts \in Nat /\ cuts <= faults /\ faults < MaxFaults /\ MaxFaults \in Nat
        /\ faults' = faults + 1
    BY <1>1, ConstantFacts DEF Typed, TypeOK, Fault
  <2>2. faults' \in 0..MaxFaults /\ cuts' \in 0..faults'
    BY <1>1, <2>1
  <2> QED
    BY <1>1, <1>2, <2>2 DEF Typed, TypeOK, MailTyped
<1>4. CASE copy[p][Lead(p)].state = "ENGAGED"
  <2>1. Leave(p, "idle") /\ cuts' = cuts + 1
    BY <1>4 DEF SlotsMissing, Cut
  <2> QED
    BY <1>1, <1>3, <2>1, DropStep DEF Fault
<1>5. CASE copy[p][Lead(p)].state # "ENGAGED"
  <2>1. /\ pc' = [pc EXCEPT ![p] = "tell"] /\ UNCHANGED <<org, todo, inbox, cuts>>
        /\ w' = [w EXCEPT ![p] = [w[p] EXCEPT !.to = "ENGAGED"]]
    BY <1>5 DEF SlotsMissing, Goto
  <2>2. copy' = [copy EXCEPT ![p] = [copy[p] EXCEPT ![Lead(p)] = now]]
    BY <1>5 DEF SlotsMissing
  <2>3. copy \in [Pollers -> [Leads -> Row]]
    BY DEF Typed, TypeOK
  <2>4. now \in Row
    <3>1. copy[p][Lead(p)] \in Row
      BY <1>2, <2>3
    <3>2. "ENGAGED" \in LeadState
      BY DEF LeadState, TRIAGEABLE_STATES
    <3> QED
      BY <3>1, <3>2
  <2>5. /\ copy' \in [Pollers -> [Leads -> Row]]
        /\ \A q \in Pollers \ {p} : copy'[q] = copy[q]
    <3> HIDE DEF now, Row
    <3>1. [copy[p] EXCEPT ![Lead(p)] = now] \in [Leads -> Row]
      BY <1>2, <2>3, <2>4
    <3> QED
      BY <2>2, <2>3, <3>1
  <2>6. \A l \in Leads : copy'[p][l] = IF l = Lead(p) THEN now ELSE copy[p][l]
    <3> HIDE DEF now, Row
    <3> QED
      BY <1>2, <2>2, <2>3
  <2>7. /\ [w[p] EXCEPT !.to = "ENGAGED"] \in Works
        /\ [w[p] EXCEPT !.to = "ENGAGED"].reply = w[p].reply
    BY <1>2 DEF Works, LeadState, TRIAGEABLE_STATES
  <2>8. "tell" \in Busy \union {"poll"} /\ "tell" # "poll"
    BY DEF Busy
  <2> HIDE DEF now
  <2>9. /\ PollsTyped' /\ PollShape(p)' /\ Aside(p) /\ pc'[p] = "tell"
        /\ w'[p] = [w[p] EXCEPT !.to = "ENGAGED"]
    <3>1. pc[p] \in Busy /\ UNCHANGED arrived
      BY <1>1
    <3> DEFINE k == [w[p] EXCEPT !.to = "ENGAGED"]
    <3>2. k \in Works /\ k.reply = w[p].reply /\ w' = [w EXCEPT ![p] = k]
      BY <2>1, <2>7
    <3> HIDE DEF k
    <3>3. PollsTyped' /\ PollShape(p)' /\ Aside(p) /\ pc'[p] = "tell" /\ w'[p] = k
      <4>1. pc' = [pc EXCEPT ![p] = "tell"] /\ UNCHANGED <<org, todo, inbox>>
        BY <2>1
      <4> QED
        BY ZenonT(60), <2>5, <2>8, <3>1, <3>2, <4>1, BusyTyping
    <3> QED
      BY <3>3 DEF k
  <2>10. DatabaseTyped'
    BY <1>1, SameTyped
  <2>11. faults' = faults + 1
    BY <1>1 DEF Fault
  <2>12. GoesOn(p)
    BY <1>1, <1>5, <2>1, <2>6, <2>9, <2>11 DEF GoesOn, now
  <2> QED
    BY <1>3, <2>9, <2>10, <2>12, TypedAgain DEF Sound, PollStep
<1> QED
  BY <1>4, <1>5

(* Delivery counts one mail, and a rundown if it is one. *)
LEMMA DeliveredCounts ==
  ASSUME Typed, NEW p \in Pollers, pc[p] = "mail", Delivered(p)
  PROVE  /\ mails' \in [Replies -> Nat] /\ rundowns' \in [Leads -> Nat]
         /\ \A r \in Replies : mails'[r] = IF r = w[p].reply THEN mails[r] + 1 ELSE mails[r]
         /\ \A l \in Leads : rundowns'[l] = IF l = Lead(p) /\ w[p].kind = "rundown"
                                              THEN rundowns[l] + 1 ELSE rundowns[l]
<1>1. w[p].reply \in Replies /\ Lead(p) \in Leads
  BY ConstantFacts DEF Typed, TypeOK, PollShape, Lead, Busy
<1> QED
  BY <1>1 DEF Delivered, Typed, TypeOK

LEMMA MailLeadStep ==
  ASSUME Typed, NEW p \in Pollers, MailLead(p)
  PROVE  Sound(p)
<1> DEFINE where == IF w[p].kind \in {"rundown", "times"} THEN "fyi" ELSE "commit"
           k == [w[p] EXCEPT !.row = (w[p].kind = "rundown")]
<1>1. /\ pc[p] = "mail" /\ pc[p] \in Busy /\ Delivered(p)
      /\ pc' = [pc EXCEPT ![p] = where] /\ w' = [w EXCEPT ![p] = k]
      /\ UNCHANGED <<arrived, filed, leadState, offered, briefed, suppressed, broken, org, todo, inbox,
                     copy, told, offers, shared, noSlots, faults, cuts>>
  BY DEF MailLead, Goto, db, Busy
<1>2. w[p] \in Works
  BY DEF Typed, TypeOK
<1>3. k \in Works /\ k.reply = w[p].reply
  BY <1>2 DEF Works
<1>4. where \in Busy \union {"poll"} /\ where # "poll"
  BY DEF Busy
<1>5. copy' \in [Pollers -> [Leads -> [state: LeadState \union {None}, offered: BOOLEAN]]]
  BY <1>1 DEF Typed, TypeOK
<1>6. PollsTyped' /\ PollShape(p)' /\ Aside(p) /\ pc'[p] = where /\ w'[p] = k
  <2> HIDE DEF k, where
  <2> QED
    BY <1>1, <1>3, <1>4, <1>5, BusyTyping
<1>7. /\ mails' \in [Replies -> Nat] /\ rundowns' \in [Leads -> Nat]
      /\ \A r \in Replies : mails'[r] = IF r = w[p].reply THEN mails[r] + 1 ELSE mails[r]
      /\ \A l \in Leads : rundowns'[l] = IF l = Lead(p) /\ w[p].kind = "rundown"
                                           THEN rundowns[l] + 1 ELSE rundowns[l]
  BY <1>1, DeliveredCounts
<1>8. DatabaseTyped' /\ MailTyped'
  BY <1>1, <1>7, SameTyped DEF MailTyped, Typed, TypeOK
<1>9. Sends(p)
  BY <1>1, <1>6, <1>7 DEF Sends
<1> QED
  BY <1>6, <1>8, <1>9, TypedAgain DEF Sound, PollStep

LEMMA MailFailsStep ==
  ASSUME Typed, NEW p \in Pollers, MailFails(p)
  PROVE  Sound(p)
<1> DEFINE where == IF w[p].kind = "ack" THEN "commit" ELSE "tell"
<1>1. /\ pc[p] = "mail" /\ pc[p] \in Busy /\ Fault("mail")
      /\ pc' = [pc EXCEPT ![p] = where]
      /\ UNCHANGED <<arrived, filed, leadState, offered, briefed, suppressed, broken, org, todo, inbox,
                     copy, w, told, offers, shared, noSlots, cuts>>
  BY DEF MailFails, Goto, db, Busy
<1>2. w[p] \in Works /\ w' = [w EXCEPT ![p] = w[p]]
  BY <1>1 DEF Typed, TypeOK
<1>3. where \in Busy \union {"poll"} /\ where # "poll"
  BY DEF Busy
<1>4. copy' \in [Pollers -> [Leads -> [state: LeadState \union {None}, offered: BOOLEAN]]]
  BY <1>1 DEF Typed, TypeOK
<1>5. PollsTyped' /\ PollShape(p)' /\ Aside(p) /\ pc'[p] = where /\ w'[p] = w[p]
  <2> HIDE DEF where
  <2> QED
    BY <1>1, <1>2, <1>3, <1>4, BusyTyping
<1>6. DatabaseTyped'
  BY <1>1, SameTyped
<1>7. faults' = faults + 1 /\ faults' \in 0..MaxFaults /\ cuts' \in 0..faults'
  <2>1. faults \in Nat /\ cuts \in Nat /\ cuts <= faults /\ faults < MaxFaults /\ MaxFaults \in Nat
        /\ faults' = faults + 1
    BY <1>1, ConstantFacts DEF Typed, TypeOK, Fault
  <2> QED
    BY <1>1, <2>1
<1>8. CASE Delivered(p)
  <2>1. /\ mails' \in [Replies -> Nat] /\ rundowns' \in [Leads -> Nat]
        /\ \A r \in Replies : mails'[r] = IF r = w[p].reply THEN mails[r] + 1 ELSE mails[r]
        /\ \A l \in Leads : rundowns'[l] = IF l = Lead(p) /\ w[p].kind = "rundown"
                                             THEN rundowns[l] + 1 ELSE rundowns[l]
    BY <1>1, <1>8, DeliveredCounts
  <2>2. MailTyped'
    BY <1>1, <1>7, <2>1 DEF MailTyped, Typed, TypeOK
  <2>3. Sends(p)
    BY <1>1, <1>5, <1>7, <2>1 DEF Sends
  <2> QED
    BY <1>5, <1>6, <2>2, <2>3, TypedAgain DEF Sound, PollStep
<1>9. CASE UNCHANGED <<mails, rundowns>>
  <2>1. MailTyped'
    BY <1>1, <1>7, <1>9 DEF MailTyped, Typed, TypeOK
  <2>2. GoesOn(p)
    BY <1>1, <1>5, <1>7, <1>9 DEF GoesOn
  <2> QED
    BY <1>5, <1>6, <2>1, <2>2, TypedAgain DEF Sound, PollStep
<1> QED
  BY <1>8, <1>9 DEF MailFails

LEMMA MailRepStep ==
  ASSUME Typed, NEW p \in Pollers, MailRep(p)
  PROVE  Sound(p)
<1> DEFINE where == IF pc[p] = "ask" THEN "mail" ELSE "commit"
<1>1. /\ pc[p] \in {"ask", "fyi", "tell"} /\ pc[p] \in Busy
      /\ told' = told \union {w[p].reply} /\ pc' = [pc EXCEPT ![p] = where]
      /\ UNCHANGED <<arrived, filed, leadState, offered, briefed, suppressed, broken, org, todo, inbox,
                     copy, w, mails, offers, rundowns, shared, noSlots, faults, cuts>>
  BY DEF MailRep, Goto, db, Busy
<1>2. w[p] \in Works /\ w' = [w EXCEPT ![p] = w[p]] /\ w[p].reply \in Replies
  BY <1>1 DEF Typed, TypeOK, PollShape
<1>3. where \in Busy \union {"poll"} /\ where # "poll"
  BY DEF Busy
<1>4. copy' \in [Pollers -> [Leads -> [state: LeadState \union {None}, offered: BOOLEAN]]]
  BY <1>1 DEF Typed, TypeOK
<1>5. PollsTyped' /\ PollShape(p)' /\ Aside(p) /\ pc'[p] = where /\ w'[p] = w[p]
  <2> HIDE DEF where
  <2> QED
    BY <1>1, <1>2, <1>3, <1>4, BusyTyping
<1>6. DatabaseTyped' /\ MailTyped'
  BY <1>1, <1>2, SameTyped DEF MailTyped, Typed, TypeOK
<1>7. GoesOn(p)
  BY <1>1, <1>5 DEF GoesOn
<1> QED
  BY <1>5, <1>6, <1>7, TypedAgain DEF Sound, PollStep

LEMMA MailRepFailsStep ==
  ASSUME Typed, NEW p \in Pollers, MailRepFails(p)
  PROVE  Sound(p)
<1>1. /\ pc[p] \in {"ask", "fyi", "tell"} /\ pc[p] \in Busy /\ Fault("notify")
      /\ cuts' \in {cuts, cuts + 1}
      /\ UNCHANGED <<arrived, filed, leadState, offered, briefed, suppressed, broken, mails, told,
                     offers, rundowns, shared, noSlots>>
  BY DEF MailRepFails, db, mail, Busy, Cut
<1>2. DatabaseTyped' /\ MailTyped' /\ faults' = faults + 1
  BY <1>1, SameTyped DEF Fault
<1>3. CASE pc[p] = "fyi"
  <2>1. pc' = [pc EXCEPT ![p] = "tell"] /\ UNCHANGED <<org, todo, inbox, copy, w, cuts>>
    BY <1>3 DEF MailRepFails, Goto
  <2>2. w[p] \in Works /\ w' = [w EXCEPT ![p] = w[p]]
    BY <2>1 DEF Typed, TypeOK
  <2>3. "tell" \in Busy \union {"poll"} /\ "tell" # "poll"
    BY DEF Busy
  <2>4. copy' \in [Pollers -> [Leads -> [state: LeadState \union {None}, offered: BOOLEAN]]]
    BY <2>1 DEF Typed, TypeOK
  <2>5. PollsTyped' /\ PollShape(p)' /\ Aside(p) /\ pc'[p] = "tell" /\ w'[p] = w[p]
    BY <1>1, <2>1, <2>2, <2>3, <2>4, BusyTyping
  <2>6. GoesOn(p)
    BY <1>1, <1>2, <1>3, <2>1, <2>5 DEF GoesOn
  <2> QED
    BY <1>2, <2>5, <2>6, TypedAgain DEF Sound, PollStep
<1>4. CASE pc[p] # "fyi"
  <2>1. Leave(p, "idle") /\ cuts' = cuts + 1
    BY <1>4 DEF MailRepFails, Cut
  <2> QED
    BY <1>1, <1>2, <2>1, DropStep
<1> QED
  BY <1>3, <1>4

LEMMA TokenRevokedStep ==
  ASSUME Typed, NEW p \in Pollers, TokenRevoked(p)
  PROVE  Sound(p)
<1>1. /\ pc[p] \in {"slots", "mail", "poll"} /\ (pc[p] = "poll" => pc[p] \in Resting)
      /\ ~Conflict(p) /\ Fault("revoked") /\ cuts' = cuts + 1
      /\ Flush(p, w[p].to) /\ broken' = broken \union {org[p]}
      /\ AfterOrg(p, org[p]) \/ Leave(p, "idle")
      /\ UNCHANGED <<arrived, offered, mails, told, offers, rundowns, shared, noSlots>>
  BY DEF TokenRevoked, UsesToken, Looking, mail, Cut, Resting
<1>2. org[p] \in Orgs /\ org[p] \in Nat
  BY <1>1, ConstantFacts DEF Typed, PollShape
<1>3. PollsTyped' /\ PollShape(p)' /\ Aside(p) /\ pc'[p] \in Resting /\ w'[p] = NoWork /\ Renewed(p)
  BY <1>1, <1>2, AfterOrgTyping, LeaveTyping
<1>4. faults' = faults + 1 /\ faults \in Int /\ cuts \in Int
  BY <1>1 DEF Fault, Typed, TypeOK
<1>5. MailTyped'
  <2>1. faults \in Nat /\ cuts \in Nat /\ cuts <= faults /\ faults < MaxFaults /\ MaxFaults \in Nat
    BY <1>1, ConstantFacts DEF Typed, TypeOK, Fault
  <2>2. faults' \in 0..MaxFaults /\ cuts' \in 0..faults'
    BY <1>1, <1>4, <2>1
  <2> QED
    BY <1>1, <2>2 DEF Typed, TypeOK, MailTyped
<1>6. CASE pc[p] = "poll"
  <2>1. w[p] = NoWork
    BY <1>6 DEF Typed, PollShape, Resting
  <2>2. UNCHANGED <<filed, leadState, suppressed, briefed>>
    BY <1>1, <2>1, NoWorkTyped DEF Flush
  <2>3. DatabaseTyped'
    BY <1>1, <1>2, <2>2 DEF DatabaseTyped, Typed, TypeOK
  <2>4. LooksOn(p)
    BY <1>1, <1>3, <1>4, <1>6, <2>2 DEF LooksOn, Stands
  <2> QED
    BY <1>3, <1>5, <2>3, <2>4, TypedAgain DEF Sound, PollStep
<1>7. CASE pc[p] \in {"slots", "mail"}
  <2>1. pc[p] \in Busy /\ w[p].to \in LeadState \union {None}
    BY <1>7 DEF Busy, Typed, TypeOK, Works
  <2>2. /\ Writes(p, w[p].to)
        /\ filed' \in [Replies -> Category \union {"no", "RECORDED"}]
        /\ leadState' \in [Leads -> LeadState]
        /\ suppressed' \subseteq Leads /\ briefed' \subseteq Leads
    BY <1>1, <2>1, FlushWrites
  <2>3. DatabaseTyped'
    BY <1>1, <1>2, <2>2 DEF DatabaseTyped, Typed, TypeOK
  <2>4. BreaksOff(p)
    BY <1>1, <1>3, <1>4, <1>7, <2>2 DEF BreaksOff
  <2> QED
    BY <1>3, <1>5, <2>3, <2>4, TypedAgain DEF Sound, PollStep
<1> QED
  BY <1>1, <1>6, <1>7

LEMMA CrashStep ==
  ASSUME Typed, Crash
  PROVE  Typed' /\ Dies
<1>1. /\ Fault("crash") /\ cuts' = cuts + 1
      /\ UNCHANGED <<arrived, filed, leadState, offered, briefed, suppressed, broken, mails, told,
                     offers, rundowns, shared, noSlots>>
  BY DEF Crash, db, mail, Cut
<1>2. DatabaseTyped' /\ MailTyped' /\ faults' = faults + 1
  BY <1>1, SameTyped DEF Fault
<1>3. \A p \in Pollers : /\ pc'[p] = "idle" /\ org'[p] = None /\ todo'[p] = {} /\ inbox'[p] = {}
                         /\ w'[p] = NoWork /\ copy'[p] = NoCopy
  BY DEF Crash
<1>4. PollsTyped'
  BY NoWorkTyped DEF Crash, PollsTyped, Resting, NoCopy
<1>5. \A p \in Pollers : PollShape(p)'
  BY <1>3 DEF PollShape, Busy
<1>6. Dies
  BY <1>1, <1>2, <1>3 DEF Dies, Stands
<1> QED
  BY <1>2, <1>4, <1>5, <1>6, TypeParts DEF Typed, DatabaseTyped, PollsTyped, MailTyped, TypeOK, Resting, Busy

LEMMA OutsideStep ==
  ASSUME Typed,
         \/ \E r \in Replies : Arrive(r)
         \/ \E o \in Orgs : Reconnect(o)
         \/ \E l \in Leads : RepDecides(l)
         \/ UNCHANGED vars
  PROVE  Typed' /\ Outside
<1>1. /\ UNCHANGED <<filed, offered, briefed, suppressed, pc, org, todo, inbox, copy, w, mails, told,
                     offers, rundowns, shared, noSlots, faults, cuts>>
      /\ arrived \subseteq arrived' /\ arrived' \subseteq Replies
      /\ broken' \subseteq broken
  BY DEF Arrive, Reconnect, RepDecides, vars, db, poll, mail, Typed, TypeOK
<1>2. Outside
  BY <1>1 DEF Outside, Arrive, Reconnect, RepDecides, vars, db
<1>3. leadState' \in [Leads -> LeadState]
  BY <1>2 DEF Outside, Typed, TypeOK, LeadState, TRIAGEABLE_STATES
<1>4. TypeOK'
  BY <1>1, <1>3 DEF Typed, TypeOK
<1>5. \A p \in Pollers : PollShape(p)'
  BY <1>1 DEF Typed, PollShape, Lead
<1> QED
  BY <1>2, <1>4, <1>5 DEF Typed

(* Whatever happens is of one of the kinds. *)
LEMMA StepKinds ==
  ASSUME Typed, [Next]_vars
  PROVE  Typed' /\ AnyStep
<1>1. ASSUME NEW p \in Pollers, Step(p) \/ Fails(p) \/ TokenRefreshed(p)
      PROVE  Sound(p)
  <2>1. CASE Step(p)
    BY <2>1, StartStep, EndPollStep, ListStep, TakeStep, BookStep, SlotsFoundStep, MailLeadStep,
       MailRepStep, CommitStep, ExceptionStep DEF Step
  <2>2. CASE Fails(p)
    BY <2>2, ListStep, ExceptionStep, SlotsMissingStep, MailFailsStep, MailRepFailsStep,
       TokenRevokedStep DEF Fails
  <2> QED
    BY <1>1, <2>1, <2>2, TokenRefreshedStep
<1>2. CASE \E p \in Pollers : Step(p) \/ Fails(p) \/ TokenRefreshed(p)
  BY <1>1, <1>2 DEF Sound, AnyStep
<1>3. CASE SendPhase
  BY <1>3, SendPhaseStep DEF Sound, AnyStep
<1>4. CASE Crash
  BY <1>4, CrashStep DEF AnyStep
<1>5. CASE (\E r \in Replies : Arrive(r)) \/ (\E o \in Orgs : Reconnect(o))
             \/ (\E l \in Leads : RepDecides(l)) \/ UNCHANGED vars
  BY <1>5, OutsideStep DEF AnyStep
<1> QED
  BY <1>2, <1>3, <1>4, <1>5 DEF Next

LEMMA TypedInit == Init => Typed
<1> SUFFICES ASSUME Init PROVE Typed
  OBVIOUS
<1>1. leadState \in [Leads -> LeadState]
  BY DEF Init, LeadState, TRIAGEABLE_STATES
<1>2. TypeOK
  BY <1>1, NoWorkTyped, ConstantFacts DEF Init, TypeOK, NoCopy
<1>3. \A p \in Pollers : PollShape(p)
  BY DEF Init, PollShape, Busy
<1> QED
  BY <1>2, <1>3 DEF Typed

(* Every variable keeps to its type, and what a poll holds to the reply it   *)
(* is about, whatever fails: the first invariant of the poll.                *)
THEOREM Typing == Spec => []Typed
<1>1. Typed /\ [Next]_vars => Typed'
  BY StepKinds
<1> QED
  BY TypedInit, <1>1, PTL DEF Spec

-----------------------------------------------------------------------------
(* Invariants, for polls side by side *)

(* A reply that is filed as an opt-out is of a lead on the list, and one     *)
(* that is about to be brings its row for the list along.                    *)
ListedInv ==
  /\ OptOutIsListed
  /\ \A p \in Pollers : pc[p] \in Busy /\ w[p].open /\ w[p].cat \in OptOuts
       => w[p].supp \/ Lead(p) \in suppressed

(* Polls whose copy of the lead does not know of the times offered to it.    *)
Stale(l) == {p \in Pollers : copy[p][l].state # None /\ ~copy[p][l].offered}

OfferInv ==
  /\ \A l \in Leads : /\ l \notin offered => offers[l] = 0
                      /\ offers[l] + Cardinality(Stale(l)) <= Cardinality(Pollers)
  /\ \A p \in Pollers : pc[p] = "slots" => p \in Stale(Lead(p))

(* What the session of a busy poll may hold: once its part is committed the  *)
(* row of the reply says what the poll made of it.                           *)
SessionInv == \A p \in Pollers : pc[p] \in Busy =>
  /\ w[p].cat # "no"
  /\ ~w[p].open => filed[w[p].reply] = w[p].cat
  /\ w[p].supp => pc[p] = "commit" /\ w[p].cat \in OptOuts /\ w[p].open

(* Polls that may still mail an answer to r, and those that may have and     *)
(* have not committed or lost it.                                            *)
MayMail(r) == {p \in Pollers : pc[p] \in {"book", "slots", "ask", "mail"} /\ w[p].reply = r}
Mailed(r) == {p \in Pollers : /\ pc[p] \in {"fyi", "tell", "commit"} /\ ~w[p].supp
                              /\ w[p].reply = r}

AnswerInv == \A r \in Replies :
  /\ filed[r] = "no" => mails[r] <= Cardinality(Mailed(r)) + Cardinality(Pollers) * cuts
  /\ mails[r] + Cardinality(MayMail(r)) <= Cardinality(Pollers) + Cardinality(Pollers) * cuts

(* A reply that two polls never had at hand together is at hand in one poll  *)
(* at most; a mail about it beyond one for each cut is the mail of that poll *)
(* or has been filed, and then nobody is still to mail.                      *)
OnceInv == \A r \in Replies \ shared :
  /\ \A p, q \in Pollers : w[p].reply = r /\ w[q].reply = r => p = q
  /\ mails[r] <= 1 + cuts
  /\ filed[r] = "no" /\ Mailed(r) = {} => mails[r] <= cuts
  /\ MayMail(r) # {} => mails[r] <= cuts

(* Filed replies that call for an answer and have none, and that no poll     *)
(* which committed its part is still at.                                     *)
Answerable == {"SLOT_SELECTED", "QUESTION", "MEETING", "CURIOUS", "COMPLEX"}
InWork(r) == \E p \in Pollers : pc[p] \in Busy /\ w[p].reply = r /\ ~w[p].open
Lost == {r \in Replies : filed[r] \in Answerable /\ mails[r] = 0 /\ r \notin told /\ ~InWork(r)}

LossInv ==
  /\ IsFiniteSet(Lost) /\ Cardinality(Lost) <= Cardinality(Pollers) * cuts
  /\ \A p \in Pollers :
       /\ pc[p] = "commit" /\ w[p].cat \in Answerable => mails[w[p].reply] > 0 \/ w[p].reply \in told
       /\ pc[p] = "mail" /\ w[p].kind = "ack" => w[p].reply \in told
       /\ pc[p] = "slots" => w[p].kind = "times"

-----------------------------------------------------------------------------
(* Invariants, for one poll at a time *)

SolePoller == \A p, q \in Pollers : p = q

(* Nothing changes behind a poll's back: no commit collides. *)
FreshInv == \A p \in Pollers : pc[p] \in Busy =>
  /\ w[p].open => filed[w[p].reply] = "no"
  /\ w[p].supp => Lead(p) \notin suppressed

(* A rundown goes to a lead that has no row of one; the row, or a failure,   *)
(* accounts for it.                                                          *)
RundownInv ==
  /\ \A p \in Pollers : pc[p] \in Busy =>
       /\ pc[p] = "mail" /\ w[p].kind = "rundown" => Lead(p) \notin briefed /\ ~w[p].row
       /\ w[p].row => w[p].kind = "rundown" /\ pc[p] \in {"fyi", "tell", "commit"}
       /\ pc[p] = "slots" => w[p].kind = "times"
       /\ pc[p] = "ask" \/ pc[p] = "book" => w[p].kind = "ack"
  /\ \A l \in Leads :
       rundowns[l] <= faults + (IF l \in briefed \/ \E p \in Pollers : w[p].row /\ Lead(p) = l
                                  THEN 1 ELSE 0)

(* A lead on the list has opted out, in the tables and in memory, and the    *)
(* poll is at most about to file a reply of it.                              *)
Gone == {"UNSUBSCRIBED", "NOT_INTERESTED"}
GoneInv ==
  /\ \A l \in suppressed :
       /\ leadState[l] \in Gone
       /\ \A p \in Pollers : copy[p][l].state \in Gone \union {None}
  /\ \A p \in Pollers : pc[p] \in Busy =>
       /\ Lead(p) \in suppressed => pc[p] = "commit" /\ w[p].to = None
       /\ w[p].supp => w[p].to \in Gone /\ copy[p][Lead(p)].state \in Gone

(* What the poll believes of a lead is so, or a booking was decided since;   *)
(* what it is about to write is a move from what the table says.             *)
BeliefInv == \A p \in Pollers :
  /\ \A l \in Leads :
       \/ copy[p][l].state \in {None, leadState[l], "AWAITING_APPROVAL"}
       \/ pc[p] \in Busy /\ l = Lead(p) /\ w[p].to # None
  /\ pc[p] \in Busy /\ w[p].to # None =>
       /\ leadState[Lead(p)] # "AWAITING_APPROVAL"
       /\ copy[p][Lead(p)].state = w[p].to
       /\ Life!MayMove(leadState[Lead(p)], w[p].to)
  /\ pc[p] = "slots" => w[p].to = None /\ copy[p][Lead(p)].state \in Uncommitted

-----------------------------------------------------------------------------
(* What every step keeps *)

LEMMA SessionFacts ==
  ASSUME Typed, NEW p \in Pollers
  PROVE  /\ w[p] \in Works /\ w[p].open \in BOOLEAN /\ w[p].supp \in BOOLEAN /\ w[p].row \in BOOLEAN
         /\ pc[p] \in Busy => w[p].reply \in Replies /\ Lead(p) \in Leads /\ LeadOrg[Lead(p)] = org[p]
         /\ pc[p] \in Resting => w[p] = NoWork
         /\ pc[p] \in Resting \union Busy
<1>1. w[p] \in Works
  BY DEF Typed, TypeOK
<1>2. w[p].open \in BOOLEAN /\ w[p].supp \in BOOLEAN /\ w[p].row \in BOOLEAN
  BY <1>1 DEF Works
<1>3. pc[p] \in Busy => w[p].reply \in Replies /\ Lead(p) \in Leads /\ LeadOrg[Lead(p)] = org[p]
  BY ConstantFacts DEF Typed, PollShape, Lead
<1> QED
  BY <1>1, <1>2, <1>3 DEF Typed, TypeOK, PollShape, Resting, Busy

(* What is filed stays filed as it was, who is on the list stays there, and  *)
(* what has left has left.                                                   *)
LEMMA Monotone ==
  ASSUME Typed, AnyStep
  PROVE  /\ \A r \in Replies : filed[r] # "no" => filed'[r] = filed[r]
         /\ suppressed \subseteq suppressed' /\ briefed \subseteq briefed' /\ told \subseteq told'
         /\ \A r \in Replies : mails'[r] >= mails[r]
<1>1. \A r \in Replies : mails[r] \in Nat
  BY DEF Typed, TypeOK
<1>2. ASSUME NEW p \in Pollers, NEW to, Writes(p, to)
      PROVE  /\ \A r \in Replies : filed[r] # "no" => filed'[r] = filed[r]
             /\ suppressed \subseteq suppressed' /\ briefed \subseteq briefed' /\ told' = told
             /\ mails' = mails
  BY <1>2 DEF Writes, Conflict
<1>3. ASSUME NEW p \in Pollers, PollStep(p)
      PROVE  /\ \A r \in Replies : filed[r] # "no" => filed'[r] = filed[r]
             /\ suppressed \subseteq suppressed' /\ briefed \subseteq briefed' /\ told \subseteq told'
             /\ \A r \in Replies : mails'[r] >= mails[r]
  <2>1. CASE Saves(p) \/ OffersTimes(p) \/ Closes(p) \/ BreaksOff(p)
    BY <1>1, <1>2, <2>1 DEF Saves, OffersTimes, Closes, BreaksOff
  <2>2. CASE Sends(p)
    BY <1>1, <2>2 DEF Sends
  <2>3. CASE GoesOn(p)
    BY <1>1, <2>3 DEF GoesOn
  <2>4. CASE LooksOn(p) \/ (\E r \in Replies : TakesUp(p, r)) \/ Drops(p)
    BY <1>1, <2>4 DEF LooksOn, TakesUp, Drops, Stands
  <2> QED
    BY <1>3, <2>1, <2>2, <2>3, <2>4 DEF PollStep
<1>4. CASE Dies
  BY <1>1, <1>4 DEF Dies, Stands
<1>5. CASE Outside
  BY <1>1, <1>5 DEF Outside
<1> QED
  BY <1>3, <1>4, <1>5 DEF AnyStep

(* While a reply is at work its session stays about it, and can only have    *)
(* less to commit.                                                           *)
LEMMA WorkCarries ==
  ASSUME Typed, NEW p \in Pollers, PollStep(p), pc[p] \in Busy, pc'[p] \in Busy
  PROVE  /\ w'[p].reply = w[p].reply /\ w'[p].cat = w[p].cat /\ w'[p].kind = w[p].kind
         /\ w'[p].open => w[p].open /\ w'[p].supp = w[p].supp
         /\ ~w'[p].open /\ w[p].open => filed'[w[p].reply] = w[p].cat
         /\ w'[p].supp => w[p].supp /\ w'[p].open = w[p].open
<1>1. w[p] \in Works /\ w[p].reply \in Replies
  BY SessionFacts
<1>2. CASE Saves(p) \/ OffersTimes(p)
  BY <1>1, <1>2, FlushedWork DEF Saves, OffersTimes, Writes
<1>3. CASE Sends(p)
  <2>1. w'[p] = w[p] \/ w'[p] = [w[p] EXCEPT !.row = (w[p].kind = "rundown")]
    BY <1>3 DEF Sends
  <2> QED
    BY <1>1, <2>1 DEF Works
<1>4. CASE GoesOn(p)
  <2>1. w'[p] = w[p] \/ w'[p] = [w[p] EXCEPT !.to = "ENGAGED"]
    BY <1>4 DEF GoesOn
  <2> QED
    BY <1>1, <2>1 DEF Works
<1> QED
  BY <1>2, <1>3, <1>4 DEF PollStep, LooksOn, TakesUp, Closes, BreaksOff, Drops, Busy, Resting

(* How p's poll stands where it takes a reply up. *)
LEMMA TakenUp ==
  ASSUME Typed, NEW p \in Pollers, PollStep(p), pc[p] \notin Busy, pc'[p] \in Busy
  PROVE  \E r \in Replies : TakesUp(p, r)
<1>1. ~\E to : Writes(p, to)
  BY DEF Writes
<1>2. pc[p] \notin {"mail", "ask", "fyi", "tell", "slots"}
  BY DEF Busy
<1> QED
  BY <1>1, <1>2 DEF PollStep, LooksOn, Saves, OffersTimes, Closes, BreaksOff, Sends, GoesOn, Drops,
     Busy, Resting

LEMMA SessionStep ==
  ASSUME Typed, AnyStep, SessionInv
  PROVE  SessionInv'
<1> SUFFICES ASSUME NEW q \in Pollers, pc'[q] \in Busy
             PROVE  /\ w'[q].cat # "no"
                    /\ ~w'[q].open => filed'[w'[q].reply] = w'[q].cat
                    /\ w'[q].supp => pc'[q] = "commit" /\ w'[q].cat \in OptOuts /\ w'[q].open
  BY DEF SessionInv
<1>1. \A r \in Replies : filed[r] # "no" => filed'[r] = filed[r]
  BY Monotone
<1>2. CASE pc[q] \in Busy /\ w'[q] = w[q] /\ pc'[q] = pc[q]
  BY <1>1, <1>2, SessionFacts DEF SessionInv
<1>3. CASE Dies \/ Outside
  BY <1>2, <1>3 DEF Dies, Outside, Busy
<1>4. ASSUME NEW p \in Pollers, PollStep(p), q # p
      PROVE  pc[q] \in Busy /\ w'[q] = w[q] /\ pc'[q] = pc[q]
  BY <1>4 DEF PollStep, Aside
<1>5. CASE PollStep(q) /\ pc[q] \in Busy
  <2>1. /\ w[q].cat # "no"
        /\ ~w[q].open => filed[w[q].reply] = w[q].cat
        /\ w[q].supp => pc[q] = "commit" /\ w[q].cat \in OptOuts /\ w[q].open
    BY <1>5 DEF SessionInv
  <2>2. w[q].reply \in Replies
    BY <1>5, SessionFacts
  <2>3. /\ w'[q].reply = w[q].reply /\ w'[q].cat = w[q].cat
        /\ w'[q].open => w[q].open /\ w'[q].supp = w[q].supp
        /\ ~w'[q].open /\ w[q].open => filed'[w[q].reply] = w[q].cat
        /\ w'[q].supp => w[q].supp /\ w'[q].open = w[q].open
    BY <1>5, WorkCarries
  <2>4. pc[q] = "commit" => FALSE
    BY <1>5 DEF PollStep, LooksOn, TakesUp, Saves, OffersTimes, Closes, BreaksOff, Sends, GoesOn,
       Drops, Busy, Resting
  <2> QED
    BY <1>1, <2>1, <2>2, <2>3, <2>4
<1>6. CASE PollStep(q) /\ pc[q] \notin Busy
  BY <1>6, TakenUp DEF TakesUp, Begins, MayBeUnwritten, OptOuts
<1> QED
  BY <1>2, <1>3, <1>4, <1>5, <1>6 DEF AnyStep

LEMMA SessionInit == Init => SessionInv
BY DEF Init, SessionInv, Busy

(* A reply that is filed as an opt-out is of a suppressed lead.              *)
LEMMA ListedStep ==
  ASSUME Typed, AnyStep, SessionInv, ListedInv
  PROVE  ListedInv'
<1>1. \A r \in Replies : filed[r] # "no" => filed'[r] = filed[r]
  BY Monotone
<1>2. suppressed \subseteq suppressed'
  BY Monotone
<1>3. ASSUME NEW q \in Pollers, pc'[q] \in Busy, w'[q].open, w'[q].cat \in OptOuts
      PROVE  w'[q].supp \/ Lead(q)' \in suppressed'
  <2>1. CASE pc[q] \in Busy /\ w'[q] = w[q]
    BY <1>2, <1>3, <2>1 DEF ListedInv, Lead
  <2>2. CASE Dies \/ Outside
    BY <1>3, <2>1, <2>2 DEF Dies, Outside, Busy
  <2>3. ASSUME NEW p \in Pollers, PollStep(p), q # p
        PROVE  pc[q] \in Busy /\ w'[q] = w[q]
    BY <1>3, <2>3 DEF PollStep, Aside
  <2>4. CASE PollStep(q) /\ pc[q] \in Busy
    <3>1. w'[q].reply = w[q].reply /\ w'[q].cat = w[q].cat /\ w[q].open /\ w'[q].supp = w[q].supp
      BY <1>3, <2>4, WorkCarries
    <3> QED
      BY <1>2, <1>3, <2>4, <3>1 DEF ListedInv, Lead
  <2>5. CASE PollStep(q) /\ pc[q] \notin Busy
    <3>1. PICK r \in Replies : TakesUp(q, r)
      BY <1>3, <2>5, TakenUp
    <3>2. w'[q].supp <=> From[r] \notin suppressed
      BY <1>3, <3>1 DEF TakesUp, Begins, MayBeUnwritten, OptOuts
    <3>3. Lead(q)' = From[r]
      BY <3>1 DEF TakesUp, Lead
    <3> QED
      BY <1>2, <3>2, <3>3
  <2> QED
    BY <2>1, <2>2, <2>3, <2>4, <2>5 DEF AnyStep
<1>4. ASSUME NEW r \in Replies, filed'[r] \in OptOuts
      PROVE  From[r] \in suppressed'
  <2>1. CASE filed[r] \in OptOuts
    BY <1>2, <2>1 DEF ListedInv, OptOutIsListed, OptOuts
  <2>2. CASE filed[r] \notin OptOuts
    <3>1. filed'[r] # filed[r]
      BY <1>4, <2>2
    <3>2. PICK p \in Pollers : \E to : Writes(p, to)
      BY <3>1 DEF AnyStep, Dies, Outside, PollStep, LooksOn, TakesUp, Sends, GoesOn, Drops, Stands,
         Saves, OffersTimes, Closes, BreaksOff
    <3>3. w[p].open /\ r = w[p].reply /\ w[p].cat \in OptOuts /\ pc[p] \in Busy
      BY <1>4, <3>1, <3>2 DEF Writes
    <3>4. w[p].supp \/ Lead(p) \in suppressed
      BY <3>3 DEF ListedInv
    <3> QED
      BY <1>2, <3>2, <3>3, <3>4 DEF Writes, Lead
  <2> QED
    BY <2>1, <2>2
<1> QED
  BY <1>3, <1>4 DEF ListedInv, OptOutIsListed, OptOuts

(* A lead whose opt-out is filed is on the do-not-contact list, whatever     *)
(* another poll does to the lead's row meanwhile and whatever fails.         *)
THEOREM OptOutsAreListed == Spec => []OptOutIsListed
<1> DEFINE Inv == Typed /\ SessionInv /\ ListedInv
<1>1. Init => Inv
  BY TypedInit, SessionInit DEF Init, ListedInv, OptOutIsListed, Busy
<1>2. Inv /\ [Next]_vars => Inv'
  BY StepKinds, SessionStep, ListedStep
<1>3. Inv => OptOutIsListed
  BY DEF ListedInv
<1> QED
  BY <1>1, <1>2, <1>3, PTL DEF Spec

-----------------------------------------------------------------------------
(* Times are offered once *)

LEMMA StaleFacts ==
  ASSUME Typed
  PROVE  \A l : /\ Stale(l) \subseteq Pollers /\ IsFiniteSet(Stale(l))
                /\ Cardinality(Stale(l)) \in Nat /\ Cardinality(Stale(l)) <= Cardinality(Pollers)
                /\ Cardinality(Pollers) \in Nat
BY PollerAssumption, FS_Subset, FS_CardinalityType DEF Stale

(* Copies of records: the state is replaced, the rest kept.                  *)
LEMMA CopyState ==
  ASSUME Typed, NEW p \in Pollers, NEW l \in Leads, NEW s \in LeadState
  PROVE  /\ [copy[p][l] EXCEPT !.state = s].state = s
         /\ [copy[p][l] EXCEPT !.state = s].offered = copy[p][l].offered
         /\ copy[p][l].offered \in BOOLEAN
         /\ copy[p][l].state \in LeadState \union {None}
<1>1. copy[p][l] \in [state: LeadState \union {None}, offered: BOOLEAN]
  BY DEF Typed, TypeOK
<1> QED
  BY <1>1

(* When a poll takes a reply up its copy of the lead is changed in its state *)
(* only, and that was known.                                                 *)
LEMMA TakenCopy ==
  ASSUME Typed, NEW p \in Pollers, NEW r \in Replies, TakesUp(p, r), NEW l \in Leads
  PROVE  /\ copy'[p][l].offered = copy[p][l].offered
         /\ copy'[p][l].state # None <=> copy[p][l].state # None
         /\ copy'[p][l].state = IF l = From[r] /\ w'[p].to # None THEN w'[p].to ELSE copy[p][l].state
         /\ pc'[p] = "slots" => /\ copy'[p][From[r]].state \in Uncommitted
                                /\ ~copy'[p][From[r]].offered /\ w'[p].to = None
<1>1. PICK k \in Works : k = w'[p] /\ Begins(p, r, pc'[p], k)
  BY DEF TakesUp
<1>2. From[r] \in Leads /\ None \notin LeadState
  BY ConstantFacts
<1>3. k.to # None => k.to \in LeadState
  BY DEF Works
<1>4. k.to # None => copy[p][From[r]].state # None
  BY <1>1, <1>2 DEF Begins, Me, LeadState, TRIAGEABLE_STATES, Uncommitted
<1>5. pc'[p] = "slots" => k.to = None /\ copy[p][From[r]].state \in Uncommitted /\ ~copy[p][From[r]].offered
  BY <1>1 DEF Begins, Me
<1>6. copy'[p][l] = IF l = From[r] /\ k.to # None THEN [copy[p][l] EXCEPT !.state = k.to]
                                                  ELSE copy[p][l]
  BY <1>1 DEF TakesUp
<1>7. copy'[p][From[r]] = IF k.to # None THEN [copy[p][From[r]] EXCEPT !.state = k.to]
                                         ELSE copy[p][From[r]]
  BY <1>1, <1>2 DEF TakesUp
<1> QED
  BY <1>1, <1>2, <1>3, <1>4, <1>5, <1>6, <1>7, CopyState

(* A poll becomes stale about a lead only where none has been offered times. *)
LEMMA StaleNews ==
  ASSUME Typed, OfferInv, NEW p \in Pollers, PollStep(p), NEW l \in Leads, p \in Stale(l)'
  PROVE  (p \in Stale(l) /\ ~(OffersTimes(p) /\ l = Lead(p))) \/ (l \notin offered /\ ~OffersTimes(p))
<1>1. copy'[p][l].state # None /\ ~copy'[p][l].offered
  BY DEF Stale
<1>2. CASE OffersTimes(p)
  BY <1>1, <1>2 DEF OffersTimes, Stale
<1>3. CASE ~OffersTimes(p) /\ copy'[p] = copy[p]
  BY <1>1, <1>3 DEF Stale
<1>4. CASE ~OffersTimes(p) /\ Renewed(p)
  <2>1. NoCopy[l].state = None
    BY DEF NoCopy
  <2>2. copy'[p][l] = [state |-> leadState[l], offered |-> l \in offered]
    BY <1>1, <1>4, <2>1 DEF Renewed
  <2>3. copy'[p][l].offered = (l \in offered)
    BY <2>2
  <2> QED
    BY <1>1, <1>4, <2>3
<1>5. ASSUME ~OffersTimes(p), NEW r \in Replies, TakesUp(p, r)
      PROVE  p \in Stale(l)
  BY <1>1, <1>5, TakenCopy DEF Stale
<1>6. CASE ~OffersTimes(p) /\ GoesOn(p) /\ copy'[p] # copy[p]
  <2>1. /\ pc[p] = "slots"
        /\ copy'[p][l] = IF l = Lead(p) THEN [copy[p][l] EXCEPT !.state = "ENGAGED"] ELSE copy[p][l]
    BY <1>6 DEF GoesOn
  <2>2. p \in Stale(Lead(p))
    BY <2>1 DEF OfferInv
  <2>3. CASE l = Lead(p)
    BY <1>6, <2>2, <2>3
  <2>4. CASE l # Lead(p)
    BY <1>1, <1>6, <2>1, <2>4 DEF Stale
  <2> QED
    BY <2>3, <2>4
<1> QED
  BY <1>2, <1>3, <1>4, <1>5, <1>6 DEF PollStep, LooksOn, Saves, Closes, BreaksOff, Sends, Drops

LEMMA OfferStep ==
  ASSUME Typed, AnyStep, OfferInv
  PROVE  OfferInv'
<1> DEFINE P == Cardinality(Pollers)
<1>1. IsFiniteSet(Pollers) /\ P \in Nat
  BY PollerAssumption, FS_CardinalityType
<1>2. ASSUME NEW l \in Leads
      PROVE  /\ l \notin offered' => offers'[l] = 0
             /\ offers'[l] + Cardinality(Stale(l)') <= P
  <2>1. /\ l \notin offered => offers[l] = 0
        /\ offers[l] + Cardinality(Stale(l)) <= P
        /\ offers[l] \in Nat
    BY DEF OfferInv, Typed, TypeOK
  <2>2. /\ IsFiniteSet(Stale(l)) /\ Cardinality(Stale(l)) \in Nat
        /\ Stale(l)' \subseteq Pollers
    BY StaleFacts DEF Stale
  <2>3. /\ IsFiniteSet(Stale(l)') /\ Cardinality(Stale(l)') \in Nat /\ Cardinality(Stale(l)') <= P
    BY <1>1, <2>2, FS_Subset, FS_CardinalityType
  <2>4. CASE Dies
    <3>1. Stale(l)' = {}
      BY <2>4 DEF Dies, Stale, NoCopy
    <3>2. Cardinality(Stale(l)') = 0
      BY <3>1, FS_EmptySet
    <3>3. offers' = offers /\ offered' = offered
      BY <2>4 DEF Dies, Stands
    <3> QED
      BY <1>1, <2>1, <2>2, <3>2, <3>3
  <2>5. CASE Outside
    <3>1. Stale(l)' = Stale(l)
      BY <2>5 DEF Outside, Stale
    <3> QED
      BY <2>1, <2>5, <3>1 DEF Outside
  <2>6. ASSUME NEW p \in Pollers, PollStep(p)
        PROVE  /\ l \notin offered' => offers'[l] = 0
               /\ offers'[l] + Cardinality(Stale(l)') <= P
    <3>1. Stale(l)' \ {p} = Stale(l) \ {p}
      BY <2>6 DEF PollStep, Aside, Stale
    <3>2. CASE OffersTimes(p) /\ l = Lead(p)
      <4>1. p \in Stale(l) /\ p \notin Stale(l)'
        BY <2>6, <3>2, StaleNews DEF OffersTimes, OfferInv
      <4>2. Stale(l)' = Stale(l) \ {p}
        BY <3>1, <4>1
      <4>3. Cardinality(Stale(l)') = Cardinality(Stale(l)) - 1
        BY <2>2, <4>1, <4>2, FS_RemoveElement
      <4>4. l \in offered' /\ offers'[l] = offers[l] + 1
        BY <3>2 DEF OffersTimes
      <4> QED
        BY <2>1, <2>2, <4>3, <4>4
    <3>3. CASE ~(OffersTimes(p) /\ l = Lead(p))
      <4>1. offers'[l] = offers[l] /\ (l \in offered' <=> l \in offered)
        BY <2>6, <3>3 DEF PollStep, LooksOn, TakesUp, Saves, OffersTimes, Closes, BreaksOff, Sends,
           GoesOn, Drops, Stands
      <4>2. CASE p \in Stale(l)' /\ p \notin Stale(l)
        <5>1. l \notin offered
          BY <2>6, <4>2, StaleNews
        <5> QED
          BY <1>1, <2>1, <2>3, <4>1, <5>1
      <4>3. CASE p \in Stale(l)' => p \in Stale(l)
        <5>1. Stale(l)' \subseteq Stale(l)
          BY <3>1, <4>3
        <5>2. Cardinality(Stale(l)') <= Cardinality(Stale(l))
          BY <2>2, <5>1, FS_Subset
        <5> QED
          BY <1>1, <2>1, <2>2, <2>3, <4>1, <5>2
      <4> QED
        BY <4>2, <4>3
    <3> QED
      BY <3>2, <3>3
  <2> QED
    BY <2>4, <2>5, <2>6 DEF AnyStep
<1>3. ASSUME NEW q \in Pollers, pc'[q] = "slots"
      PROVE  q \in (Stale(Lead(q)))'
  <2>1. CASE pc[q] = "slots" /\ w'[q].reply = w[q].reply /\ copy'[q] = copy[q]
    BY <2>1 DEF OfferInv, Stale, Lead
  <2>2. CASE Dies \/ Outside
    BY <1>3, <2>1, <2>2 DEF Dies, Outside
  <2>3. ASSUME NEW p \in Pollers, PollStep(p), q # p
        PROVE  pc[q] = "slots" /\ w'[q].reply = w[q].reply /\ copy'[q] = copy[q]
    BY <1>3, <2>3 DEF PollStep, Aside
  <2>4. CASE PollStep(q) /\ pc[q] \in Busy
    <3>1. Saves(q)
      BY <1>3, <2>4 DEF PollStep, LooksOn, TakesUp, OffersTimes, Closes, BreaksOff, Sends, GoesOn,
         Drops, Busy, Resting
    <3>2. pc[q] = "slots" /\ copy'[q] = copy[q] /\ w'[q] = Flushed(q)
      BY <1>3, <3>1 DEF Saves
    <3>3. w'[q].reply = w[q].reply
      BY <3>2, SessionFacts, FlushedWork
    <3> QED
      BY <2>1, <3>2, <3>3
  <2>5. CASE PollStep(q) /\ pc[q] \notin Busy
    <3>1. PICK r \in Replies : TakesUp(q, r)
      BY <1>3, <2>5, TakenUp DEF Busy
    <3>2. From[r] \in Leads /\ Lead(q)' = From[r]
      BY <3>1, ConstantFacts DEF TakesUp, Lead
    <3>3. copy'[q][From[r]].state \in Uncommitted /\ ~copy'[q][From[r]].offered
      BY <1>3, <3>1, <3>2, TakenCopy
    <3> QED
      BY <3>2, <3>3, ConstantFacts DEF Stale, Uncommitted, LeadState, TRIAGEABLE_STATES
  <2> QED
    BY <2>1, <2>2, <2>3, <2>4, <2>5 DEF AnyStep
<1> QED
  BY <1>2, <1>3 DEF OfferInv

(* A lead is offered times once, but for the polls that run side by side and *)
(* do not know of it yet; no failure makes the offer be repeated.            *)
THEOREM TimesAreOfferedOnce == Spec => []OfferedOnce
<1> DEFINE Inv == Typed /\ OfferInv
<1>1. Init => Inv
  <2> SUFFICES ASSUME Init PROVE OfferInv
    BY TypedInit
  <2>1. \A l \in Leads : Stale(l) = {} /\ offers[l] = 0
    BY DEF Init, Stale, NoCopy
  <2>2. Cardinality({}) = 0 /\ Cardinality(Pollers) \in Nat
    BY FS_EmptySet, FS_CardinalityType, PollerAssumption
  <2>3. \A l \in Leads : offers[l] = 0 /\ Cardinality(Stale(l)) = 0
    BY <2>1, <2>2
  <2>4. \A p \in Pollers : pc[p] # "slots"
    BY DEF Init
  <2> QED
    BY <2>2, <2>3, <2>4 DEF OfferInv
<1>2. Inv /\ [Next]_vars => Inv'
  BY StepKinds, OfferStep
<1>3. Inv => OfferedOnce
  <2> SUFFICES ASSUME Inv, NEW l \in Leads PROVE offers[l] <= Cardinality(Pollers)
    BY DEF OfferedOnce
  <2>1. offers[l] \in Nat /\ offers[l] + Cardinality(Stale(l)) <= Cardinality(Pollers)
    BY DEF OfferInv, Typed, TypeOK
  <2> QED
    BY <2>1, StaleFacts
<1> QED
  BY <1>1, <1>2, <1>3, PTL DEF Spec

-----------------------------------------------------------------------------
(* A reply is answered once, but for the failures that end a poll *)

(* What one failure that ends a poll adds to the bounds. *)
LEMMA CutBudget ==
  ASSUME Typed, AnyStep
  PROVE  /\ Cardinality(Pollers) * cuts \in Nat /\ Cardinality(Pollers) \in Nat
         /\ Cardinality(Pollers) >= 1
         /\ cuts' \in {cuts, cuts + 1}
         /\ Cardinality(Pollers) * (1 + cuts) = Cardinality(Pollers) + Cardinality(Pollers) * cuts
         /\ cuts' = cuts => Cardinality(Pollers) * cuts' = Cardinality(Pollers) * cuts
         /\ cuts' = cuts + 1
              => Cardinality(Pollers) * cuts' = Cardinality(Pollers) * cuts + Cardinality(Pollers)
<1>1. cuts \in Nat
  BY DEF Typed, TypeOK
<1>2. Cardinality(Pollers) \in Nat /\ Cardinality(Pollers) # 0
  BY PollerAssumption, FS_CardinalityType, FS_EmptySet
<1>3. cuts' \in {cuts, cuts + 1}
  BY DEF AnyStep, Dies, Outside, PollStep, LooksOn, TakesUp, Saves, OffersTimes, Closes, BreaksOff,
     Sends, GoesOn, Drops, Stands
<1> HIDE DEF AnyStep
<1>4. \A P, c \in Nat : P * (1 + c) = P + P * c /\ P * (c + 1) = P * c + P /\ P * c \in Nat
  OBVIOUS
<1> QED
  BY <1>1, <1>2, <1>3, <1>4

(* Two finite sets that agree but for one element. *)
LEMMA OneChanges ==
  ASSUME NEW S, NEW T, NEW p, IsFiniteSet(S), IsFiniteSet(T), S \ {p} = T \ {p}
  PROVE  /\ Cardinality(S) \in Nat /\ Cardinality(T) \in Nat
         /\ p \in S /\ p \notin T => Cardinality(T) = Cardinality(S) - 1
         /\ p \notin S /\ p \in T => Cardinality(T) = Cardinality(S) + 1
         /\ (p \in S <=> p \in T) => T = S /\ Cardinality(T) = Cardinality(S)
<1>1. Cardinality(S) \in Nat /\ Cardinality(T) \in Nat
  BY FS_CardinalityType
<1>2. ASSUME p \in S, p \notin T PROVE Cardinality(T) = Cardinality(S) - 1
  <2>1. T = S \ {p}
    BY <1>2
  <2> QED
    BY <1>2, <2>1, FS_RemoveElement
<1>3. ASSUME p \notin S, p \in T PROVE Cardinality(T) = Cardinality(S) + 1
  <2>1. S = T \ {p}
    BY <1>3
  <2>2. Cardinality(S) = Cardinality(T) - 1
    BY <1>3, <2>1, FS_RemoveElement
  <2> QED
    BY <1>1, <2>2
<1>4. (p \in S <=> p \in T) => T = S
  OBVIOUS
<1> QED
  BY <1>1, <1>2, <1>3, <1>4

(* Disjoint sets of polls are together no more than the polls. *)
LEMMA DisjointPolls ==
  ASSUME NEW S \in SUBSET Pollers, NEW T \in SUBSET Pollers, S \intersect T = {}
  PROVE  /\ IsFiniteSet(S) /\ IsFiniteSet(T)
         /\ Cardinality(S) \in Nat /\ Cardinality(T) \in Nat /\ Cardinality(Pollers) \in Nat
         /\ Cardinality(S) + Cardinality(T) <= Cardinality(Pollers)
<1>1. IsFiniteSet(Pollers) /\ IsFiniteSet(S) /\ IsFiniteSet(T)
  BY PollerAssumption, FS_Subset
<1>2. Cardinality(S) \in Nat /\ Cardinality(T) \in Nat /\ Cardinality(Pollers) \in Nat
  BY <1>1, FS_CardinalityType
<1>3. Cardinality(S \union T) = Cardinality(S) + Cardinality(T) - Cardinality(S \intersect T)
  BY <1>1, FS_Union
<1>4. Cardinality(S \intersect T) = 0
  BY FS_EmptySet
<1>5. Cardinality(S \union T) <= Cardinality(Pollers)
  BY <1>1, FS_Subset
<1> QED
  BY <1>1, <1>2, <1>3, <1>4, <1>5

(* A poll that has mailed an answer stops counting only when the reply is    *)
(* filed, or by a failure that ends it.                                      *)
LEMMA MailedStays ==
  ASSUME Typed, SessionInv, NEW p \in Pollers, PollStep(p), NEW r \in Replies,
         p \in Mailed(r), filed[r] = "no", filed'[r] = "no", cuts' = cuts
  PROVE  p \in Mailed(r)'
<1>1. pc[p] \in {"fyi", "tell", "commit"} /\ pc[p] \in Busy /\ w[p].reply = r /\ ~w[p].supp
  BY DEF Mailed, Busy
<1>2. w[p].cat # "no" /\ w[p].open
  BY <1>1, SessionFacts DEF SessionInv
<1>3. ~Conflict(p)
  BY <1>1 DEF Conflict
<1>4. ~Closes(p)
  BY <1>1, <1>2 DEF Closes, Writes
<1>5. cuts # cuts + 1
  BY DEF Typed, TypeOK
<1>6. GoesOn(p)
  BY <1>1, <1>3, <1>4, <1>5 DEF PollStep, LooksOn, TakesUp, Saves, OffersTimes, BreaksOff, Sends, Drops,
     Busy, Resting
<1>7. w'[p] = w[p] /\ pc'[p] \in {"tell", "commit"}
  BY <1>1, <1>6 DEF GoesOn
<1> QED
  BY <1>1, <1>7 DEF Mailed

(* A poll that may mail an answer took the reply up when it was not filed. *)
LEMMA MayMailNews ==
  ASSUME Typed, NEW p \in Pollers, PollStep(p), NEW r \in Replies, p \in MayMail(r)', p \notin MayMail(r)
  PROVE  filed[r] = "no" /\ p \notin Mailed(r) /\ cuts' = cuts /\ mails' = mails
<1>1. pc'[p] \in {"book", "slots", "ask", "mail"} /\ pc'[p] \in Busy /\ w'[p].reply = r
  BY DEF MayMail, Busy
<1>2. CASE pc[p] \notin Busy
  BY <1>1, <1>2, TakenUp DEF TakesUp, Stands, Mailed, Busy
<1>3. CASE pc[p] \in Busy
  <2>1. w[p].reply = r
    BY <1>1, <1>3, WorkCarries
  <2>2. pc[p] \in {"fyi", "tell", "commit"}
    BY <1>3, <2>1 DEF MayMail, Busy
  <2> QED
    BY <1>1, <2>2 DEF PollStep, LooksOn, TakesUp, Saves, OffersTimes, Closes, BreaksOff, Sends, GoesOn,
       Drops, Resting
<1> QED
  BY <1>2, <1>3

(* What a step of one poll does to the answers to r. *)
LEMMA MailsOf ==
  ASSUME Typed, NEW p \in Pollers, PollStep(p), NEW r \in Replies
  PROVE  \/ mails'[r] = mails[r]
         \/ Sends(p) /\ r = w[p].reply /\ mails'[r] = mails[r] + 1
BY DEF PollStep, LooksOn, TakesUp, Saves, OffersTimes, Closes, BreaksOff, Sends, GoesOn, Drops,
   Stands, Writes

(* A poll that mails goes from those that may to those that have. *)
LEMMA SenderMoves ==
  ASSUME Typed, SessionInv, NEW p \in Pollers, PollStep(p), Sends(p), NEW r \in Replies,
         r = w[p].reply
  PROVE  /\ p \in MayMail(r) /\ p \notin MayMail(r)' /\ p \notin Mailed(r) /\ p \in Mailed(r)'
         /\ cuts' = cuts
<1>1. pc[p] = "mail" /\ pc'[p] \in {"fyi", "commit", "tell"} /\ cuts' = cuts
  BY DEF Sends
<1>2. pc[p] \in Busy /\ pc'[p] \in Busy
  BY <1>1 DEF Busy
<1>3. ~w[p].supp
  BY <1>1, <1>2 DEF SessionInv
<1>4. w'[p].reply = r /\ ~w'[p].supp
  BY <1>2, <1>3, WorkCarries
<1> QED
  BY <1>1, <1>3, <1>4 DEF MayMail, Mailed

LEMMA AnswerStep ==
  ASSUME Typed, AnyStep, SessionInv, AnswerInv
  PROVE  AnswerInv'
<1> DEFINE P == Cardinality(Pollers)
           K == P * cuts
           K1 == P * cuts'
<1> SUFFICES ASSUME NEW r \in Replies
             PROVE  /\ filed'[r] = "no" => mails'[r] <= Cardinality(Mailed(r)') + K1
                    /\ mails'[r] + Cardinality(MayMail(r)') <= P + K1
  BY DEF AnswerInv
<1>1. /\ K \in Nat /\ P \in Nat /\ P >= 1 /\ cuts \in Nat
      /\ cuts' = cuts => K1 = K
      /\ cuts' = cuts + 1 => K1 = K + P
      /\ cuts' \in {cuts, cuts + 1}
  BY CutBudget DEF Typed, TypeOK
<1>2. /\ filed[r] = "no" => mails[r] <= Cardinality(Mailed(r)) + K
      /\ mails[r] + Cardinality(MayMail(r)) <= P + K
      /\ mails[r] \in Nat
  BY DEF AnswerInv, Typed, TypeOK
<1>3. filed'[r] = "no" => filed[r] = "no"
  BY Monotone
<1> HIDE DEF K, K1, P
<1>4. /\ IsFiniteSet(Mailed(r)) /\ IsFiniteSet(MayMail(r))
      /\ IsFiniteSet(Mailed(r)') /\ IsFiniteSet(MayMail(r)')
      /\ Cardinality(Mailed(r)) \in Nat /\ Cardinality(MayMail(r)) \in Nat
      /\ Cardinality(Mailed(r)') \in Nat /\ Cardinality(MayMail(r)') \in Nat
      /\ Cardinality(Mailed(r)) + Cardinality(MayMail(r)) <= P
  <2>1. /\ Mailed(r) \in SUBSET Pollers /\ MayMail(r) \in SUBSET Pollers
        /\ Mailed(r)' \in SUBSET Pollers /\ MayMail(r)' \in SUBSET Pollers
        /\ Mailed(r) \intersect MayMail(r) = {} /\ Mailed(r)' \intersect MayMail(r)' = {}
    BY DEF Mailed, MayMail
  <2> QED
    BY <2>1, DisjointPolls DEF P
<1>5. CASE Dies
  <2>1. MayMail(r)' = {} /\ mails' = mails /\ cuts' = cuts + 1
    BY <1>5 DEF Dies, MayMail, Stands
  <2>2. Cardinality(MayMail(r)') = 0
    BY <2>1, FS_EmptySet
  <2> QED
    BY <1>1, <1>2, <1>3, <1>4, <2>1, <2>2
<1>6. CASE Outside
  <2>1. MayMail(r)' = MayMail(r) /\ Mailed(r)' = Mailed(r) /\ mails' = mails /\ cuts' = cuts
    BY <1>6 DEF Outside, MayMail, Mailed
  <2> QED
    BY <1>1, <1>2, <1>3, <2>1
<1>7. ASSUME NEW p \in Pollers, PollStep(p)
      PROVE  /\ filed'[r] = "no" => mails'[r] <= Cardinality(Mailed(r)') + K1
             /\ mails'[r] + Cardinality(MayMail(r)') <= P + K1
  <2>1. MayMail(r)' \ {p} = MayMail(r) \ {p} /\ Mailed(r)' \ {p} = Mailed(r) \ {p}
    BY <1>7 DEF PollStep, Aside, MayMail, Mailed
  <2> DEFINE a == Cardinality(Mailed(r))
             a1 == Cardinality(Mailed(r)')
             b == Cardinality(MayMail(r))
             b1 == Cardinality(MayMail(r)')
  <2>2. /\ p \in Mailed(r) /\ p \notin Mailed(r)' => a1 = a - 1
        /\ p \notin Mailed(r) /\ p \in Mailed(r)' => a1 = a + 1
        /\ (p \in Mailed(r) <=> p \in Mailed(r)') => a1 = a
    BY <1>4, <2>1, OneChanges
  <2>3. /\ p \in MayMail(r) /\ p \notin MayMail(r)' => b1 = b - 1
        /\ p \notin MayMail(r) /\ p \in MayMail(r)' => b1 = b + 1
        /\ (p \in MayMail(r) <=> p \in MayMail(r)') => b1 = b
    BY <1>4, <2>1, OneChanges
  <2>4. a \in Nat /\ b \in Nat /\ a1 \in Nat /\ b1 \in Nat /\ a + b <= P
    BY <1>4
  <2> HIDE DEF a, a1, b, b1
  <2>5. filed'[r] = "no" => mails'[r] <= a1 + K1
    <3> SUFFICES ASSUME filed'[r] = "no" PROVE mails'[r] <= a1 + K1
      OBVIOUS
    <3>1. filed[r] = "no" /\ mails[r] <= a + K
      BY <1>2, <1>3 DEF a
    <3>2. CASE Sends(p) /\ r = w[p].reply /\ mails'[r] = mails[r] + 1
      <4>1. p \notin Mailed(r) /\ p \in Mailed(r)' /\ cuts' = cuts
        BY <1>7, <3>2, SenderMoves
      <4> QED
        BY <1>1, <1>2, <2>2, <2>4, <3>1, <3>2, <4>1
    <3>3. CASE mails'[r] = mails[r] /\ cuts' = cuts
      <4>1. p \in Mailed(r) => p \in Mailed(r)'
        BY <1>7, <3>1, <3>3, MailedStays
      <4> QED
        BY <1>1, <1>2, <2>2, <2>4, <3>1, <3>3, <4>1
    <3>4. CASE mails'[r] = mails[r] /\ cuts' = cuts + 1
      BY <1>1, <1>2, <2>2, <2>4, <3>1, <3>4
    <3> QED
      BY <1>1, <1>7, <3>2, <3>3, <3>4, MailsOf
  <2>6. mails'[r] + b1 <= P + K1
    <3>1. mails[r] + b <= P + K
      BY <1>2 DEF b
    <3>2. CASE Sends(p) /\ r = w[p].reply /\ mails'[r] = mails[r] + 1
      <4>1. p \in MayMail(r) /\ p \notin MayMail(r)' /\ cuts' = cuts
        BY <1>7, <3>2, SenderMoves
      <4> QED
        BY <1>1, <1>2, <2>3, <2>4, <3>1, <3>2, <4>1
    <3>3. CASE mails'[r] = mails[r] /\ p \notin MayMail(r) /\ p \in MayMail(r)'
      <4>1. filed[r] = "no" /\ p \notin Mailed(r) /\ cuts' = cuts
        BY <1>7, <3>3, MayMailNews
      <4>2. mails[r] <= a + K
        BY <1>2, <4>1 DEF a
      <4>3. a + b1 <= P
        <5>1. MayMail(r)' \intersect Mailed(r) = {}
          BY <2>1, <4>1 DEF MayMail, Mailed
        <5>2. MayMail(r)' \in SUBSET Pollers /\ Mailed(r) \in SUBSET Pollers
          BY DEF MayMail, Mailed
        <5>3. b1 + a <= P
          BY <5>1, <5>2, DisjointPolls DEF a, b1, P
        <5> QED
          BY <2>4, <5>3
      <4> QED
        BY <1>1, <1>2, <2>4, <3>3, <4>1, <4>2, <4>3
    <3>4. CASE mails'[r] = mails[r] /\ (p \in MayMail(r)' => p \in MayMail(r))
      BY <1>1, <1>2, <2>3, <2>4, <3>1, <3>4
    <3> QED
      BY <1>7, <3>2, <3>3, <3>4, MailsOf
  <2> QED
    BY <2>5, <2>6 DEF a1, b1
<1> QED
  BY <1>5, <1>6, <1>7 DEF AnyStep, K, K1, P

(* A poll that holds a reply it did not hold before took it up alone, or the *)
(* reply counts as shared from then on.                                      *)
LEMMA SharedStep ==
  ASSUME Typed, [Next]_vars
  PROVE  /\ shared \subseteq shared'
         /\ \A p \in Pollers, r \in Replies \ shared' :
              w'[p].reply = r => w[p].reply = r \/ ~TakenBy(Pollers \ {p}, r)
<1> DEFINE Alone(p, r) == w'[p].reply = r => w[p].reply = r \/ ~TakenBy(Pollers \ {p}, r)
<1> SUFFICES /\ shared \subseteq shared'
             /\ \A p \in Pollers, r \in Replies \ shared' : Alone(p, r)
  OBVIOUS
<1>1. ASSUME NEW p \in Pollers, NEW r \in Replies, Take(p, r)
      PROVE  \E where, k : Triage(p, r, where, k) /\ k.reply = r
  <2>1. \A cat, to, kind, x : /\ Work(r, cat, to, kind).reply = r
                              /\ [Work(r, cat, to, kind) EXCEPT !.supp = x].reply = r
    BY DEF Work, NoWork
  <2>2. CASE OptsOut(p, r)
    <3>1. PICK c : Triage(p, r, "commit",
              [Work(r, c, IF c = "UNSUBSCRIBE" THEN "UNSUBSCRIBED" ELSE c, None)
                 EXCEPT !.supp = From[r] \notin suppressed])
      BY <2>2 DEF OptsOut
    <3> DEFINE k == [Work(r, c, IF c = "UNSUBSCRIBE" THEN "UNSUBSCRIBED" ELSE c, None)
                       EXCEPT !.supp = From[r] \notin suppressed]
    <3>2. k.reply = r
      BY DEF Work, NoWork
    <3>3. Triage(p, r, "commit", k)
      BY <3>1
    <3> HIDE DEF k
    <3> QED
      BY <3>2, <3>3
  <2>3. CASE SelectsSlot(p, r) \/ RecordsOnly(p, r) \/ IsAway(p, r) \/ AsksQuestion(p, r)
    BY <2>1, <2>3 DEF SelectsSlot, RecordsOnly, IsAway, AsksQuestion
  <2>4. CASE ProposesMeeting(p, r) \/ BriefsLead(p, r) \/ HandsOff(p, r)
    BY <2>1, <2>4 DEF ProposesMeeting, BriefsLead, HandsOff
  <2> QED
    BY <1>1, <2>2, <2>3, <2>4 DEF Take
<1>2. CASE \E p \in Pollers, r \in Replies : Take(p, r)
  <2>1. PICK p \in Pollers, r \in Replies : Take(p, r)
    BY <1>2
  <2>2. PICK where, k : Triage(p, r, where, k) /\ k.reply = r
    BY <1>1, <2>1
  <2>3. w' = [w EXCEPT ![p] = k] /\ w \in [Pollers -> Works]
    BY <2>2 DEF Triage, Typed, TypeOK
  <2>4. shared' = IF TakenBy(Pollers \ {p}, r) THEN shared \union {r} ELSE shared
    BY <2>2 DEF Triage
  <2>5. ASSUME NEW q \in Pollers, NEW x \in Replies \ shared' PROVE Alone(q, x)
    <3>1. CASE q # p
      BY <2>3, <3>1
    <3>2. CASE q = p
      <4>1. w'[q].reply = r
        BY <2>2, <2>3, <3>2
      <4>2. CASE x = r
        BY <2>4, <2>5, <3>2, <4>2
      <4>3. CASE x # r
        BY <4>1, <4>3
      <4> QED
        BY <4>2, <4>3
    <3> QED
      BY <3>1, <3>2
  <2> HIDE DEF Alone
  <2> QED
    BY <2>4, <2>5
<1>3. CASE ~\E p \in Pollers, r \in Replies : Take(p, r)
  <2>1. /\ shared' = shared
        /\ \A p \in Pollers : w'[p].reply \in {w[p].reply, None}
    <3>1. None \notin Replies /\ NoWork.reply = None /\ w \in [Pollers -> Works]
      BY ConstantFacts, NoWorkTyped DEF Typed, TypeOK
    <3>2. ASSUME NEW p \in Pollers, Step(p) \/ Fails(p) \/ TokenRefreshed(p)
          PROVE  /\ shared' = shared
                 /\ \/ w' = w
                    \/ \E k : w' = [w EXCEPT ![p] = k] /\ k.reply \in {w[p].reply, None}
      <4>1. /\ Flushed(p).reply = w[p].reply
            /\ [w[p] EXCEPT !.row = (w[p].kind = "rundown")].reply = w[p].reply
            /\ [w[p] EXCEPT !.to = "ENGAGED"].reply = w[p].reply
        BY <3>1 DEF Flushed, Works
      <4>2. CASE TokenRefreshed(p)
        BY <4>1, <4>2 DEF TokenRefreshed, mail
      <4>3. CASE Step(p)
        <5>1. CASE Start(p) \/ EndPoll(p)
          BY <3>1, <5>1 DEF Start, EndPoll, AfterOrg, Visit, Leave, mail
        <5>2. CASE \/ \E l \in Leads : Fetch(p, l)
                   \/ \E r \in Replies : Duplicate(p, r)
          BY <5>2 DEF Fetch, Duplicate, mail
        <5>3. CASE Book(p) \/ SlotsFound(p) \/ MailLead(p)
          BY <4>1, <5>3 DEF Book, SlotsFound, MailLead, mail
        <5>4. CASE MailRep(p) \/ Commit(p) \/ Collide(p)
          BY <3>1, <5>4 DEF MailRep, Commit, Collide, Leave, mail
        <5> QED
          BY <1>3, <4>3, <5>1, <5>2, <5>3, <5>4 DEF Step
      <4>4. CASE Fails(p)
        <5>1. CASE (\E l \in Leads : FetchFails(p, l)) \/ MailFails(p)
          BY <5>1 DEF FetchFails, MailFails, mail
        <5>2. CASE SlotsMissing(p)
          BY <3>1, <4>1, <5>2 DEF SlotsMissing, Leave, mail
        <5>3. CASE MailRepFails(p) \/ ClassifierRaises(p) \/ TokenFails(p)
          BY <3>1, <5>3 DEF MailRepFails, ClassifierRaises, TokenFails, Leave, mail
        <5>4. CASE TokenRevoked(p)
          BY <3>1, <5>4 DEF TokenRevoked, AfterOrg, Visit, Leave, mail
        <5> QED
          BY <4>4, <5>1, <5>2, <5>3, <5>4 DEF Fails
      <4> QED
        BY <3>2, <4>2, <4>3, <4>4
    <3>3. CASE \E p \in Pollers : Step(p) \/ Fails(p) \/ TokenRefreshed(p)
      <4>1. PICK p \in Pollers : Step(p) \/ Fails(p) \/ TokenRefreshed(p)
        BY <3>3
      <4>2. /\ shared' = shared
            /\ \/ w' = w
               \/ \E k : w' = [w EXCEPT ![p] = k] /\ k.reply \in {w[p].reply, None}
        BY <3>2, <4>1
      <4> QED
        BY <3>1, <4>2
    <3>4. CASE SendPhase
      BY <3>1, <3>4 DEF SendPhase, Leave, mail
    <3>5. CASE Crash
      BY <3>1, <3>5 DEF Crash, mail
    <3>6. CASE (\E r \in Replies : Arrive(r)) \/ (\E o \in Orgs : Reconnect(o))
                 \/ (\E l \in Leads : RepDecides(l)) \/ UNCHANGED vars
      BY <3>6 DEF Arrive, Reconnect, RepDecides, vars, poll, mail
    <3> QED
      BY <3>3, <3>4, <3>5, <3>6 DEF Next
  <2> QED
    BY <2>1, ConstantFacts
<1> QED
  BY <1>2, <1>3

LEMMA OnceStep ==
  ASSUME Typed, [Next]_vars, AnyStep, SessionInv, OnceInv
  PROVE  OnceInv'
<1> SUFFICES ASSUME NEW r \in Replies, r \notin shared'
             PROVE  /\ \A p, q \in Pollers : w'[p].reply = r /\ w'[q].reply = r => p = q
                    /\ mails'[r] <= 1 + cuts'
                    /\ filed'[r] = "no" /\ Mailed(r)' = {} => mails'[r] <= cuts'
                    /\ MayMail(r)' # {} => mails'[r] <= cuts'
  BY DEF OnceInv
<1>1. r \notin shared
  BY SharedStep
<1>2. /\ \A p, q \in Pollers : w[p].reply = r /\ w[q].reply = r => p = q
      /\ mails[r] <= 1 + cuts
      /\ filed[r] = "no" /\ Mailed(r) = {} => mails[r] <= cuts
      /\ MayMail(r) # {} => mails[r] <= cuts
  BY <1>1 DEF OnceInv
<1>3. mails[r] \in Nat /\ cuts \in Nat /\ cuts' \in {cuts, cuts + 1}
  BY CutBudget DEF Typed, TypeOK
<1>4. filed'[r] = "no" => filed[r] = "no"
  BY Monotone
<1>5. \A p \in Pollers : w'[p].reply = r => w[p].reply = r \/ ~TakenBy(Pollers \ {p}, r)
  BY SharedStep
<1>6. CASE Dies
  <2>1. mails' = mails /\ cuts' = cuts + 1
    BY <1>6 DEF Dies, Stands
  <2>2. \A p \in Pollers : w'[p].reply # r
    BY <1>6, NoWorkTyped, ConstantFacts DEF Dies
  <2> QED
    BY <1>2, <1>3, <2>1, <2>2
<1>7. CASE Outside
  <2>1. /\ MayMail(r)' = MayMail(r) /\ Mailed(r)' = Mailed(r)
        /\ mails' = mails /\ cuts' = cuts /\ w' = w /\ filed' = filed
    BY <1>7 DEF Outside, MayMail, Mailed
  <2> QED
    BY <1>2, <2>1
<1>8. CASE \E p \in Pollers : PollStep(p)
  <2>1. PICK p \in Pollers : PollStep(p)
    BY <1>8
  <2>2. \A q \in Pollers \ {p} : /\ w'[q] = w[q]
                                 /\ (q \in Mailed(r)' <=> q \in Mailed(r))
                                 /\ (q \in MayMail(r)' <=> q \in MayMail(r))
    BY <2>1 DEF PollStep, Aside, Mailed, MayMail
  <2>3. \A x, q \in Pollers : w'[x].reply = r /\ w'[q].reply = r => x = q
    <3>1. ASSUME NEW q \in Pollers \ {p}, w'[p].reply = r, w'[q].reply = r PROVE FALSE
      <4>1. w[q].reply = r
        BY <2>2, <3>1
      <4>2. TakenBy(Pollers \ {p}, r)
        BY <4>1 DEF TakenBy
      <4> QED
        BY <1>2, <1>5, <3>1, <4>1, <4>2
    <3>2. ASSUME NEW x \in Pollers \ {p}, NEW q \in Pollers \ {p}, w'[x].reply = r,
                 w'[q].reply = r
          PROVE  x = q
      BY <1>2, <2>2, <3>2
    <3> QED
      BY <3>1, <3>2
  <2>4. CASE Sends(p) /\ r = w[p].reply /\ mails'[r] = mails[r] + 1
    <3>1. p \in MayMail(r) /\ p \notin MayMail(r)' /\ p \in Mailed(r)' /\ cuts' = cuts
      BY <2>1, <2>4, SenderMoves
    <3>2. mails[r] <= cuts
      BY <1>2, <3>1
    <3>3. MayMail(r)' = {}
      BY <2>3, <3>1 DEF MayMail, Mailed
    <3> QED
      BY <1>3, <2>3, <2>4, <3>1, <3>2, <3>3
  <2>5. CASE mails'[r] = mails[r]
    <3>1. ASSUME filed'[r] = "no", Mailed(r)' = {} PROVE mails'[r] <= cuts'
      <4>1. CASE cuts' = cuts + 1
        BY <1>2, <1>3, <2>5, <4>1
      <4>2. CASE cuts' = cuts
        <5>1. filed[r] = "no"
          BY <1>4, <3>1
        <5>2. p \notin Mailed(r)
          BY <2>1, <3>1, <4>2, <5>1, MailedStays
        <5>3. Mailed(r) = {}
          BY <2>2, <3>1, <5>2 DEF Mailed
        <5> QED
          BY <1>2, <2>5, <4>2, <5>1, <5>3
      <4> QED
        BY <1>3, <4>1, <4>2
    <3>2. ASSUME MayMail(r)' # {} PROVE mails'[r] <= cuts'
      <4>1. CASE MayMail(r) # {}
        BY <1>2, <1>3, <2>5, <4>1
      <4>2. CASE MayMail(r) = {}
        <5>1. p \in MayMail(r)' /\ p \notin MayMail(r)
          BY <2>2, <3>2, <4>2 DEF MayMail
        <5>2. filed[r] = "no" /\ p \notin Mailed(r) /\ cuts' = cuts
          BY <2>1, <5>1, MayMailNews
        <5>3. w'[p].reply = r
          BY <5>1 DEF MayMail
        <5>4. Mailed(r) = {}
          <6>1. ASSUME NEW q \in Mailed(r) PROVE FALSE
            <7>1. q \in Pollers \ {p} /\ w[q].reply = r
              BY <5>2, <6>1 DEF Mailed
            <7>2. w'[q].reply = r
              BY <2>2, <7>1
            <7> QED
              BY <2>3, <5>3, <7>1, <7>2
          <6> QED
            BY <6>1
        <5> QED
          BY <1>2, <2>5, <5>2, <5>4
      <4> QED
        BY <4>1, <4>2
    <3> QED
      BY <1>2, <1>3, <2>3, <2>5, <3>1, <3>2
  <2> QED
    BY <2>1, <2>4, <2>5, MailsOf
<1> QED
  BY <1>6, <1>7, <1>8 DEF AnyStep

(* With any number of polls side by side and any failures, a reply gets one  *)
(* answer and one more for each failure that ended a poll, unless two polls  *)
(* were at it together: then each poll may answer it, and each again after   *)
(* such a failure.                                                           *)
THEOREM AnswersAreNotRepeated == Spec => []AnsweredOncePerCut
<1> DEFINE Inv == Typed /\ SessionInv /\ AnswerInv /\ OnceInv
<1>1. Init => Inv
  <2> SUFFICES ASSUME Init PROVE AnswerInv /\ OnceInv
    BY TypedInit, SessionInit
  <2>1. \A r \in Replies : MayMail(r) = {} /\ Mailed(r) = {} /\ mails[r] = 0
    BY DEF Init, MayMail, Mailed
  <2>2. Cardinality({}) = 0 /\ Cardinality(Pollers) \in Nat
    BY FS_EmptySet, FS_CardinalityType, PollerAssumption
  <2>3. Cardinality(Pollers) * cuts = 0
    BY <2>2 DEF Init
  <2>4. AnswerInv
    <3> SUFFICES ASSUME NEW r \in Replies
                 PROVE  /\ mails[r] <= Cardinality(Mailed(r)) + Cardinality(Pollers) * cuts
                        /\ mails[r] + Cardinality(MayMail(r))
                             <= Cardinality(Pollers) + Cardinality(Pollers) * cuts
      BY DEF AnswerInv
    <3>1. Cardinality(MayMail(r)) = 0 /\ Cardinality(Mailed(r)) = 0 /\ mails[r] = 0
      BY <2>1, <2>2
    <3> QED
      BY <2>2, <2>3, <3>1
  <2>5. OnceInv
    <3>1. \A p \in Pollers : w[p].reply = None /\ None \notin Replies
      BY NoWorkTyped, ConstantFacts DEF Init
    <3>2. cuts = 0
      BY DEF Init
    <3> QED
      BY <2>1, <3>1, <3>2 DEF OnceInv
  <2> QED
    BY <2>4, <2>5
<1>2. Inv /\ [Next]_vars => Inv'
  BY StepKinds, SessionStep, AnswerStep, OnceStep
<1>3. Inv => AnsweredOncePerCut
  <2> SUFFICES ASSUME Inv, NEW r \in Replies
               PROVE  /\ r \notin shared => AnsweredOnce(r)
                      /\ mails[r] <= Cardinality(Pollers) * (1 + cuts)
    BY DEF AnsweredOncePerCut
  <2>1. mails[r] + Cardinality(MayMail(r)) <= Cardinality(Pollers) + Cardinality(Pollers) * cuts
    BY DEF AnswerInv
  <2>2. mails[r] \in Nat /\ cuts \in Nat
    BY DEF Typed, TypeOK
  <2>3. Cardinality(Pollers) \in Nat /\ Cardinality(MayMail(r)) \in Nat
    BY PollerAssumption, FS_CardinalityType, FS_Subset DEF MayMail
  <2>4. \A P, c, m, b \in Nat : m + b <= P + P * c => m <= P * (1 + c)
    OBVIOUS
  <2>5. mails[r] <= Cardinality(Pollers) * (1 + cuts)
    BY <2>1, <2>2, <2>3, <2>4
  <2>6. r \notin shared => AnsweredOnce(r)
    BY DEF OnceInv, AnsweredOnce
  <2> QED
    BY <2>5, <2>6
<1> QED
  BY <1>1, <1>2, <1>3, PTL DEF Spec

-----------------------------------------------------------------------------
(* A filed reply is forgotten only by a failure that ends a poll *)

(* The replies at hand are no more than the polls. *)
LEMMA HandIsSmall == IsFiniteSet(InHand) /\ Cardinality(InHand) <= Cardinality(Pollers)
<1> DEFINE f == [p \in Pollers |-> w[p].reply]
<1>1. f \in Surjection(Pollers, InHand)
  BY DEF Surjection, InHand
<1> QED
  BY <1>1, FS_Surjection, PollerAssumption

(* The conditions under which a poll stands where it stands. *)
LEMMA StageFollows ==
  ASSUME Typed, Typed', AnyStep, LossInv, NEW q \in Pollers
  PROVE  /\ pc'[q] = "commit" /\ w'[q].cat \in Answerable
              => mails'[w'[q].reply] > 0 \/ w'[q].reply \in told'
         /\ pc'[q] = "mail" /\ w'[q].kind = "ack" => w'[q].reply \in told'
         /\ pc'[q] = "slots" => w'[q].kind = "times"
<1> DEFINE Goal == /\ pc'[q] = "commit" /\ w'[q].cat \in Answerable
                        => mails'[w'[q].reply] > 0 \/ w'[q].reply \in told'
                   /\ pc'[q] = "mail" /\ w'[q].kind = "ack" => w'[q].reply \in told'
                   /\ pc'[q] = "slots" => w'[q].kind = "times"
<1>1. \A r \in Replies : mails[r] \in Nat /\ mails'[r] >= mails[r] /\ (r \in told => r \in told')
  BY Monotone DEF Typed, TypeOK
<1>2. /\ pc[q] = "commit" /\ w[q].cat \in Answerable => mails[w[q].reply] > 0 \/ w[q].reply \in told
      /\ pc[q] = "mail" /\ w[q].kind = "ack" => w[q].reply \in told
      /\ pc[q] = "slots" => w[q].kind = "times"
  BY DEF LossInv
<1>3. pc[q] \in Busy => w[q].reply \in Replies
  BY SessionFacts
<1>4. CASE pc'[q] = pc[q] /\ w'[q].reply = w[q].reply /\ w'[q].cat = w[q].cat /\ w'[q].kind = w[q].kind
  <2>1. CASE pc[q] \in Busy
    <3>1. /\ w[q].reply \in Replies /\ mails[w[q].reply] \in Nat /\ mails'[w[q].reply] >= mails[w[q].reply]
          /\ w[q].reply \in told => w[q].reply \in told'
      BY <1>1, <1>3, <2>1
    <3>2. mails'[w[q].reply] \in Nat
      BY <1>3, <2>1 DEF Typed, TypeOK
    <3> QED
      BY <1>2, <1>4, <3>1, <3>2
  <2>2. CASE pc[q] \notin Busy
    BY <1>4, <2>2 DEF Busy
  <2> QED
    BY <2>1, <2>2
<1>5. CASE Dies \/ Outside
  BY <1>4, <1>5 DEF Dies, Outside
<1>6. ASSUME NEW p \in Pollers, PollStep(p), q # p
      PROVE  pc'[q] = pc[q] /\ w'[q] = w[q]
  BY <1>6 DEF PollStep, Aside
<1>7. CASE PollStep(q) /\ pc[q] \in Busy /\ pc'[q] \in Busy
  <2>1. w'[q].reply = w[q].reply /\ w'[q].cat = w[q].cat /\ w'[q].kind = w[q].kind
    BY <1>7, WorkCarries
  <2>2. CASE pc'[q] = pc[q]
    BY <1>4, <2>1, <2>2
  <2>3. CASE Saves(q) /\ pc'[q] # pc[q]
    BY <2>3 DEF Saves
  <2>4. CASE OffersTimes(q)
    BY <1>2, <2>1, <2>4 DEF OffersTimes
  <2>5. CASE Sends(q)
    <3>1. mails'[w[q].reply] = mails[w[q].reply] + 1 /\ mails[w[q].reply] \in Nat
      BY <1>1, <1>3, <1>7, <2>5 DEF Sends
    <3>2. pc'[q] \in {"fyi", "commit", "tell"}
      BY <2>5 DEF Sends
    <3> QED
      BY <2>1, <3>1, <3>2
  <2>6. CASE GoesOn(q)
    BY <1>2, <2>1, <2>6 DEF GoesOn
  <2> QED
    BY <1>7, <2>2, <2>3, <2>4, <2>5, <2>6 DEF PollStep, LooksOn, TakesUp, Closes, BreaksOff, Drops,
       Busy, Resting
<1>8. CASE PollStep(q) /\ pc[q] \notin Busy /\ pc'[q] \in Busy
  BY <1>8, TakenUp DEF TakesUp, Begins, Answerable, OptOuts, MayBeUnwritten
<1>9. CASE pc'[q] \notin Busy
  BY <1>9 DEF Busy
<1> QED
  BY <1>4, <1>5, <1>6, <1>7, <1>8, <1>9 DEF AnyStep

(* A step of one poll loses at most the reply it was about, and only by a    *)
(* failure that ends the poll.                                               *)
LEMMA LostNews ==
  ASSUME Typed, SessionInv, LossInv, NEW p \in Pollers, PollStep(p), NEW r \in Lost', r \notin Lost
  PROVE  cuts' = cuts + 1 /\ r = w[p].reply
<1>1. r \in Replies /\ filed'[r] \in Answerable /\ mails'[r] = 0 /\ r \notin told' /\ ~InWork(r)'
  BY DEF Lost
<1>2. AnyStep
  BY DEF AnyStep
<1>3. mails[r] = 0 /\ r \notin told
  BY <1>1, <1>2, Monotone DEF Typed, TypeOK
<1>4. ASSUME pc[p] \in Busy, w[p].reply = r, filed[r] # filed'[r] \/ ~w[p].open
      PROVE  cuts' = cuts + 1
  <2>1. pc'[p] \notin Busy
    <3> SUFFICES ASSUME pc'[p] \in Busy PROVE FALSE
      OBVIOUS
    <3>1. w'[p].reply = r /\ (w'[p].open => w[p].open)
      BY <1>4, WorkCarries
    <3>2. w'[p].open
      BY <1>1, <3>1 DEF InWork
    <3>3. filed[r] # filed'[r]
      BY <1>4, <3>1, <3>2
    <3>4. \E to : Writes(p, to)
      BY <3>3 DEF PollStep, LooksOn, TakesUp, Sends, GoesOn, Drops, Stands, Saves, OffersTimes, Closes,
         BreaksOff
    <3>5. w'[p] = Flushed(p) \/ w'[p] = NoWork
      BY <3>3 DEF PollStep, LooksOn, TakesUp, Sends, GoesOn, Drops, Stands, Saves, OffersTimes, Closes,
         BreaksOff
    <3> QED
      BY <3>2, <3>5, SessionFacts, FlushedWork, NoWorkTyped
  <2>2. ~Closes(p)
    <3> SUFFICES ASSUME Closes(p) PROVE FALSE
      OBVIOUS
    <3>1. pc[p] = "commit" /\ filed'[r] = IF w[p].open THEN w[p].cat ELSE filed[r]
      BY <1>1, <1>4 DEF Closes, Writes
    <3>2. ~w[p].open => filed[r] = w[p].cat
      BY <1>4 DEF SessionInv
    <3>3. w[p].cat \in Answerable
      BY <1>1, <3>1, <3>2
    <3>4. mails[r] > 0 \/ r \in told
      BY <1>4, <3>1, <3>3 DEF LossInv
    <3> QED
      BY <1>3, <3>4
  <2>3. ~Conflict(p) \/ filed'[r] # filed[r]
    BY <1>4 DEF Conflict
  <2> QED
    BY <1>4, <2>1, <2>2, <2>3 DEF PollStep, LooksOn, TakesUp, Saves, OffersTimes, BreaksOff, Sends,
       GoesOn, Drops, Stands, Busy, Resting
<1>5. CASE filed[r] # filed'[r]
  <2>1. PICK to : Writes(p, to)
    BY <1>5 DEF PollStep, LooksOn, TakesUp, Sends, GoesOn, Drops, Stands, Saves, OffersTimes, Closes,
       BreaksOff
  <2>2. pc[p] \in Busy /\ w[p].reply = r
    BY <1>1, <1>5, <2>1 DEF Writes
  <2> QED
    BY <1>4, <1>5, <2>2
<1>6. CASE filed[r] = filed'[r]
  <2>1. PICK q \in Pollers : pc[q] \in Busy /\ w[q].reply = r /\ ~w[q].open
    BY <1>1, <1>3, <1>6 DEF Lost, InWork
  <2>2. q = p
    BY <1>1, <2>1 DEF PollStep, Aside, InWork
  <2> QED
    BY <1>4, <2>1, <2>2
<1> QED
  BY <1>5, <1>6

LEMMA LossStep ==
  ASSUME Typed, Typed', AnyStep, SessionInv, LossInv
  PROVE  LossInv'
<1> DEFINE P == Cardinality(Pollers)
           K == P * cuts
           K1 == P * cuts'
<1>1. /\ K \in Nat /\ P \in Nat /\ P >= 1 /\ cuts \in Nat
      /\ cuts' = cuts => K1 = K
      /\ cuts' = cuts + 1 => K1 = K + P
      /\ cuts' \in {cuts, cuts + 1}
  BY CutBudget DEF Typed, TypeOK
<1>2. IsFiniteSet(Lost) /\ Cardinality(Lost) <= K /\ Cardinality(Lost) \in Nat
  BY FS_CardinalityType DEF LossInv
<1> HIDE DEF K, K1, P
<1>3. IsFiniteSet(Lost') /\ Cardinality(Lost') <= K1
  <2>1. ASSUME NEW T, Lost' \subseteq Lost \union T, IsFiniteSet(T), Cardinality(T) <= K1 - K
        PROVE  IsFiniteSet(Lost') /\ Cardinality(Lost') <= K1
    <3>1. /\ IsFiniteSet(Lost \union T)
          /\ Cardinality(Lost \union T) = Cardinality(Lost) + Cardinality(T) - Cardinality(Lost \cap T)
      BY <1>2, <2>1, FS_Union
    <3>2. Cardinality(T) \in Nat /\ Cardinality(Lost \union T) \in Nat
      BY <2>1, <3>1, FS_CardinalityType
    <3>3. IsFiniteSet(Lost \cap T)
      BY <1>2, FS_Intersection
    <3>4. Cardinality(Lost \cap T) \in Nat
      BY <3>3, FS_CardinalityType
    <3>5. IsFiniteSet(Lost') /\ Cardinality(Lost') <= Cardinality(Lost \union T)
      BY <2>1, <3>1, FS_Subset
    <3>6. Cardinality(Lost') \in Nat
      BY <3>5, FS_CardinalityType
    <3>7. K1 \in Int
      BY <1>1
    <3> QED
      BY <1>1, <1>2, <2>1, <3>1, <3>2, <3>4, <3>5, <3>6, <3>7
  <2>2. IsFiniteSet({}) /\ Cardinality({}) = 0
    BY FS_EmptySet
  <2>3. CASE Dies
    <3>1. cuts' = cuts + 1
      BY <2>3 DEF Dies
    <3>2. ASSUME NEW r \in Lost', r \notin Lost PROVE r \in InHand
      <4>1. r \in Replies /\ filed[r] \in Answerable /\ mails[r] = 0 /\ r \notin told
        BY <2>3, <3>2 DEF Dies, Stands, Lost
      <4> QED
        BY <3>2, <4>1 DEF Lost, InWork, InHand
    <3>3. Cardinality(InHand) <= K1 - K /\ IsFiniteSet(InHand)
      BY <1>1, <3>1, HandIsSmall DEF P
    <3> QED
      BY <2>1, <3>2, <3>3
  <2>4. CASE Outside
    <3>1. Lost' = Lost /\ cuts' = cuts
      BY <2>4 DEF Outside, Lost, InWork
    <3>2. Cardinality({}) <= K1 - K
      BY <1>1, <2>2, <3>1
    <3> QED
      BY <2>1, <2>2, <3>1, <3>2
  <2>5. ASSUME NEW p \in Pollers, PollStep(p)
        PROVE  IsFiniteSet(Lost') /\ Cardinality(Lost') <= K1
    <3>1. CASE cuts' = cuts
      <4>1. Lost' \subseteq Lost
        <5>1. ASSUME NEW r \in Lost', r \notin Lost PROVE FALSE
          <6>1. cuts' = cuts + 1
            BY <2>5, <5>1, LostNews
          <6> QED
            BY <1>1, <3>1, <6>1
        <5> QED
          BY <5>1
      <4>2. Cardinality({}) <= K1 - K
        BY <1>1, <2>2, <3>1
      <4> QED
        BY <2>1, <2>2, <4>1, <4>2
    <3>2. CASE cuts' = cuts + 1
      <4> DEFINE T == {w[p].reply}
      <4>1. Lost' \subseteq Lost \union T
        BY <2>5, LostNews
      <4>2. IsFiniteSet(T) /\ Cardinality(T) = 1
        BY FS_Singleton
      <4>3. Cardinality(T) <= K1 - K
        BY <1>1, <3>2, <4>2
      <4> HIDE DEF T
      <4> QED
        BY <2>1, <4>1, <4>2, <4>3
    <3> QED
      BY <1>1, <3>1, <3>2
  <2> QED
    BY <2>3, <2>4, <2>5 DEF AnyStep
<1> QED
  BY <1>3, StageFollows DEF LossInv, K1, P

(* A reply that is filed and calls for an answer is answered, brought before *)
(* the rep, or still at work, whatever fails, except for one reply of each   *)
(* poll that a failure ended: a failed mail or a calendar without times      *)
(* forgets none.                                                             *)
THEOREM RepliesAreNotForgotten == Spec => []ForgottenOnlyByCut
<1> DEFINE Inv == Typed /\ SessionInv /\ LossInv
<1>1. Init => Inv
  <2> SUFFICES ASSUME Init PROVE LossInv
    BY TypedInit, SessionInit
  <2>1. Lost = {} /\ \A p \in Pollers : pc[p] = "idle"
    BY DEF Init, Lost, Answerable
  <2>2. Cardinality(Pollers) * cuts = 0
    BY FS_CardinalityType, PollerAssumption DEF Init
  <2> QED
    BY <2>1, <2>2, FS_EmptySet DEF LossInv
<1>2. Inv /\ [Next]_vars => Inv'
  BY StepKinds, SessionStep, LossStep
<1>3. Inv => ForgottenOnlyByCut
  <2> SUFFICES ASSUME Inv PROVE ForgottenOnlyByCut
    OBVIOUS
  <2>1. Forgotten \subseteq Lost
    BY DEF Forgotten, Lost, InWork, InHand, Answerable
  <2>2. Cardinality(Forgotten) <= Cardinality(Lost) /\ IsFiniteSet(Forgotten)
    BY <2>1, FS_Subset DEF LossInv
  <2>3. Cardinality(Forgotten) \in Nat /\ Cardinality(Lost) \in Nat
    BY <2>2, FS_CardinalityType DEF LossInv
  <2>4. Cardinality(Pollers) \in Nat /\ cuts \in Nat
    BY FS_CardinalityType, PollerAssumption DEF Typed, TypeOK
  <2>5. Cardinality(Pollers) * cuts \in Nat
    BY <2>4
  <2> QED
    BY <2>2, <2>3, <2>5 DEF LossInv, ForgottenOnlyByCut
<1> QED
  BY <1>1, <1>2, <1>3, PTL DEF Spec

-----------------------------------------------------------------------------
(* One poll at a time: nothing changes behind its back *)

LEMMA SerialSteps ==
  ASSUME SolePoller, AnyStep, NEW q \in Pollers
  PROVE  Dies \/ Outside \/ PollStep(q)
BY DEF SolePoller, AnyStep

(* Where the tables change the session has given away what it held. *)
LEMMA TablesOrWork ==
  ASSUME Typed, NEW p \in Pollers, PollStep(p)
  PROVE  \/ ~w'[p].open /\ ~w'[p].supp /\ ~w'[p].row /\ w'[p].to = None
         \/ UNCHANGED <<filed, leadState, offered, briefed, suppressed>>
BY SessionFacts, FlushedWork, NoWorkTyped
   DEF PollStep, LooksOn, TakesUp, Saves, OffersTimes, Closes, BreaksOff, Sends, GoesOn, Drops, Stands

LEMMA FreshStep ==
  ASSUME SolePoller, Typed, AnyStep, FreshInv
  PROVE  FreshInv'
<1> SUFFICES ASSUME NEW q \in Pollers, pc'[q] \in Busy
             PROVE  /\ w'[q].open => filed'[w'[q].reply] = "no"
                    /\ w'[q].supp => Lead(q)' \notin suppressed'
  BY DEF FreshInv
<1>1. CASE Dies \/ Outside
  BY <1>1 DEF Dies, Outside, FreshInv, Busy, Lead
<1>2. CASE PollStep(q) /\ pc[q] \in Busy
  <2>1. /\ w'[q].reply = w[q].reply
        /\ w'[q].open => w[q].open
        /\ w'[q].supp => w[q].supp
    BY <1>2, WorkCarries
  <2>2. \/ ~w'[q].open /\ ~w'[q].supp
        \/ UNCHANGED <<filed, suppressed>>
    BY <1>2, TablesOrWork
  <2> QED
    BY <1>2, <2>1, <2>2 DEF FreshInv, Lead
<1>3. CASE PollStep(q) /\ pc[q] \notin Busy
  <2>1. PICK r \in Replies : TakesUp(q, r)
    BY <1>3, TakenUp
  <2>2. w'[q].supp => From[r] \notin suppressed
    BY <2>1 DEF TakesUp, Begins
  <2> QED
    BY <2>1, <2>2 DEF TakesUp, Stands, Lead
<1> QED
  BY <1>1, <1>2, <1>3, SerialSteps

LEMMA NoConflict ==
  ASSUME FreshInv, NEW p \in Pollers, pc[p] \in Busy
  PROVE  ~Conflict(p)
BY DEF FreshInv, Conflict

LEMMA FreshInit == Init => FreshInv
BY DEF Init, FreshInv, Busy

-----------------------------------------------------------------------------
(* One poll at a time: the rundown *)

RowOf(l) == \E p \in Pollers : w[p].row /\ Lead(p) = l

(* The session, as far as rundowns are concerned. *)
LEMMA RundownWork ==
  ASSUME SolePoller, Typed, AnyStep, RundownInv, NEW q \in Pollers, pc'[q] \in Busy
  PROVE  /\ pc'[q] = "mail" /\ w'[q].kind = "rundown" => Lead(q)' \notin briefed' /\ ~w'[q].row
         /\ w'[q].row => w'[q].kind = "rundown" /\ pc'[q] \in {"fyi", "tell", "commit"}
         /\ pc'[q] = "slots" => w'[q].kind = "times"
         /\ pc'[q] = "ask" \/ pc'[q] = "book" => w'[q].kind = "ack"
<1>1. CASE Dies \/ Outside
  BY <1>1 DEF Dies, Outside, RundownInv, Busy, Lead
<1>2. CASE PollStep(q) /\ pc[q] \notin Busy
  <2>1. PICK r \in Replies : TakesUp(q, r)
    BY <1>2, TakenUp
  <2>2. Lead(q)' = From[r] /\ briefed' = briefed /\ ~w'[q].row
    BY <2>1 DEF TakesUp, Lead, Stands
  <2> QED
    BY <2>1, <2>2 DEF TakesUp, Begins
<1>3. CASE PollStep(q) /\ pc[q] \in Busy
  <2>1. w'[q].reply = w[q].reply /\ w'[q].kind = w[q].kind /\ Lead(q)' = Lead(q)
    BY <1>3, WorkCarries DEF Lead
  <2>2. /\ pc[q] = "mail" /\ w[q].kind = "rundown" => Lead(q) \notin briefed /\ ~w[q].row
        /\ w[q].row => w[q].kind = "rundown" /\ pc[q] \in {"fyi", "tell", "commit"}
        /\ pc[q] = "slots" => w[q].kind = "times"
        /\ pc[q] = "ask" \/ pc[q] = "book" => w[q].kind = "ack"
    BY <1>3 DEF RundownInv
  <2>3. w[q] \in Works
    BY SessionFacts
  <2>4. CASE Saves(q)
    <3>1. ~w'[q].row
      BY <2>3, <2>4, FlushedWork DEF Saves
    <3>2. pc[q] = "mail" /\ w[q].kind = "rundown" => briefed' = briefed
      BY <2>2, <2>4 DEF Saves, Writes
    <3> QED
      BY <2>1, <2>2, <2>4, <3>1, <3>2 DEF Saves
  <2>5. CASE OffersTimes(q)
    BY <2>1, <2>2, <2>3, <2>5, FlushedWork DEF OffersTimes
  <2>6. CASE Sends(q)
    <3>1. /\ pc'[q] \in {"fyi", "commit", "tell"} /\ pc[q] = "mail"
          /\ w'[q] = w[q] \/ (w'[q] = [w[q] EXCEPT !.row = (w[q].kind = "rundown")]
                              /\ pc'[q] \in {"fyi", "commit"})
      BY <2>6 DEF Sends
    <3>2. w'[q].row => w[q].kind = "rundown"
      BY <2>2, <2>3, <3>1 DEF Works
    <3> QED
      BY <2>1, <3>1, <3>2
  <2>7. CASE GoesOn(q)
    <3>1. w'[q] = w[q] \/ w'[q] = [w[q] EXCEPT !.to = "ENGAGED"]
      BY <2>7 DEF GoesOn
    <3>2. w'[q].row = w[q].row
      BY <2>3, <3>1 DEF Works
    <3> QED
      BY <2>1, <2>2, <2>7, <3>2 DEF GoesOn
  <2> QED
    BY <1>3, <2>4, <2>5, <2>6, <2>7 DEF PollStep, LooksOn, TakesUp, Closes, BreaksOff, Drops, Busy,
       Resting
<1> QED
  BY <1>1, <1>2, <1>3, SerialSteps

(* The row of a rundown is committed, still in the session, or lost by a     *)
(* failure.                                                                  *)
LEMMA RowStays ==
  ASSUME SolePoller, Typed, AnyStep, FreshInv, RundownInv, NEW l \in Leads,
         l \in briefed \/ RowOf(l)
  PROVE  l \in briefed' \/ RowOf(l)' \/ faults' = faults + 1
<1>1. briefed \subseteq briefed'
  BY Monotone
<1>2. CASE l \in briefed
  BY <1>1, <1>2
<1>3. ASSUME NEW p \in Pollers, w[p].row, Lead(p) = l
      PROVE  l \in briefed' \/ RowOf(l)' \/ faults' = faults + 1
  <2>1. pc[p] \in Busy /\ w[p] \in Works
    BY <1>3, SessionFacts, NoWorkTyped
  <2>2. pc[p] \in {"fyi", "tell", "commit"}
    BY <1>3, <2>1 DEF RundownInv
  <2>3. CASE Dies
    BY <2>3 DEF Dies
  <2>4. CASE Outside
    BY <1>3, <2>4 DEF Outside, RowOf, Lead
  <2>5. CASE PollStep(p)
    <3>1. ~Conflict(p)
      BY <2>1, NoConflict
    <3>2. CASE Closes(p)
      BY <1>3, <3>2 DEF Closes, Writes
    <3>3. CASE GoesOn(p)
      BY <1>3, <2>2, <3>3 DEF GoesOn, RowOf, Lead
    <3>4. CASE Drops(p)
      BY <3>1, <3>4 DEF Drops
    <3> QED
      BY <2>2, <2>5, <3>2, <3>3, <3>4 DEF PollStep, LooksOn, TakesUp, Saves, OffersTimes, BreaksOff,
         Sends, Resting
  <2> QED
    BY <2>3, <2>4, <2>5, SerialSteps
<1> QED
  BY <1>2, <1>3 DEF RowOf

LEMMA RundownStep ==
  ASSUME SolePoller, Typed, Typed', AnyStep, FreshInv, RundownInv
  PROVE  RundownInv'
<1>1. ASSUME NEW l \in Leads
      PROVE  rundowns'[l] <= faults' + (IF l \in briefed' \/ RowOf(l)' THEN 1 ELSE 0)
  <2>1. rundowns[l] <= faults + (IF l \in briefed \/ RowOf(l) THEN 1 ELSE 0)
    BY DEF RundownInv, RowOf
  <2>2. rundowns[l] \in Nat /\ rundowns'[l] \in Nat /\ faults \in Nat /\ faults' \in Nat
    BY ConstantFacts DEF Typed, TypeOK
  <2>3. l \in briefed \/ RowOf(l) => l \in briefed' \/ RowOf(l)' \/ faults' = faults + 1
    BY RowStays
  <2>4. faults' = faults \/ faults' >= faults + 1
    <3>1. faults' = faults \/ faults' = faults + 1 \/ faults' >= faults
      BY DEF AnyStep, Dies, Outside, PollStep, LooksOn, TakesUp, Saves, OffersTimes, Closes,
         BreaksOff, Sends, GoesOn, Drops, Stands
    <3> QED
      BY <2>2, <3>1
  <2>5. CASE rundowns'[l] = rundowns[l]
    BY <2>1, <2>2, <2>3, <2>4, <2>5
  <2>6. CASE rundowns'[l] # rundowns[l]
    <3>1. PICK p \in Pollers : PollStep(p) /\ Sends(p)
      <4>1. rundowns' # rundowns
        BY <2>6
      <4>2. PICK p \in Pollers : PollStep(p)
        BY <4>1 DEF AnyStep, Dies, Outside, Stands
      <4>3. ~LooksOn(p) /\ ~GoesOn(p) /\ ~Drops(p) /\ \A r \in Replies : ~TakesUp(p, r)
        BY <4>1 DEF LooksOn, GoesOn, Drops, TakesUp, Stands
      <4>4. ~Saves(p) /\ ~OffersTimes(p) /\ ~Closes(p) /\ ~BreaksOff(p)
        BY <4>1 DEF Saves, OffersTimes, Closes, BreaksOff, Writes
      <4> QED
        BY <4>2, <4>3, <4>4 DEF PollStep
    <3>2. /\ l = Lead(p) /\ w[p].kind = "rundown" /\ pc[p] = "mail" /\ pc[p] \in Busy
          /\ rundowns'[l] = rundowns[l] + 1
      BY <2>6, <3>1 DEF Sends, Busy
    <3>3. l \notin briefed /\ ~w[p].row
      BY <3>2 DEF RundownInv
    <3>4. ~RowOf(l)
      BY <3>3 DEF RowOf, SolePoller
    <3>5. w[p] \in Works
      BY SessionFacts
    <3>6. CASE faults' = faults + 1
      BY <2>1, <2>2, <3>2, <3>3, <3>4, <3>6
    <3>7. CASE faults' # faults + 1
      <4>1. w'[p] = [w[p] EXCEPT !.row = (w[p].kind = "rundown")] /\ faults' = faults
        BY <3>1, <3>7 DEF Sends
      <4>2. w'[p].row /\ w'[p].reply = w[p].reply
        BY <3>2, <3>5, <4>1 DEF Works
      <4>3. RowOf(l)'
        BY <3>2, <4>2 DEF RowOf, Lead
      <4> QED
        BY <2>1, <2>2, <3>2, <3>3, <3>4, <4>1, <4>3
    <3> QED
      BY <3>6, <3>7
  <2> QED
    BY <2>5, <2>6
<1> QED
  BY <1>1, RundownWork DEF RundownInv, RowOf

(* With one poll at a time a lead gets one rundown, and one more for each    *)
(* failure at most.                                                          *)
THEOREM BriefedOnce ==
  ASSUME SolePoller
  PROVE  Spec => []BriefedOncePerFailure
<1> DEFINE Inv == Typed /\ FreshInv /\ RundownInv
<1>1. Init => Inv
  BY TypedInit, FreshInit DEF Init, RundownInv, Busy
<1>2. Inv /\ [Next]_vars => Inv'
  BY StepKinds, FreshStep, RundownStep
<1>3. Inv => BriefedOncePerFailure
  <2> SUFFICES ASSUME Inv, NEW l \in Leads
               PROVE  rundowns[l] <= Cardinality(Pollers) * (1 + faults)
    BY DEF BriefedOncePerFailure
  <2>1. rundowns[l] \in Nat /\ faults \in Nat /\ rundowns[l] <= faults + 1
    BY SMTT(40) DEF RundownInv, Typed, TypeOK
  <2>2. Pollers = {Agent}
    BY PollerAssumption DEF SolePoller
  <2>3. Cardinality(Pollers) = 1
    BY <2>2, FS_Singleton
  <2> QED
    BY <2>1, <2>3
<1> QED
  BY <1>1, <1>2, <1>3, PTL DEF Spec

-----------------------------------------------------------------------------
(* One poll at a time: leads on the list are left alone *)

(* A lead that is put on the list is, by the last commit of a triage.        *)
LEMMA ListGrows ==
  ASSUME Typed, SessionInv, NEW p \in Pollers, PollStep(p), suppressed' # suppressed
  PROVE  /\ Closes(p) /\ w[p].supp /\ pc[p] \in Busy
         /\ suppressed' = suppressed \union {Lead(p)}
<1>1. PICK to : Writes(p, to)
  BY DEF PollStep, LooksOn, TakesUp, Sends, GoesOn, Drops, Stands, Saves, OffersTimes, Closes, BreaksOff
<1>2. pc[p] \in Busy /\ w[p].supp /\ suppressed' = suppressed \union {Lead(p)}
  BY <1>1 DEF Writes
<1>3. pc[p] = "commit"
  BY <1>2 DEF SessionInv
<1>4. Closes(p)
  BY <1>3 DEF PollStep, LooksOn, TakesUp, Saves, OffersTimes, Closes, BreaksOff, Sends, GoesOn, Drops,
     Stands, Busy, Resting
<1> QED
  BY <1>2, <1>4

LEMMA GoneStep ==
  ASSUME SolePoller, Typed, Typed', AnyStep, SessionInv, GoneInv
  PROVE  GoneInv'
<1>1. ASSUME NEW l \in suppressed'
      PROVE  /\ leadState'[l] \in Gone
             /\ \A p \in Pollers : copy'[p][l].state \in Gone \union {None}
  <2>1. CASE Dies
    <3>1. l \in suppressed /\ l \in Leads
      BY <2>1 DEF Dies, Stands, Typed, TypeOK
    <3>2. leadState'[l] = leadState[l] /\ \A p \in Pollers : copy'[p][l].state = None
      BY <2>1, <3>1 DEF Dies, Stands, NoCopy
    <3> QED
      BY <3>1, <3>2 DEF GoneInv
  <2>2. CASE Outside
    <3>1. l \in suppressed /\ l \in Leads /\ copy' = copy
      BY <2>2 DEF Outside, Typed, TypeOK
    <3>2. leadState[l] # "AWAITING_APPROVAL"
      BY <3>1 DEF GoneInv, Gone
    <3>3. leadState'[l] = leadState[l]
      BY <2>2, <3>1, <3>2 DEF Outside, Typed, TypeOK
    <3> QED
      BY <3>1, <3>3 DEF GoneInv
  <2>3. ASSUME NEW p \in Pollers, PollStep(p)
        PROVE  leadState'[l] \in Gone /\ copy'[p][l].state \in Gone \union {None}
    <3>0. l \in Leads
      BY <1>1 DEF Typed, TypeOK
    <3>1. CASE l \notin suppressed
      <4>1. Closes(p) /\ w[p].supp /\ pc[p] \in Busy /\ l = Lead(p)
        BY <1>1, <2>3, <3>1, ListGrows
      <4>2. w[p].to \in Gone /\ copy[p][l].state \in Gone
        BY <4>1 DEF GoneInv
      <4>3. leadState'[l] = w[p].to
        BY <3>0, <4>1, <4>2, ConstantFacts DEF Closes, Writes, Gone, LeadState
      <4> QED
        BY <4>1, <4>2, <4>3 DEF Closes
    <3>2. CASE l \in suppressed
      <4>1. leadState[l] \in Gone /\ copy[p][l].state \in Gone \union {None}
        BY <3>2 DEF GoneInv
      <4>2. pc[p] \in Busy /\ l = Lead(p) => pc[p] = "commit" /\ w[p].to = None
        BY <3>2 DEF GoneInv
      <4>3. leadState'[l] = leadState[l]
        BY <2>3, <3>0, <4>2 DEF PollStep, LooksOn, TakesUp, Saves, OffersTimes, Closes, BreaksOff, Sends,
           GoesOn, Drops, Stands, Writes
      <4>4. CASE copy'[p] = copy[p]
        BY <4>1, <4>3, <4>4
      <4>5. CASE Renewed(p)
        <5>1. NoCopy[l].state = None
          BY <3>0 DEF NoCopy
        <5>2. copy'[p][l].state \in {None, leadState[l]}
          <6>1. \/ copy'[p][l] = NoCopy[l]
                \/ copy'[p][l] = [state |-> leadState[l], offered |-> l \in offered]
            BY <3>0, <4>5 DEF Renewed
          <6> QED
            BY <5>1, <6>1
        <5> QED
          BY <4>1, <4>3, <5>2
      <4>6. ASSUME NEW r \in Replies, TakesUp(p, r)
            PROVE  copy'[p][l].state = copy[p][l].state
        <5>1. CASE l = From[r] /\ w'[p].to # None
          <6>1. PICK k \in Works : k = w'[p] /\ Begins(p, r, pc'[p], k)
            BY <4>6 DEF TakesUp
          <6>2. Me(p, r).state \in TRIAGEABLE_STATES
            BY <5>1, <6>1 DEF Begins, Uncommitted, TRIAGEABLE_STATES
          <6> QED
            BY <4>1, <5>1, <6>2, ConstantFacts DEF Me, Gone, TRIAGEABLE_STATES, LeadState
        <5>2. CASE ~(l = From[r] /\ w'[p].to # None)
          BY <3>0, <4>6, <5>2 DEF TakesUp
        <5> QED
          BY <5>1, <5>2
      <4>7. CASE GoesOn(p) \/ OffersTimes(p)
        <5>1. pc[p] = "slots" => l # Lead(p)
          BY <4>2 DEF Busy
        <5>2. copy'[p] = copy[p] \/ copy'[p][l] = copy[p][l]
          BY <3>0, <4>7, <5>1 DEF GoesOn, OffersTimes
        <5> QED
          BY <4>1, <4>3, <5>2
      <4> QED
        BY <2>3, <4>1, <4>3, <4>4, <4>5, <4>6, <4>7 DEF PollStep, LooksOn, Saves, Closes, BreaksOff, Sends,
           Drops
    <3> QED
      BY <3>1, <3>2
  <2>4. CASE \A p \in Pollers : PollStep(p)
    BY <2>3, <2>4, PollerAssumption
  <2> QED
    BY <2>1, <2>2, <2>4, SerialSteps
<1>2. ASSUME NEW q \in Pollers, pc'[q] \in Busy
      PROVE  /\ Lead(q)' \in suppressed' => pc'[q] = "commit" /\ w'[q].to = None
             /\ w'[q].supp => w'[q].to \in Gone /\ copy'[q][Lead(q)'].state \in Gone
  <2>1. CASE Dies \/ Outside
    BY <1>2, <2>1 DEF Dies, Outside, GoneInv, Busy, Lead
  <2>2. CASE PollStep(q)
    <3>1. suppressed' = suppressed
      BY <1>2, <2>2, ListGrows DEF Closes, Busy
    <3>2. CASE pc[q] \in Busy
      <4>1. w'[q].reply = w[q].reply /\ (w'[q].supp => w[q].supp) /\ Lead(q)' = Lead(q)
        BY <1>2, <2>2, <3>2, WorkCarries DEF Lead
      <4>2. pc[q] # "commit"
        BY <1>2, <2>2 DEF PollStep, LooksOn, TakesUp, Saves, OffersTimes, Closes, BreaksOff, Sends,
           GoesOn, Drops, Busy, Resting
      <4>3. Lead(q) \notin suppressed /\ ~w[q].supp
        BY <3>2, <4>2 DEF GoneInv, SessionInv
      <4> QED
        BY <3>1, <4>1, <4>3
    <3>3. CASE pc[q] \notin Busy
      <4>1. PICK r \in Replies : TakesUp(q, r)
        BY <1>2, <2>2, <3>3, TakenUp
      <4>2. PICK k \in Works : k = w'[q] /\ Begins(q, r, pc'[q], k)
        BY <4>1 DEF TakesUp
      <4>3. Lead(q)' = From[r] /\ From[r] \in Leads
        BY <4>1, ConstantFacts DEF TakesUp, Lead
      <4>4. ASSUME From[r] \in suppressed PROVE pc'[q] = "commit" /\ k.to = None
        <5>1. Me(q, r).state \notin TRIAGEABLE_STATES
          BY <4>4, ConstantFacts DEF GoneInv, Me, Gone, TRIAGEABLE_STATES, LeadState
        <5> QED
          BY <4>2, <5>1 DEF Begins, Uncommitted, TRIAGEABLE_STATES
      <4>5. ASSUME k.supp PROVE k.to \in Gone /\ copy'[q][From[r]].state = k.to
        <5>1. k.to \in Gone
          BY <4>2, <4>5 DEF Begins, Gone
        <5>2. k.to # None
          BY <5>1, ConstantFacts DEF Gone, LeadState
        <5> QED
          BY <4>1, <4>2, <4>3, <5>1, <5>2, TakenCopy
      <4> QED
        BY <3>1, <4>2, <4>3, <4>4, <4>5
    <3> QED
      BY <3>2, <3>3
  <2> QED
    BY <2>1, <2>2, SerialSteps
<1> QED
  BY <1>1, <1>2 DEF GoneInv

(* With one poll at a time nothing is mailed to a lead on the list.          *)
THEOREM OptedOutAreNotMailed ==
  ASSUME SolePoller
  PROVE  Spec => OptedOutIsLeftAlone
<1> DEFINE Inv == Typed /\ SessionInv /\ GoneInv
           Apart == \A r \in Replies : mails'[r] > mails[r] => From[r] \notin suppressed
<1>1. Init => Inv
  BY TypedInit, SessionInit DEF Init, GoneInv, Busy
<1>2. Inv /\ [Next]_vars => Inv'
  BY StepKinds, SessionStep, GoneStep
<1>3. Inv /\ [Next]_vars => [Apart]_vars
  <2> SUFFICES ASSUME Inv, [Next]_vars, NEW r \in Replies, mails'[r] > mails[r]
               PROVE  From[r] \notin suppressed
    OBVIOUS
  <2>1. AnyStep
    BY StepKinds
  <2>2. mails[r] \in Nat /\ mails'[r] # mails[r]
    BY DEF Typed, TypeOK
  <2>3. PICK p \in Pollers : PollStep(p)
    BY <2>1, <2>2 DEF AnyStep, Dies, Outside, Stands
  <2>4. Sends(p) /\ r = w[p].reply
    BY <2>2, <2>3, MailsOf
  <2>5. pc[p] = "mail" /\ pc[p] \in Busy
    BY <2>4 DEF Sends, Busy
  <2> QED
    BY <2>4, <2>5 DEF GoneInv, Lead
<1> QED
  BY <1>1, <1>2, <1>3, PTL DEF Spec, OptedOutIsLeftAlone

-----------------------------------------------------------------------------
(* One poll at a time: the triage moves leads as the state machine allows *)

LEMMA TriageMoves ==
  /\ \A s \in {"SEQUENCE_ACTIVE", "OUTREACH_PENDING", "MEETING_PROPOSED"} : Life!MayMove(s, "ENGAGED")
  /\ \A s \in TRIAGEABLE_STATES, t \in Gone : Life!MayMove(s, t)
  /\ \A s \in Uncommitted : Life!MayMove(s, "MEETING_PROPOSED")
  /\ Life!MayMove("MEETING_PROPOSED", "AWAITING_APPROVAL")
  /\ \A t \in {"MEETING_CONFIRMED", "MEETING_PROPOSED"} : Life!MayMove("AWAITING_APPROVAL", t)
BY DEF TRIAGEABLE_STATES, Gone, Uncommitted, Life!MayMove, Life!ALLOWED_TRANSITIONS,
   Life!BypassTargets

(* What a triage is about to write is a move from what the copy says.        *)
LEMMA BegunMove ==
  ASSUME Typed, NEW p \in Pollers, NEW r \in Replies, TakesUp(p, r), w'[p].to # None
  PROVE  /\ Me(p, r).state \in TRIAGEABLE_STATES
         /\ Life!MayMove(Me(p, r).state, w'[p].to)
<1>1. PICK k \in Works : k = w'[p] /\ Begins(p, r, pc'[p], k)
  BY DEF TakesUp
<1>2. CASE k.to \in Gone /\ Me(p, r).state \in TRIAGEABLE_STATES
  BY <1>1, <1>2, TriageMoves
<1>3. CASE k.to = "AWAITING_APPROVAL" /\ Me(p, r).state = "MEETING_PROPOSED"
  BY <1>1, <1>3, TriageMoves DEF TRIAGEABLE_STATES
<1>4. CASE k.to = EngagedFirst(Me(p, r).state)
  BY <1>1, <1>4, TriageMoves DEF EngagedFirst, TRIAGEABLE_STATES
<1>5. CASE k.to = Engaged(Me(p, r).state) /\ Me(p, r).state \in TRIAGEABLE_STATES
  BY <1>1, <1>5, TriageMoves DEF Engaged, TRIAGEABLE_STATES
<1> QED
  BY <1>1, <1>2, <1>3, <1>4, <1>5 DEF Begins, Gone, Uncommitted, TRIAGEABLE_STATES

(* What each kind of step leaves in memory of the leads. *)
LEMMA BeliefStep ==
  ASSUME SolePoller, Typed, Typed', AnyStep, BeliefInv, NEW q \in Pollers
  PROVE  /\ \A l \in Leads :
              \/ copy'[q][l].state \in {None, leadState'[l], "AWAITING_APPROVAL"}
              \/ pc'[q] \in Busy /\ l = Lead(q)' /\ w'[q].to # None
         /\ pc'[q] \in Busy /\ w'[q].to # None =>
              /\ leadState'[Lead(q)'] # "AWAITING_APPROVAL"
              /\ copy'[q][Lead(q)'].state = w'[q].to
              /\ Life!MayMove(leadState'[Lead(q)'], w'[q].to)
         /\ pc'[q] = "slots" => w'[q].to = None /\ copy'[q][Lead(q)'].state \in Uncommitted
<1> DEFINE Believed(l) == \/ copy'[q][l].state \in {None, leadState'[l], "AWAITING_APPROVAL"}
                          \/ pc'[q] \in Busy /\ l = Lead(q)' /\ w'[q].to # None
           Pending == pc'[q] \in Busy /\ w'[q].to # None =>
              /\ leadState'[Lead(q)'] # "AWAITING_APPROVAL"
              /\ copy'[q][Lead(q)'].state = w'[q].to
              /\ Life!MayMove(leadState'[Lead(q)'], w'[q].to)
           Slots == pc'[q] = "slots" => w'[q].to = None /\ copy'[q][Lead(q)'].state \in Uncommitted
<1> SUFFICES (\A l \in Leads : Believed(l)) /\ Pending /\ Slots
  OBVIOUS
<1>1. \A l \in Leads : \/ copy[q][l].state \in {None, leadState[l], "AWAITING_APPROVAL"}
                       \/ pc[q] \in Busy /\ l = Lead(q) /\ w[q].to # None
  BY DEF BeliefInv
<1>2. pc[q] \in Busy /\ w[q].to # None =>
        /\ leadState[Lead(q)] # "AWAITING_APPROVAL"
        /\ copy[q][Lead(q)].state = w[q].to
        /\ Life!MayMove(leadState[Lead(q)], w[q].to)
  BY DEF BeliefInv
<1>3. pc[q] = "slots" => w[q].to = None /\ copy[q][Lead(q)].state \in Uncommitted
  BY DEF BeliefInv
<1>4. /\ w[q] \in Works
      /\ pc[q] \in Busy => w[q].reply \in Replies /\ Lead(q) \in Leads /\ LeadOrg[Lead(q)] = org[q]
      /\ pc[q] \in Resting => w[q] = NoWork
      /\ NoWork.to = None
  BY SessionFacts, NoWorkTyped
<1>5. "slots" \in Busy /\ \A s \in Resting : s \notin Busy
  BY DEF Busy, Resting
<1>6. ASSUME Renewed(q), w'[q] = NoWork, pc'[q] \in Resting,
             \A l \in Leads : leadState'[l] = leadState[l] \/ (pc[q] \in Busy /\ l = Lead(q))
      PROVE  (\A l \in Leads : Believed(l)) /\ Pending /\ Slots
  <2>1. ASSUME NEW l \in Leads PROVE Believed(l)
    <3>1. \/ copy'[q][l] = NoCopy[l]
          \/ /\ copy'[q][l] = [state |-> leadState[l], offered |-> l \in offered]
             /\ pc[q] \in Busy => LeadOrg[l] # org[q]
      BY <1>6 DEF Renewed
    <3>2. NoCopy[l].state = None
      BY DEF NoCopy
    <3>3. \/ copy'[q][l].state = None
          \/ copy'[q][l].state = leadState[l] /\ (pc[q] \in Busy => l # Lead(q))
      BY <1>4, <3>1, <3>2
    <3> QED
      BY <1>6, <3>3
  <2> QED
    BY <1>4, <1>5, <1>6, <2>1
<1>7. CASE Dies
  <2>1. \A l \in Leads : NoCopy[l].state = None
    BY DEF NoCopy
  <2> QED
    BY <1>7, <2>1 DEF Dies, Busy
<1>8. CASE Outside
  <2>1. copy' = copy /\ w' = w /\ pc' = pc /\ Lead(q)' = Lead(q)
    BY <1>8 DEF Outside, Lead
  <2>2. \A l \in Leads : leadState[l] # "AWAITING_APPROVAL" => leadState'[l] = leadState[l]
    BY <1>8 DEF Outside, Typed, TypeOK
  <2>3. \A l \in Leads : Believed(l)
    BY <1>1, <2>1, <2>2
  <2>4. Pending
    BY <1>2, <1>4, <2>1, <2>2
  <2>5. Slots
    BY <1>3, <2>1
  <2> QED
    BY <2>3, <2>4, <2>5
<1>9. CASE LooksOn(q)
  <2>1. w[q] = NoWork /\ w'[q] = NoWork /\ pc'[q] \in Resting /\ leadState' = leadState
    BY <1>4, <1>9 DEF LooksOn, Stands
  <2>2. CASE Renewed(q)
    BY <1>6, <2>1, <2>2
  <2>3. CASE copy'[q] = copy[q]
    BY <1>1, <1>4, <1>5, <2>1, <2>3
  <2> QED
    BY <1>9, <2>2, <2>3 DEF LooksOn
<1>10. ASSUME NEW r \in Replies, TakesUp(q, r)
       PROVE  (\A l \in Leads : Believed(l)) /\ Pending /\ Slots
  <2>1. /\ leadState' = leadState /\ pc[q] \notin Busy /\ pc'[q] \in Busy
        /\ Lead(q)' = From[r] /\ From[r] \in Leads
    BY <1>10, ConstantFacts DEF TakesUp, Stands, Lead, Busy
  <2>2. \A l \in Leads : copy[q][l].state \in {None, leadState[l], "AWAITING_APPROVAL"}
    BY <1>1, <2>1
  <2>3. \A l \in Leads : copy'[q][l].state = IF l = From[r] /\ w'[q].to # None THEN w'[q].to
                                                                             ELSE copy[q][l].state
    BY <1>10, TakenCopy
  <2>4. \A l \in Leads : Believed(l)
    BY <2>1, <2>2, <2>3
  <2>5. Slots
    BY <1>10, <2>1, TakenCopy
  <2>6. ASSUME w'[q].to # None
        PROVE  /\ leadState'[From[r]] # "AWAITING_APPROVAL"
               /\ copy'[q][From[r]].state = w'[q].to
               /\ Life!MayMove(leadState'[From[r]], w'[q].to)
    <3>1. /\ copy[q][From[r]].state \in TRIAGEABLE_STATES
          /\ Life!MayMove(copy[q][From[r]].state, w'[q].to)
      BY <1>10, <2>6, BegunMove DEF Me
    <3>2. copy[q][From[r]].state = leadState[From[r]]
      BY <2>1, <2>2, <3>1, ConstantFacts DEF TRIAGEABLE_STATES, LeadState
    <3>3. leadState[From[r]] # "AWAITING_APPROVAL"
      BY <3>1, <3>2 DEF TRIAGEABLE_STATES
    <3> QED
      BY <2>1, <2>3, <2>6, <3>1, <3>2, <3>3
  <2> QED
    BY <2>1, <2>4, <2>5, <2>6
<1>11. CASE Saves(q) \/ Closes(q)
  <2>1. /\ pc[q] \in Busy /\ copy'[q] = copy[q] /\ w'[q].to = None
        /\ \A l \in Leads : leadState'[l] = IF w[q].to # None /\ l = Lead(q) THEN w[q].to ELSE leadState[l]
    BY <1>4, <1>11, FlushedWork DEF Saves, Closes, Writes
  <2>2. \A l \in Leads : Believed(l)
    BY <1>1, <1>2, <2>1
  <2>3. Slots
    <3> SUFFICES ASSUME pc'[q] = "slots" PROVE copy'[q][Lead(q)'].state \in Uncommitted
      BY <2>1
    <3>1. pc[q] = "slots" /\ w'[q] = Flushed(q)
      BY <1>11 DEF Saves, Closes
    <3>2. Lead(q)' = Lead(q)
      BY <1>4, <3>1, FlushedWork DEF Lead
    <3> QED
      BY <1>3, <2>1, <3>1, <3>2
  <2> QED
    BY <2>1, <2>2, <2>3
<1>12. CASE OffersTimes(q)
  <2>1. /\ pc'[q] = "mail" /\ w'[q].to = None /\ pc[q] = "slots" /\ pc[q] \in Busy
        /\ \A l \in Leads : leadState'[l] = IF l = Lead(q) THEN "MEETING_PROPOSED" ELSE leadState[l]
        /\ \A l \in Leads : copy'[q][l].state = IF l = Lead(q) THEN "MEETING_PROPOSED" ELSE copy[q][l].state
    BY <1>4, <1>12, FlushedWork, ConstantFacts DEF OffersTimes, Writes, LeadState, TRIAGEABLE_STATES
  <2> QED
    BY <1>1, <1>3, <2>1
<1>13. CASE BreaksOff(q) \/ Drops(q)
  <2>1. Renewed(q) /\ w'[q] = NoWork /\ pc'[q] \in Resting
    BY <1>13 DEF BreaksOff, Drops
  <2>2. \A l \in Leads : leadState'[l] = leadState[l] \/ (pc[q] \in Busy /\ l = Lead(q))
    BY <1>13 DEF BreaksOff, Drops, Writes, Stands
  <2> QED
    BY <1>6, <2>1, <2>2
<1>14. ASSUME copy'[q] = copy[q], w'[q].to = w[q].to, w'[q].reply = w[q].reply, leadState' = leadState,
              pc[q] \in Busy, pc'[q] \in Busy, pc'[q] # "slots"
       PROVE  (\A l \in Leads : Believed(l)) /\ Pending /\ Slots
  <2>1. Lead(q)' = Lead(q)
    BY <1>14 DEF Lead
  <2> QED
    BY <1>1, <1>2, <1>14, <2>1
<1>15. CASE Sends(q)
  <2>1. w'[q] = w[q] \/ w'[q] = [w[q] EXCEPT !.row = (w[q].kind = "rundown")]
    BY <1>15 DEF Sends
  <2>2. w'[q].to = w[q].to /\ w'[q].reply = w[q].reply
    BY <1>4, <2>1 DEF Works
  <2>3. /\ copy'[q] = copy[q] /\ leadState' = leadState /\ pc[q] \in Busy /\ pc'[q] \in Busy
        /\ pc'[q] # "slots"
    BY <1>15 DEF Sends, Busy
  <2> QED
    BY <1>14, <2>2, <2>3
<1>16. CASE GoesOn(q) /\ w'[q] = w[q] /\ copy'[q] = copy[q]
  BY <1>14, <1>16 DEF GoesOn, Busy
<1>17. CASE GoesOn(q) /\ ~(w'[q] = w[q] /\ copy'[q] = copy[q])
  <2>1. /\ pc[q] = "slots" /\ pc'[q] = "tell" /\ copy[q][Lead(q)].state # "ENGAGED"
        /\ w'[q] = [w[q] EXCEPT !.to = "ENGAGED"] /\ leadState' = leadState
        /\ \A l \in Leads : copy'[q][l] = IF l = Lead(q)
             THEN [copy[q][l] EXCEPT !.state = "ENGAGED"] ELSE copy[q][l]
    BY <1>17 DEF GoesOn
  <2>2. "ENGAGED" \in LeadState
    BY DEF LeadState, TRIAGEABLE_STATES
  <2>3. w'[q].to = "ENGAGED" /\ w'[q].reply = w[q].reply /\ Lead(q)' = Lead(q) /\ "ENGAGED" # None
    BY <1>4, <2>1, <2>2, ConstantFacts DEF Works, Lead
  <2>4. Lead(q) \in Leads /\ w[q].to = None /\ copy[q][Lead(q)].state \in Uncommitted
    BY <1>3, <1>4, <1>5, <2>1
  <2>5. leadState[Lead(q)] = copy[q][Lead(q)].state
    BY <1>1, <2>4, ConstantFacts DEF Uncommitted, LeadState, TRIAGEABLE_STATES
  <2>6. leadState[Lead(q)] \in {"SEQUENCE_ACTIVE", "OUTREACH_PENDING", "MEETING_PROPOSED"}
    BY <2>1, <2>4, <2>5 DEF Uncommitted
  <2>7. /\ copy'[q][Lead(q)].state = "ENGAGED"
        /\ \A l \in Leads \ {Lead(q)} : copy'[q][l].state = copy[q][l].state
    <3>1. copy'[q][Lead(q)] = [copy[q][Lead(q)] EXCEPT !.state = "ENGAGED"]
      BY <2>1, <2>4
    <3>2. [copy[q][Lead(q)] EXCEPT !.state = "ENGAGED"].state = "ENGAGED"
      BY <2>2, <2>4, CopyState
    <3>3. \A l \in Leads \ {Lead(q)} : copy'[q][l] = copy[q][l]
      BY <2>1
    <3> QED
      BY <3>1, <3>2, <3>3
  <2>8. \A l \in Leads : Believed(l)
    BY <1>1, <2>1, <2>3, <2>7 DEF Busy
  <2>9. Pending
    BY <2>1, <2>3, <2>6, <2>7, TriageMoves
  <2> QED
    BY <2>1, <2>8, <2>9
<1> QED
  BY <1>7, <1>8, <1>9, <1>10, <1>11, <1>12, <1>13, <1>15, <1>16, <1>17, SerialSteps DEF PollStep

(* Every change of a lead's state is a move of the life cycle. *)
LEMMA MoveStep ==
  ASSUME Typed, Typed', AnyStep, BeliefInv
  PROVE  [Life!Next]_leadState
<1> SUFFICES ASSUME leadState' # leadState PROVE Life!Next
  OBVIOUS
<1>1. leadState \in [Leads -> LeadState] /\ leadState' \in [Leads -> LeadState]
  BY DEF Typed, TypeOK
<1>2. ASSUME NEW l \in Leads, NEW to \in LeadState, Life!MayMove(leadState[l], to),
             \A m \in Leads : leadState'[m] = IF m = l THEN to ELSE leadState[m]
      PROVE  Life!Next
  <2>1. leadState' = [leadState EXCEPT ![l] = to]
    BY <1>1, <1>2
  <2>2. to \in Life!LeadState
    BY DEF LeadState, TRIAGEABLE_STATES, Life!LeadState
  <2> QED
    BY <1>2, <2>1, <2>2 DEF Life!Next
<1>3. CASE Outside
  <2>1. PICK l \in Leads, s \in {"MEETING_CONFIRMED", "MEETING_PROPOSED"} :
          leadState[l] = "AWAITING_APPROVAL" /\ leadState' = [leadState EXCEPT ![l] = s]
    BY <1>3 DEF Outside
  <2>2. Life!MayMove(leadState[l], s)
    BY <2>1, TriageMoves
  <2>3. s \in LeadState
    BY DEF LeadState, TRIAGEABLE_STATES
  <2> QED
    BY <1>1, <1>2, <2>1, <2>2, <2>3
<1>4. ASSUME NEW p \in Pollers, PollStep(p)
      PROVE  Life!Next
  <2>1. \/ Writes(p, w[p].to)
        \/ Writes(p, "MEETING_PROPOSED") /\ pc[p] = "slots"
    BY <1>4 DEF PollStep, LooksOn, TakesUp, Saves, OffersTimes, Closes, BreaksOff, Sends, GoesOn, Drops,
       Stands
  <2>2. pc[p] \in Busy /\ Lead(p) \in Leads /\ w[p].to \in LeadState \union {None}
    BY <2>1, SessionFacts DEF Writes, Works
  <2>3. CASE Writes(p, w[p].to)
    <3>1. w[p].to # None
      BY <1>1, <2>3 DEF Writes
    <3>2. Life!MayMove(leadState[Lead(p)], w[p].to)
      BY <2>2, <3>1 DEF BeliefInv
    <3>3. \A m \in Leads : leadState'[m] = IF m = Lead(p) THEN w[p].to ELSE leadState[m]
      BY <2>3, <3>1 DEF Writes
    <3> QED
      BY <1>2, <2>2, <3>1, <3>2, <3>3
  <2>4. CASE Writes(p, "MEETING_PROPOSED") /\ pc[p] = "slots"
    <3>1. w[p].to = None /\ copy[p][Lead(p)].state \in Uncommitted
      BY <2>4 DEF BeliefInv
    <3>2. leadState[Lead(p)] = copy[p][Lead(p)].state
      BY <2>2, <3>1, ConstantFacts DEF BeliefInv, Uncommitted, LeadState, TRIAGEABLE_STATES
    <3>3. Life!MayMove(leadState[Lead(p)], "MEETING_PROPOSED")
      BY <3>1, <3>2, TriageMoves
    <3>4. "MEETING_PROPOSED" \in LeadState /\ "MEETING_PROPOSED" # None
      BY ConstantFacts DEF LeadState, TRIAGEABLE_STATES
    <3>5. \A m \in Leads : leadState'[m] = IF m = Lead(p) THEN "MEETING_PROPOSED" ELSE leadState[m]
      BY <2>4, <3>4 DEF Writes
    <3> QED
      BY <1>2, <2>2, <3>3, <3>4, <3>5
  <2> QED
    BY <2>1, <2>3, <2>4
<1> QED
  BY <1>3, <1>4 DEF AnyStep, Dies, Stands

(* With one poll at a time the triage implements the life cycle of a lead:   *)
(* it moves leads along the state machine or along the direct assignments    *)
(* known of, though it works on copies read when the poll began.             *)
THEOREM TriageMovesAllowed ==
  ASSUME SolePoller
  PROVE  Spec => MovesAllowed
<1> DEFINE Inv == Typed /\ BeliefInv
<1>1. Init => Inv
  <2> SUFFICES ASSUME Init PROVE BeliefInv
    BY TypedInit
  <2>1. \A p \in Pollers : pc[p] = "idle" /\ \A l \in Leads : copy[p][l].state = None
    BY DEF Init, NoCopy
  <2> QED
    BY <2>1 DEF BeliefInv, Busy
<1>2. Inv /\ [Next]_vars => Inv'
  <2> SUFFICES ASSUME Inv, [Next]_vars PROVE BeliefInv'
    BY StepKinds
  <2> QED
    BY StepKinds, BeliefStep DEF BeliefInv
<1>3. Inv /\ [Next]_vars => [Life!Next]_leadState
  BY StepKinds, MoveStep
<1> QED
  BY <1>1, <1>2, <1>3, PTL DEF Spec, MovesAllowed
=============================================================================
