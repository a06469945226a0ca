------------------------------ MODULE Analytics ------------------------------
(***************************************************************************)
(* compute_analytics of app/services/analytics.py: what the dashboard tells *)
(* an organization of its outreach, computed from the rows as they are.     *)
(* mail is a set of outreach rows, replies a set of inbound ones; days are  *)
(* numbered, day 0 is a Monday.  Rates are in tenths of a percent (no       *)
(* denominator is so large that the rounding could meet a tie).             *)
(***************************************************************************)
EXTENDS Integers, FiniteSets

WEEKS_OF_HISTORY == 8

(* _rate *)
Rate(n, d) == IF d = 0 THEN 0 ELSE (2000 * n + d) \div (2 * d)

(* _week_start *)
WeekStart(day) == day - (day % 7)

Sent(mail) == {m \in mail : m.status = "SENT"}
LeadsOf(rows) == {r.lead : r \in rows}
InState(leads, s) == Cardinality({l \in DOMAIN leads : leads[l] = s})

(* Mutation: every reply counts, contacted or not. *)
FunnelOfAllReplies(leads, mail, replies) ==
  LET contacted == LeadsOf(Sent(mail))
      replied == LeadsOf(replies)
      interested == LeadsOf({r \in replies : r.positive})
  IN [contacted |-> Cardinality(contacted), replied |-> Cardinality(replied),
      interested |-> Cardinality(interested),
      booked |-> InState(leads, "MEETING_CONFIRMED"),
      failed |-> Cardinality({m \in mail : m.status = "FAILED"}),
      queued |-> Cardinality({m \in mail : m.status = "APPROVED"}),
      unsubscribed |-> InState(leads, "UNSUBSCRIBED"),
      reply_rate |-> Rate(Cardinality(replied), Cardinality(contacted)),
      interested_rate |-> Rate(Cardinality(interested), Cardinality(contacted)),
      meeting_rate |-> Rate(InState(leads, "MEETING_CONFIRMED"), Cardinality(contacted))]

(* Replies count for leads that were contacted; a meeting counts in any case. *)
Funnel(leads, mail, replies) ==
  LET contacted == LeadsOf(Sent(mail))
      replied == LeadsOf(replies) \intersect contacted
      interested == LeadsOf({r \in replies : r.positive}) \intersect contacted
  IN [contacted |-> Cardinality(contacted), replied |-> Cardinality(replied),
      interested |-> Cardinality(interested),
      booked |-> InState(leads, "MEETING_CONFIRMED"),
      failed |-> Cardinality({m \in mail : m.status = "FAILED"}),
      queued |-> Cardinality({m \in mail : m.status = "APPROVED"}),
      unsubscribed |-> InState(leads, "UNSUBSCRIBED"),
      reply_rate |-> Rate(Cardinality(replied), Cardinality(contacted)),
      interested_rate |-> Rate(Cardinality(interested), Cardinality(contacted)),
      meeting_rate |-> Rate(InState(leads, "MEETING_CONFIRMED"), Cardinality(contacted))]

(* A reply belongs to the last step its lead had been sent, which the triage *)
(* noted on it (_last_sent_step); 0 for none.                                *)
LastSentStep(mail, lead) ==
  LET steps == {m.step : m \in {x \in Sent(mail) : x.lead = lead}}
  IN IF steps = {} THEN 0 ELSE CHOOSE s \in steps : \A u \in steps : u <= s

PerStep(mail, replies) ==
  LET sent(s) == Cardinality({m \in Sent(mail) : m.step = s})
      got(s) == Cardinality({r \in replies : r.after = s})
  IN [s \in {m.step : m \in Sent(mail)} \union ({r.after : r \in replies} \ {0}) |->
        [sent |-> sent(s), replies |-> got(s), reply_rate |-> Rate(got(s), sent(s))]]

(* By the variant of the first step a lead was sent. *)
PerVariant(mail, replies) ==
  LET first == {m \in Sent(mail) : m.step = 1}
      contacted(v) == LeadsOf({m \in first : m.variant = v})
      replied(v) == contacted(v) \intersect LeadsOf(replies)
  IN [v \in {m.variant : m \in first} |->
        [contacted |-> Cardinality(contacted(v)), replied |-> Cardinality(replied(v)),
         reply_rate |-> Rate(Cardinality(replied(v)), Cardinality(contacted(v)))]]

(* The trend: this week and the ones before it. *)
Weekly(mail, replies, today) ==
  [w \in {WeekStart(today) - 7 * k : k \in 0..(WEEKS_OF_HISTORY - 1)} |->
     [sent |-> Cardinality({m \in Sent(mail) : WeekStart(m.day) = w}),
      replies |-> Cardinality({r \in replies : WeekStart(r.day) = w})]]
=============================================================================
