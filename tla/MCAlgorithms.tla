---------------------------- MODULE MCAlgorithms ----------------------------
(***************************************************************************)
(* Instances for TLC of the parts that keep to themselves.  A behaviour is  *)
(* one walk over the business hours, the calls of the rate limiter, the     *)
(* subscriptions of an organization, or one input to a pure function, whose *)
(* result the invariants look at.                                           *)
(***************************************************************************)
EXTENDS BusinessHours, RateLimiter, Billing, ReplyReading, Research, Analytics, Functions, TLC

CONSTANTS home, shop, blog, gmail

(* A small calendar: up to two busy intervals at any place of the days       *)
(* searched, and a meeting that takes no time, less than half an hour, or    *)
(* half an hour.                                                             *)
CONSTANTS MaxDays, MaxCount, Lengths, Weekdays, MaxBusy

Moments == DayTicks..(MaxDays * DayTicks + Closing)
Intervals == {b \in Moments \X Moments : b[1] < b[2] /\ b[2] - b[1] <= MaxBusy}

NoRequest == [weekday |-> 0, busy |-> {}, duration |-> 0, count |-> 0, days |-> 0]

AllRequests ==
  {NoRequest} \union
    [weekday : Weekdays, busy : {{b, c} : b \in Intervals, c \in Intervals},
     duration : Lengths, count : 1..MaxCount, days : 1..MaxDays]

VARIABLE input

NoInput == input = [kind |-> "none"]

-----------------------------------------------------------------------------
(* Inputs *)

(* Four sets of offered times; 9:00 and 14:00 on two days. *)
Day1At9 == [day |-> 1, hour |-> 9]
Day1At14 == [day |-> 1, hour |-> 14]
Day2At14 == [day |-> 2, hour |-> 14]
Offers == {<<>>, <<Day1At9, Day1At14>>, <<Day1At9, Day2At14>>, <<Day1At9, Day1At14, Day2At14>>}

Read ==
  \E offer \in Offers, numbers \in {<<>>, <<1>>, <<3>>, <<1, 3>>, <<3, 1>>}, ordinals \in SUBSET {1, 3}, days \in SUBSET {1, 2},
     hours \in {{}, {9}, {12}, {14}, {23}, {9, 14}}, phrases \in SUBSET Phrases,
     verdict \in Verdicts, wants \in BOOLEAN :
    /\ numbers # <<>> => ordinals = {} /\ verdict = "off"
    /\ hours # {} => verdict \in {"off", "INTERESTED"}
    /\ wants => verdict = "INTERESTED"
    /\ input' = [kind |-> "reply", slots |-> offer,
                 r |-> [numbers |-> numbers, ordinals |-> ordinals, days |-> days, hours |-> hours,
                        phrases |-> phrases, verdict |-> verdict, wants |-> wants]]

(* A lead whose company has a site, which may send us on to another host or  *)
(* round in circles, or who writes from a mailbox provider.                  *)
Hosts == {home, shop, blog}
Company == {[domain |-> home, mailHost |-> gmail, company |-> TRUE],
            [domain |-> NoHost, mailHost |-> home, company |-> TRUE],
            [domain |-> NoHost, mailHost |-> gmail, company |-> FALSE]}
Unresearched == [notes |-> FALSE, sources |-> {}, researched |-> FALSE]
Researched == [notes |-> TRUE, sources |-> {blog}, researched |-> TRUE]

LookUp ==
  \E web \in [Hosts -> Hosts \union {"page", "empty", "error", "nowhere", "garbled"}],
     public \in SUBSET Hosts, lead \in Company, news \in {{}, {"story"}, {"error"}, {"garbled"}},
     summary \in {"notes", "none", "fails"}, before \in {Unresearched, Researched} :
    /\ input' = [kind |-> "research", web |-> web, public |-> public, lead |-> lead,
                 news |-> news, summary |-> summary, before |-> before]

(* Two leads, two steps, two variants; the last day of a week that is too    *)
(* long ago, the first one that is not, and today.                           *)
Today == 66
OldDays == {13, 14, Today}
NotWritten == [status |-> "none", day |-> Today]
Fates == {NotWritten, [status |-> "FAILED", day |-> Today], [status |-> "APPROVED", day |-> Today]}
           \union [status: {"SENT"}, day: OldDays]
NoReply == [positive |-> FALSE, day |-> 0]
Replied == {NoReply} \union [positive: BOOLEAN, day: {13, Today}]

MailOf(l, fates, variant) ==
  {[lead |-> l, step |-> s, status |-> fates[s].status, day |-> fates[s].day,
    variant |-> variant] : s \in {x \in {1, 2} : fates[x] # NotWritten}}

RepliesOf(l, r, mail) ==
  IF r = NoReply THEN {}
  ELSE {[lead |-> l, positive |-> r.positive, day |-> r.day, after |-> LastSentStep(mail, l)]}

Tabulate ==
  \E f1 \in [{1, 2} -> Fates], f2 \in [{1, 2} -> Fates], v \in {"pas", "aida"},
     r1 \in Replied, r2 \in Replied, s \in {"MEETING_CONFIRMED", "UNSUBSCRIBED", "ENGAGED"} :
    LET mail == MailOf(1, f1, "pas") \union MailOf(2, f2, v)
    IN input' = [kind |-> "rows", mail |-> mail, leads |-> <<s, "ENGAGED">>,
                 replies |-> RepliesOf(1, r1, mail) \union RepliesOf(2, r2, mail)]

Choose == NoInput /\ (Read \/ LookUp \/ Tabulate)

-----------------------------------------------------------------------------
(* One of the four *)

NotWalking == request = NoRequest /\ loop = "done"
NoCalls == Init
NoSubs == BillingInit

Begin == HoursInit /\ Init /\ BillingInit /\ NoInput

Proceed ==
  \/ Walk /\ UNCHANGED <<vars, billingVars, input>>
  \/ NotWalking /\ NoSubs /\ NoInput /\ Next /\ UNCHANGED <<hoursVars, billingVars, input>>
  \/ NotWalking /\ NoCalls /\ NoInput /\ BillingNext /\ UNCHANGED <<hoursVars, vars, input>>
  \/ NotWalking /\ NoCalls /\ NoSubs /\ Choose /\ UNCHANGED <<hoursVars, vars, billingVars>>

Algorithms == Begin /\ [][Proceed]_<<hoursVars, vars, billingVars, input>>

Symmetry == Permutations(Subs)

-----------------------------------------------------------------------------
(* Properties *)

(* An hour and the one whose name its own ends in: "12am", "11am", "12pm"    *)
(* and "11pm".                                                               *)
EndsIn == {<<0, 2>>, <<11, 1>>, <<12, 14>>, <<23, 13>>}

(* "opt-outs and autoresponders must never depend on an LLM call succeeding" *)
(* (llm.py:345): a reply that asks to be left alone is read as that whatever *)
(* the LLM says of it, unless it also chose a time.  A choice is only read   *)
(* where one was offered and the reply names it: by its place, of several    *)
(* options the first that is mentioned, by its day, or by its hour (or       *)
(* "12pm", say, whose last letters are "2pm"); and of two ordinals, of two   *)
(* days without an hour, or of two times that fit, none is chosen.  This is  *)
(* less than the docstring says (ChoiceIsUnambiguous).  A reply without any  *)
(* of the phrases goes to the rep when the LLM has no usable answer.         *)
ReadingIsSafe ==
  input.kind = "reply" =>
    LET r == input.r
        offer == input.slots
        chosen == ExtractSlotChoice(offer, r)
        reading == Reading(offer, r)
        said == r.hours \union {h[2] : h \in {x \in EndsIn : x[1] \in r.hours}}
    IN /\ "unsubscribe" \in r.phrases => reading \in {"UNSUBSCRIBE", "SLOT_SELECTED"}
       /\ (reading = "OUT_OF_OFFICE" /\ r.verdict # "OUT_OF_OFFICE") => "away" \in r.phrases
       /\ (r.verdict = "off" /\ "not_interested" \in r.phrases) =>
            reading \notin {"INTERESTED", "COMPLEX"}
       /\ (r.verdict \in {"fails", "other"} /\ r.phrases \intersect {"unsubscribe", "away"} = {}) =>
            reading \in {"COMPLEX", "SLOT_SELECTED"}
       /\ chosen # NoSlot =>
            /\ \E i \in DOMAIN offer : offer[i] = chosen /\
                 \/ r.numbers # <<>> /\ i = r.numbers[1]
                 \/ i \in r.ordinals
                 \/ chosen.day \in r.days \/ chosen.hour \in said
            /\ (r.numbers = <<>> /\ Cardinality(r.ordinals) = 2) => r.days \union r.hours # {}
            /\ (r.numbers = <<>> /\ r.ordinals = {} /\ r.hours = {}) =>
                 Cardinality({i \in DOMAIN offer : offer[i].day \in r.days}) = 1
            /\ (r.numbers = <<>> /\ r.ordinals = {} /\ r.days = {}) =>
                 Cardinality({i \in DOMAIN offer : offer[i].hour \in said}) = 1

(* "Returns the chosen slot only when the match is unambiguous -- anything   *)
(* uncertain returns None and goes to a human" (replies.py:112): a reply     *)
(* from which a time is read mentions one place at most, and no day and no   *)
(* hour but those of that time.  The code reads the first of "option 1 or    *)
(* option 3", a 9:00 that is the only time on a Monday from "Monday at 10",  *)
(* and 14:00 from "12pm".                                                    *)
ChoiceIsUnambiguous ==
  input.kind = "reply" =>
    LET r == input.r
        chosen == ExtractSlotChoice(input.slots, r)
    IN chosen # NoSlot =>
         /\ Cardinality(Range(r.numbers) \union r.ordinals) <= 1
         /\ r.days \subseteq {chosen.day}
         /\ r.hours \subseteq {chosen.hour}

(* The home page is looked for behind a guard that sees every host that is   *)
(* asked (research.py:121), a bounded number of them, and is found wherever  *)
(* redirects that the guard lets pass lead to it.  Notes are only kept with  *)
(* a source that was really read; a lead is researched once before writing;  *)
(* an exception that reaches run_research leaves the lead as it was, and an  *)
(* LLM that fails or has nothing to say leaves it researched without notes,  *)
(* the earlier ones gone (adapters/research.py:100-106).  Whether it should  *)
(* is FailureChangesNothing.                                                 *)
ResearchIsGuarded ==
  input.kind = "research" =>
    LET i == input
        found == FindOut(i.web, i.public, i.lead, i.news, i.summary)
        after == RunResearch(found, i.before)
        Leads_to(path) == /\ path[1] = DomainFor(i.lead)
                          /\ \A k \in 1..(Len(path) - 1) : i.web[path[k]] = path[k + 1]
                          /\ {path[k] : k \in DOMAIN path} \subseteq i.public
                          /\ i.web[path[Len(path)]] = "page"
        pages == {path[Len(path)] : path \in
                    {x \in UNION {[1..n -> Hosts] : n \in 1..(MAX_REDIRECTS + 1)} : Leads_to(x)}}
    IN /\ {found.asked[k] : k \in DOMAIN found.asked} \subseteq i.public
       /\ Len(found.asked) <= MAX_REDIRECTS + 1
       /\ after.notes <=> after.sources # {}
       /\ found.outcome = "raises" => after = i.before
       /\ (found.outcome = "returns" /\ i.summary # "notes") =>
            after = [notes |-> FALSE, sources |-> {}, researched |-> TRUE]
       /\ (found.outcome = "returns" /\ i.summary = "notes") =>
            after.sources = pages \union (IF i.lead.company THEN i.news \ {"error"} ELSE {})
       /\ i.before.researched => MaybeResearch(TRUE, found, i.before) = i.before

(* "Best-effort: on any failure the lead is left unchanged (notes stay       *)
(* None)" (services/research.py:16): what the lead had before an LLM that    *)
(* fails on the material it was given is there afterwards.  But research     *)
(* catches the exception and returns it as nothing found, so run_research    *)
(* stores that: the notes and sources of an earlier research are erased.     *)
FailureChangesNothing ==
  input.kind = "research" =>
    LET i == input
        Found(summary) == FindOut(i.web, i.public, i.lead, i.news, summary)
    IN (i.summary = "fails" /\ Found("notes").notes) =>
         RunResearch(Found("fails"), i.before) = i.before

(* "only count replies from leads we actually contacted" (analytics.py:77):  *)
(* each stage of the funnel is a part of the one before, and no rate of it   *)
(* but that of the meetings, which the rep may have made without a mail, can *)
(* pass 100%.                                                                *)
FunnelIsNested ==
  input.kind = "rows" =>
    LET funnel == Funnel(input.leads, input.mail, input.replies)
    IN /\ funnel.interested <= funnel.replied /\ funnel.replied <= funnel.contacted
       /\ funnel.reply_rate <= 1000 /\ funnel.interested_rate <= funnel.reply_rate

(* The tables agree with the rows and the funnel: every mail and every reply *)
(* after a mail is counted for one step, a step with replies was sent, the   *)
(* variants share out the leads whose first touch left, and the weeks hold   *)
(* what is not older than eight of them.                                     *)
TablesAgree ==
  input.kind = "rows" =>
    LET i == input
        funnel == Funnel(i.leads, i.mail, i.replies)
        steps == PerStep(i.mail, i.replies)
        variants == PerVariant(i.mail, i.replies)
        weeks == Weekly(i.mail, i.replies, Today)
        Total(table, Of(_)) == FoldFunction(LAMBDA x, y : Of(x) + y, 0, table)
        SentOf(x) == x.sent
        RepliesTo(x) == x.replies
        Contacted(x) == x.contacted
        RepliedTo(x) == x.replied
        Recent(rows) == {x \in rows : x.day >= Today - (Today % 7) - 49}
    IN /\ Total(steps, SentOf) = Cardinality({m \in i.mail : m.status = "SENT"})
       /\ Total(steps, RepliesTo) =
            Cardinality({r \in i.replies : \E m \in i.mail : m.lead = r.lead /\ m.status = "SENT"})
       /\ \A s \in DOMAIN steps : steps[s].sent > 0
       /\ Total(variants, Contacted) =
            Cardinality({m \in i.mail : m.step = 1 /\ m.status = "SENT"})
       /\ Total(variants, RepliedTo) <= funnel.replied
       /\ Cardinality(DOMAIN weeks) = 8
       /\ Total(weeks, SentOf) = Cardinality({m \in Recent(i.mail) : m.status = "SENT"})
       /\ Total(weeks, RepliesTo) = Cardinality(Recent(i.replies))

(* The figures of the dashboard agree with the rows and with one another.    *)
AnalyticsAgree == FunnelIsNested /\ TablesAgree
=============================================================================
