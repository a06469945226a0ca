------------------------------ MODULE Research -------------------------------
(***************************************************************************)
(* What Julian finds out about a lead before it writes                      *)
(* (app/adapters/research.py, app/services/research.py): the company's home *)
(* page, fetched hop by hop behind a guard, recent news, and the LLM's      *)
(* notes on both.  web says what a host answers: "page", "empty" (no text), *)
(* "error" (a failed or refused request), "nowhere" (a redirect without a   *)
(* target), "garbled" (a redirect to something that is no URL), or the host *)
(* it redirects to.  public is the set of hosts the guard lets pass.        *)
(***************************************************************************)
EXTENDS Integers, Sequences, FiniteSets

CONSTANTS
  MAX_REDIRECTS,
  FreeMailers,  \* mailbox providers, whose home page says nothing of a lead
  NoHost

ASSUME RedirectAssumption == MAX_REDIRECTS \in Nat

(* What a host says of itself, as opposed to sending us elsewhere. *)
Answers == {"page", "empty", "error", "garbled"}

(* The lead's domain, or that of its address. *)
DomainFor(lead) ==
  IF lead.domain # NoHost THEN lead.domain
  ELSE IF lead.mailHost \in FreeMailers THEN NoHost ELSE lead.mailHost

(* Mutation: the client follows redirects by itself; only where it starts is *)
(* looked at.                                                                *)
GuardedOnce(web, public, host, hops) ==
  LET get[h \in DOMAIN web, n \in 0..hops] ==
        IF n = 0 \/ (n = hops /\ h \notin public) THEN [got |-> "nothing", asked |-> <<>>]
        ELSE IF web[h] \in Answers THEN [got |-> web[h], asked |-> <<h>>]
        ELSE IF web[h] = "nowhere" THEN [got |-> "nothing", asked |-> <<h>>]
        ELSE [get[web[h], n - 1] EXCEPT !.asked = <<h>> \o @]
  IN get[host, hops]

(* _get_guarded: what comes of it, and the hosts asked on the way, with n    *)
(* turns of the loop left.                                                   *)
Guarded(web, public, host, hops) ==
  LET get[h \in DOMAIN web, n \in 0..hops] ==
        IF n = 0 \/ h \notin public THEN [got |-> "nothing", asked |-> <<>>]
        ELSE IF web[h] \in Answers THEN [got |-> web[h], asked |-> <<h>>]
        ELSE IF web[h] = "nowhere" THEN [got |-> "nothing", asked |-> <<h>>]
        ELSE [get[web[h], n - 1] EXCEPT !.asked = <<h>> \o @]
  IN get[host, hops]

(* _fetch_website; a failed request is nothing found. *)
FetchWebsite(web, public, lead) ==
  IF DomainFor(lead) = NoHost THEN [got |-> "nothing", asked |-> <<>>]
  ELSE Guarded(web, public, DomainFor(lead), MAX_REDIRECTS + 1)

(* _search_news needs a key and a company; what fails brings no news.        *)
SearchNews(lead, news) == IF lead.company THEN news \ {"error"} ELSE {}

(* An exception that nothing before run_research catches: a redirect to what *)
(* is no URL, or a result of the search that is no object.                   *)
Raises(site, lead, news) == site.got = "garbled" \/ "garbled" \in SearchNews(lead, news)

(* LeadResearcher.research: notes with the sources they were drawn from, or  *)
(* "raises".  summary is what the LLM makes of the material: "notes", "none" *)
(* or "fails"; a failure is returned as if there were no notes.              *)
FindOut(web, public, lead, news, summary) ==
  LET site == FetchWebsite(web, public, lead)
      sources == (IF site.got = "page" THEN {site.asked[Len(site.asked)]} ELSE {})
                   \union SearchNews(lead, news)
  IN [outcome |-> IF Raises(site, lead, news) THEN "raises" ELSE "returns",
      asked |-> site.asked,
      notes |-> sources # {} /\ summary = "notes",
      sources |-> IF summary = "notes" THEN sources ELSE {}]

(* run_research: what a lead's columns hold afterwards. *)
RunResearch(found, before) ==
  IF found.outcome = "raises" THEN before
  ELSE [notes |-> found.notes, sources |-> found.sources, researched |-> TRUE]

(* maybe_research: once for each lead. *)
MaybeResearch(enabled, found, before) ==
  IF ~enabled \/ before.researched THEN before ELSE RunResearch(found, before)
=============================================================================
