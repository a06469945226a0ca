---------------------------- MODULE ReplyReading ----------------------------
(***************************************************************************)
(* How a reply is read: extract_slot_choice (app/services/replies.py) and,  *)
(* when it finds nothing, classify_reply (app/adapters/llm.py).  A reply is *)
(* what the patterns can find in it: the numbers of options in the order it *)
(* mentions them, ordinals, weekdays and times, and the kinds of phrases it *)
(* contains.  A slot is a day and an hour.                                  *)
(***************************************************************************)
EXTENDS Integers, Sequences, FiniteSets

CONSTANT NoSlot

Phrases == {"unsubscribe", "away", "not_interested", "interested", "meeting"}
VALID_CATEGORIES == {"INTERESTED", "QUESTION", "COMPLEX", "NOT_INTERESTED",
                     "UNSUBSCRIBE", "OUT_OF_OFFICE"}

(* What the LLM answers: not configured, no usable answer, no text at all,   *)
(* a category of its own invention, or one it was told of.                   *)
Verdicts == {"off", "fails", "null", "other"} \union VALID_CATEGORIES

-----------------------------------------------------------------------------
(* extract_slot_choice *)

(* "10am" for 10, "12pm" for 12: the hour on a twelve-hour clock. *)
Twelve(h) == IF h % 12 = 0 THEN 12 ELSE h % 12

(* The text of a slot's time is looked for anywhere in the reply: "2pm" is   *)
(* found in "12pm" as well.                                                  *)
Hears(hour, said) == /\ (hour < 12) = (said < 12)
                     /\ Twelve(said) \in {Twelve(hour), 10 + Twelve(hour)}

The(S) == CHOOSE x \in S : TRUE
At(slots, i) == IF i \in DOMAIN slots THEN slots[i] ELSE NoSlot

Only(fits) == IF Cardinality(fits) = 1 THEN The(fits) ELSE NoSlot

ByTime(pool, r) == Only({s \in pool : \E h \in r.hours : Hears(s.hour, h)})

ByDay(slots, r) ==
  LET offered == {slots[i] : i \in DOMAIN slots}
      named == {s \in offered : s.day \in r.days}
      oneDay == Cardinality({s.day : s \in named}) = 1
  IN IF oneDay /\ Cardinality(named) = 1 THEN The(named)
     ELSE ByTime(IF oneDay THEN named ELSE offered, r)

(* Of several options that are mentioned the first is taken, before any      *)
(* ordinal, day or time is looked at.                                        *)
ExtractSlotChoice(slots, r) ==
  IF slots = <<>> THEN NoSlot
  ELSE IF r.numbers # <<>> THEN At(slots, Head(r.numbers))
  ELSE IF Cardinality(r.ordinals) = 1 THEN At(slots, The(r.ordinals))
  ELSE ByDay(slots, r)

-----------------------------------------------------------------------------
(* classify_reply *)

(* Without an API key; "not interested" contains "interested". *)
HeuristicClassify(r) ==
  IF "not_interested" \in r.phrases THEN "NOT_INTERESTED"
  ELSE IF "interested" \in r.phrases THEN "INTERESTED"
  ELSE "COMPLEX"

(* _parse_classification, and the escape for an answer that is none.  A      *)
(* message without text, or a body that is not JSON, raises an exception     *)
(* that the escape does not catch.                                           *)
Parsed(v) == IF v = "null" THEN "RAISES"
             ELSE IF v \in VALID_CATEGORIES THEN v ELSE "COMPLEX"

(* Mutation: the model is asked first. *)
ClassifyByModel(r) ==
  IF r.verdict = "off"
    THEN IF "unsubscribe" \in r.phrases THEN "UNSUBSCRIBE"
         ELSE IF "away" \in r.phrases THEN "OUT_OF_OFFICE" ELSE HeuristicClassify(r)
    ELSE Parsed(r.verdict)

ClassifyReply(r) ==
  IF "unsubscribe" \in r.phrases THEN "UNSUBSCRIBE"
  ELSE IF "away" \in r.phrases THEN "OUT_OF_OFFICE"
  ELSE IF r.verdict = "off" THEN HeuristicClassify(r)
  ELSE Parsed(r.verdict)

(* The lead asked to meet. *)
WantsMeeting(r) == /\ ClassifyReply(r) = "INTERESTED"
                   /\ IF r.verdict = "off" THEN "meeting" \in r.phrases ELSE r.wants

(* ingest_reply reads a choice first, if times were offered. *)
Reading(slots, r) ==
  IF ExtractSlotChoice(slots, r) # NoSlot THEN "SLOT_SELECTED" ELSE ClassifyReply(r)

(* The categories of ReplyTriage. *)
Category(slots, r) ==
  IF Reading(slots, r) = "INTERESTED" THEN IF WantsMeeting(r) THEN "MEETING" ELSE "CURIOUS"
                                      ELSE Reading(slots, r)
=============================================================================
