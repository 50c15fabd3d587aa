------------------------------ MODULE CodeContext ------------------------------
(***************************************************************************)
(* Model Context Cards (agent/code_context). A card holds facts that were  *)
(* extracted from three files and the fingerprints of these files, which   *)
(* the builder takes by reading them a second time. CI publishes cards;    *)
(* the agent uses a published card if its fingerprints are those of the    *)
(* files it finds, and derives a card itself if none is published. The     *)
(* files may change at any time.                                           *)
(***************************************************************************)
EXTENDS Integers, FiniteSets

CONSTANTS Models,
          Texts,            \* what a file may hold
          Large,            \* those from which an oversized card is extracted
          AllowLocalBuild,  \* fallback.allow_local_build_when_prebuilt_missing
          MaxEdits          \* changes of the files (bound)

ASSUME CodeAssumption ==
    /\ {"missing", "schema", "semantic"} \intersect (Texts \union Models) = {}
    /\ Large \subseteq Texts /\ AllowLocalBuild \in BOOLEAN /\ MaxEdits \in Nat

VARIABLES
    text,        \* the files of the checkout
    prebuilt,    \* metadata/model_context/<model>.yml
    ci,          \* build_model_context_cards.py
    agent,       \* one call of resolve, and the card it returns
    edits        \* (bound)

codeVars == <<text, prebuilt, ci, agent, edits>>

Missing == "missing"
Files == Models \union {"schema", "semantic"}   \* the SQL of a model has its name
SourcesOf(m) == <<m, "schema", "semantic">>
Contents == Texts \union {Missing}

(* quiet (history): no source of the card changed while it was built.      *)
Cards == [model : Models, facts : [1..3 -> Contents], prints : [1..3 -> Contents],
          quiet : BOOLEAN]
Unbuilt(m) == [model |-> m, facts |-> [k \in 1..3 |-> Missing],
               prints |-> [k \in 1..3 |-> Missing], quiet |-> TRUE]

NoCard == [kind |-> "none"]
Empty == [kind |-> "empty"]                      \* truncated, not yet written
Published(card) == [kind |-> "card", card |-> card]

Idle == [at |-> "idle"]

(* step: files read, first for the facts, then for the fingerprints.       *)
Building(todo, built, card) ==
    [at |-> "build", todo |-> todo, built |-> built, card |-> card, step |-> 0]
Comparing(card) == [at |-> "compare", card |-> card, seen |-> [k \in 1..3 |-> Missing], step |-> 0]

(* seen (history): the texts that spoke for the card.                      *)
Resolved(how, card, seen) == [at |-> "resolved", mode |-> how, card |-> card, seen |-> seen]

CodeInit ==
    /\ text \in [Files -> Contents]
    /\ prebuilt = [m \in Models |-> NoCard]
    /\ ci = Idle /\ agent = Idle /\ edits = 0

-----------------------------------------------------------------------------
(* One read of ModelContextCardBuilder.build.                              *)
Source(w) == SourcesOf(w.card.model)[(w.step % 3) + 1]
WithFact(card, k, t) == [card EXCEPT !.facts = [card.facts EXCEPT ![k] = t]]
WithPrint(card, k, t) == [card EXCEPT !.prints = [card.prints EXCEPT ![k] = t]]
ReadOn(w) ==
    [w EXCEPT !.step = w.step + 1,
              !.card = IF w.step < 3 THEN WithFact(w.card, w.step + 1, text[Source(w)])
                       ELSE WithPrint(w.card, w.step - 2, text[Source(w)])]

(* The SQL has no place among the files that may be absent.                *)
SqlIsGone(w) == w.step \in {0, 3} /\ text[Source(w)] = Missing

TooLarge(card) == \E k \in 1..3 : card.facts[k] \in Large

(* write_prebuilt: all the cards are built before the first is written.    *)
StartPublishing ==
    /\ ci = Idle
    /\ \E todo \in SUBSET Models \ {{}}, m \in Models :
          m \in todo /\ ci' = Building(todo \ {m}, {}, Unbuilt(m))
    /\ UNCHANGED <<text, prebuilt, agent, edits>>

NextCard(todo, built) ==
    IF todo = {}
    THEN ci' = [at |-> "write", built |-> built]
    ELSE \E m \in todo : ci' = Building(todo \ {m}, built, Unbuilt(m))

PublisherReads ==
    /\ ci.at = "build" /\ ci.step < 6 /\ ~ SqlIsGone(ci)
    /\ ci' = ReadOn(ci)
    /\ UNCHANGED <<text, prebuilt, agent, edits>>

(* No SQL: no card of that model. An SQL that disappears ends the script.  *)
PublisherMisses ==
    /\ ci.at = "build" /\ SqlIsGone(ci)
    /\ IF ci.step = 0 THEN NextCard(ci.todo, ci.built) ELSE ci' = Idle
    /\ UNCHANGED <<text, prebuilt, agent, edits>>

PublisherBuilt ==
    /\ ci.at = "build" /\ ci.step = 6
    /\ NextCard(ci.todo, ci.built \union {ci.card})
    /\ UNCHANGED <<text, prebuilt, agent, edits>>

(* path.write_text opens the file, which empties it, and writes at once.   *)
Truncate ==
    /\ ci.at = "write"
    /\ \E card \in ci.built :
          /\ prebuilt' = [prebuilt EXCEPT ![card.model] = Empty]
          /\ ci' = [at |-> "fill", built |-> ci.built \ {card}, card |-> card]
    /\ UNCHANGED <<text, agent, edits>>

Fill ==
    /\ ci.at = "fill"
    /\ prebuilt' = [prebuilt EXCEPT ![ci.card.model] = Published(ci.card)]
    /\ ci' = [at |-> "write", built |-> ci.built]
    /\ UNCHANGED <<text, agent, edits>>

(* All is written, or the script is stopped wherever it is.                *)
PublisherEnds ==
    /\ ci # Idle /\ ci' = Idle
    /\ UNCHANGED <<text, prebuilt, agent, edits>>

-----------------------------------------------------------------------------
(* resolve: what is published decides; an empty file is an ERROR.          *)
StartResolving ==
    /\ agent.at \in {"idle", "resolved"}
    /\ \E m \in Models :
          \/ prebuilt[m].kind = "card" /\ agent' = Comparing(prebuilt[m].card)
          \/ prebuilt[m].kind = "none" /\ AllowLocalBuild
             /\ agent' = Building({}, {}, Unbuilt(m))
    /\ UNCHANGED <<text, prebuilt, ci, edits>>

(* _stale_sources reads the fingerprinted files one after the other.       *)
CompareOne ==
    /\ agent.at = "compare" /\ agent.step < 3
    /\ agent' = [agent EXCEPT
          !.seen[agent.step + 1] = text[SourcesOf(agent.card.model)[agent.step + 1]],
          !.step = agent.step + 1]
    /\ UNCHANGED <<text, prebuilt, ci, edits>>

(* Slip: the SQL is the source, the contracts are about it.                *)
SqlIsStale(card, seen) == card.prints[1] # seen[1]

(* A file that was not there when the card was built has no fingerprint.   *)
Stale(card, seen) == \E k \in 1..3 : card.prints[k] # Missing /\ card.prints[k] # seen[k]

(* RESOLVED, or else STALE or BLOCKED, which return no card.               *)
Compared ==
    /\ agent.at = "compare" /\ agent.step = 3
    /\ agent' = IF Stale(agent.card, agent.seen) \/ TooLarge(agent.card)
                THEN Idle
                ELSE Resolved("prebuilt", agent.card, agent.seen)
    /\ UNCHANGED <<text, prebuilt, ci, edits>>

AgentReads ==
    /\ agent.at = "build" /\ agent.step < 6
    /\ agent' = IF SqlIsGone(agent) THEN Idle ELSE ReadOn(agent)
    /\ UNCHANGED <<text, prebuilt, ci, edits>>

AgentBuilt ==
    /\ agent.at = "build" /\ agent.step = 6
    /\ agent' = IF TooLarge(agent.card) THEN Idle
                ELSE Resolved("local", agent.card, agent.card.prints)
    /\ UNCHANGED <<text, prebuilt, ci, edits>>

Disturbed(w, f) ==
    IF w.at = "build" /\ w.step > 0 /\ \E k \in 1..3 : SourcesOf(w.card.model)[k] = f
    THEN [w EXCEPT !.card.quiet = FALSE] ELSE w

Edit ==
    /\ edits < MaxEdits /\ edits' = edits + 1
    /\ \E f \in Files, t \in Contents :
          /\ text' = [text EXCEPT ![f] = t]
          /\ ci' = Disturbed(ci, f) /\ agent' = Disturbed(agent, f)
    /\ UNCHANGED prebuilt

CodeNext ==
    \/ StartPublishing \/ PublisherReads \/ PublisherMisses \/ PublisherBuilt
    \/ Truncate \/ Fill \/ PublisherEnds
    \/ StartResolving \/ CompareOne \/ Compared \/ AgentReads \/ AgentBuilt
    \/ Edit

CodeSpec == CodeInit /\ [][CodeNext]_codeVars

-----------------------------------------------------------------------------
Builders == [at : {"build"}, todo : SUBSET Models, built : SUBSET Cards, card : Cards, step : 0..6]

CodeTypeOK ==
    /\ text \in [Files -> Contents]
    /\ prebuilt \in [Models -> {NoCard, Empty} \union [kind : {"card"}, card : Cards]]
    /\ ci \in {Idle} \union Builders \union [at : {"write"}, built : SUBSET Cards]
                \union [at : {"fill"}, built : SUBSET Cards, card : Cards]
    /\ agent \in {Idle} \union Builders
                   \union [at : {"compare"}, card : Cards, seen : [1..3 -> Contents], step : 0..3]
                   \union [at : {"resolved"}, mode : {"prebuilt", "local"}, card : Cards,
                           seen : [1..3 -> Contents]]
    /\ edits \in 0..MaxEdits

(* Every fact of the card is in the file that spoke for it. A file that    *)
(* was not there yields no fact.                                           *)
Current(r) == \A k \in 1..3 : r.card.facts[k] = Missing \/ r.card.facts[k] = r.seen[k]

(* A card that was built while nobody touched its files is only used if    *)
(* they still say the same when it is compared, whenever it was published  *)
(* and whatever was edited, replaced or truncated since.                   *)
QuietCardsAreCurrent ==
    agent.at = "resolved" /\ agent.card.quiet => Current(agent)
=============================================================================
