--------------------------- MODULE SettlementSaga ---------------------------
(***************************************************************************)
(* How a disputed settlement is decided.  The challenge is filed on the    *)
(* hub chain, the vote is taken on another chain (DisputeRelay.sol and     *)
(* UMA), and the two are connected by serverless functions that share one  *)
(* row of the table markets: the two challenge endpoints, the relay tick   *)
(* and the webhook that record the verdict, the callback of the AI worker  *)
(* that proposes prices, and the settlement engine.  Each reads the row,   *)
(* awaits other calls, and then writes market_config back whole, as it     *)
(* was read, with its own keys changed.                                    *)
(*                                                                         *)
(* MarketLifecycle has the bonds and the clock of the hub's contract; here *)
(* the window of the hub and the one computed from the row close at any    *)
(* time, in either order.  A challenge stands for the price it proposes,   *)
(* an answer of the AI worker for the price it found.                      *)
(***************************************************************************)
EXTENDS Integers, Sequences, FiniteSets

CONSTANTS
  Gasless,       \* challenges filed by the server for the user
  Direct,        \* challenges filed by the user, who then tells the server
  Ticks,         \* invocations of the relay tick that overlap
  Webhooks,      \* deliveries of DisputeResolved that overlap
  Engines,       \* invocations of the settlement engine that overlap
  Answers,       \* prices the AI worker reports
  Fractions,     \* those that are no whole number of dollars
  None,
  MaxChallenges, \* bound: challenges filed
  MaxAssertions, \* bound: assertions made
  MaxFaults      \* bound: invocations that die, calls that fail

Challenges == Gasless \cup Direct
Procs == Challenges \cup Ticks \cup Webhooks \cup Engines \cup Answers
Prices == Challenges \cup Answers
Verdicts == {"none", "challenger", "proposer"}

ASSUME SagaAssumption ==
  /\ None \notin Procs
  /\ Fractions \subseteq Answers
  /\ Gasless \cap Direct = {}
  /\ LET kinds == <<Challenges, Ticks, Webhooks, Engines, Answers>> IN
       \A i, j \in 1 .. 5 : i # j => kinds[i] \cap kinds[j] = {}
  /\ MaxChallenges \in Nat /\ MaxAssertions \in Nat /\ MaxFaults \in Nat

VARIABLES
  hub,    \* the market's contract: its challenge and its settlement price
  relay,  \* the disputes of DisputeRelay, in the order of their assertions
  row,    \* the market's row
  open,   \* whether the challenge window is open, by the hub and by the row
  pc,     \* what each invocation does next
  seen,   \* the row as the invocation has read it
  made,   \* the assertion the invocation has made or was told of, or 0
  faults

vars == <<hub, relay, row, open, pc, seen, made, faults>>

Configs == [assertion: 0 .. MaxAssertions, verdict: Verdicts]

Rows == [status: {"ACTIVE", "SETTLEMENT_REQUESTED", "SETTLED"},
         disputed: BOOLEAN,
         proposed: Prices \cup {None},     \* proposed_settlement_value
         alternative: Prices \cup {None},  \* alternative_settlement_value
         value: Prices \cup {None},        \* settlement_value
         config: Configs]

Hubs == [filed: SUBSET Challenges,
         challenge: Challenges \cup {None}, active: BOOLEAN, resolved: BOOLEAN,
         decided: [Challenges -> Verdicts],  \* as the bonds were paid out
         price: Prices \cup {None}]

Disputes == [challenge: Challenges, verdict: Verdicts]

NewRow == [status |-> "ACTIVE", disputed |-> FALSE, proposed |-> None, alternative |-> None,
           value |-> None, config |-> [assertion |-> 0, verdict |-> "none"]]

Init ==
  /\ hub = [filed |-> {}, challenge |-> None, active |-> FALSE, resolved |-> FALSE,
            decided |-> [c \in Challenges |-> "none"], price |-> None]
  /\ relay = <<>>
  /\ row = NewRow
  /\ open = [hub |-> TRUE, row |-> TRUE]
  /\ pc = [p \in Procs |-> "idle"]
  /\ seen = [p \in Procs |-> NewRow]
  /\ made = [p \in Procs |-> 0]
  /\ faults = 0

----------------------------------------------------------------------------
(* Steps of an invocation. *)

Step(p, from, to) == pc[p] = from /\ pc' = [pc EXCEPT ![p] = to]

\* The columns that the invocation uses later are read; its last step forgets
\* them.
Read(p, columns) ==
  seen' = [seen EXCEPT ![p] = [k \in DOMAIN row |-> IF k \in columns THEN row[k] ELSE NewRow[k]]]
Return(p) == seen' = [seen EXCEPT ![p] = NewRow] /\ made' = [made EXCEPT ![p] = 0]

\* market_config is written as a whole.
StoreAssertion(p) == row' = [row EXCEPT !.config = [seen[p].config EXCEPT !.assertion = made[p]]]
\* Mutant: the verdict is merged into the config as it is now.
StoreVerdictMerged(p, verdict) == row' = [row EXCEPT !.config.verdict = verdict]

StoreVerdict(p, verdict) ==
  row' = [row EXCEPT !.config = [seen[p].config EXCEPT !.verdict = verdict]]

\* relayTick and escalateToUMA: the challenge that is active on the hub is put
\* to the vote.
Escalate(p) ==
  /\ hub.active
  /\ Len(relay) < MaxAssertions
  /\ relay' = Append(relay, [challenge |-> hub.challenge, verdict |-> "none"])
  /\ made' = [made EXCEPT ![p] = Len(relay) + 1]

----------------------------------------------------------------------------
(* The challenge endpoints: gasless/challenge and settlements/challenge.    *)

\* isChallengeWindowActive; both endpoints refuse otherwise.
ReadMarket(c) ==
  /\ open.row /\ row.proposed # None
  /\ \/ c \in Gasless /\ Cardinality(hub.filed) < MaxChallenges /\ Step(c, "idle", "read")
     \/ Step(c, "filed", "ready")
  /\ Read(c, {"config"})
  /\ UNCHANGED <<hub, relay, row, open, made, faults>>

\* challengeSettlement and challengeSettlementFor.  Before the latter the
\* server synchronises the market and checks that the window is active,
\* which it is not after a resolution or the settlement.
FileChallenge(c) ==
  /\ Cardinality(hub.filed) < MaxChallenges
  /\ open.hub /\ ~hub.active
  /\ IF c \in Gasless
     THEN ~hub.resolved /\ hub.price = None /\ Step(c, "read", "ready")
     ELSE Step(c, "idle", "filed")
  /\ hub' = [hub EXCEPT !.filed = @ \cup {c}, !.challenge = c, !.active = TRUE, !.resolved = FALSE]
  /\ UNCHANGED <<relay, row, open, seen, made, faults>>

\* Mutant: market_config is overwritten with nothing.
UpdateRowDroppingConfig(c) ==
  /\ Step(c, "ready", "updated") \/ Step(c, "escalated", "made")
  /\ row' = [row EXCEPT !.disputed = TRUE, !.alternative = c, !.config = None]
  /\ UNCHANGED <<hub, relay, open, seen, made, faults>>

\* The row learns of the challenge.  The gasless endpoint runs this and the
\* escalation concurrently, the other one after one another.
UpdateRow(c) ==
  /\ Step(c, "ready", "updated") \/ Step(c, "escalated", "made")
  /\ row' = [row EXCEPT !.disputed = TRUE, !.alternative = c, !.config = seen[c].config]
  /\ UNCHANGED <<hub, relay, open, seen, made, faults>>

EscalateChallenge(c) ==
  /\ \/ Escalate(c) /\ Step(c, "updated", "made") /\ UNCHANGED seen
     \/ Escalate(c) /\ c \in Gasless /\ Step(c, "ready", "escalated") /\ UNCHANGED seen
     \/ ~hub.active /\ Step(c, "updated", "done") /\ Return(c) /\ UNCHANGED relay
  /\ UNCHANGED <<hub, row, open, faults>>

PersistAssertion(c) ==
  /\ Step(c, "made", "done")
  /\ StoreAssertion(c)
  /\ Return(c)
  /\ UNCHANGED <<hub, relay, open, faults>>

----------------------------------------------------------------------------
(* The relay tick and the webhook of the resolution. *)

\* Mutant: the tick leaves it to the endpoints to escalate.
TickReadEscalated(t) ==
  /\ row.disputed /\ row.proposed \notin Fractions /\ row.config.assertion # 0
  /\ Step(t, "idle", "check")
  /\ Read(t, {"config"})
  /\ UNCHANGED <<hub, relay, row, open, made, faults>>

\* The price is read as an integer: from a fraction the tick throws, before it
\* has done anything for this market or those after it.
TickRead(t) ==
  /\ row.disputed /\ row.proposed \notin Fractions
  /\ Step(t, "idle", IF row.config.assertion = 0 THEN "escalate" ELSE "check")
  /\ Read(t, {"config"})
  /\ UNCHANGED <<hub, relay, row, open, made, faults>>

TickEscalate(t) ==
  /\ \/ Escalate(t) /\ Step(t, "escalate", "store") /\ UNCHANGED seen
     \/ ~hub.active /\ Step(t, "escalate", "idle") /\ Return(t) /\ UNCHANGED relay
  /\ UNCHANGED <<hub, row, open, faults>>

TickStore(t) ==
  /\ Step(t, "store", "idle")
  /\ StoreAssertion(t)
  /\ Return(t)
  /\ UNCHANGED <<hub, relay, open, faults>>

\* Mutant: a vote that is still open counts as lost by the challenger.
TickCheckPending(t) ==
  /\ Step(t, "check", "idle")
  /\ StoreVerdict(t, IF relay[seen[t].config.assertion].verdict = "challenger"
                     THEN "challenger" ELSE "proposer")
  /\ Return(t)
  /\ UNCHANGED <<hub, relay, open, faults>>

TickCheck(t) ==
  LET verdict == relay[seen[t].config.assertion].verdict IN
  /\ Step(t, "check", "idle")
  /\ IF verdict = "none" THEN UNCHANGED row ELSE StoreVerdict(t, verdict)
  /\ Return(t)
  /\ UNCHANGED <<hub, relay, open, faults>>

\* The event names an assertion; the market is looked up by it.
WebhookRead(w) ==
  \E i \in DOMAIN relay :
    /\ relay[i].verdict # "none"
    /\ row.config = [assertion |-> i, verdict |-> "none"]
    /\ Step(w, "idle", "store")
    /\ Read(w, {"config"})
    /\ made' = [made EXCEPT ![w] = i]
    /\ UNCHANGED <<hub, relay, row, open, faults>>

WebhookStore(w) ==
  /\ Step(w, "store", "idle")
  /\ StoreVerdict(w, relay[made[w]].verdict)
  /\ Return(w)
  /\ UNCHANGED <<hub, relay, open, faults>>

\* assertionResolvedCallback.
Vote(i, verdict) ==
  /\ i \in DOMAIN relay /\ relay[i].verdict = "none"
  /\ relay' = [relay EXCEPT ![i].verdict = verdict]
  /\ UNCHANGED <<hub, row, open, pc, seen, made, faults>>

----------------------------------------------------------------------------
(* completeSettlementFromAIResult; between the two steps the evidence is    *)
(* committed on chain.                                                      *)

AnswerRead(a) ==
  /\ row.status # "SETTLED"
  /\ Step(a, "idle", "write")
  /\ Read(a, {"status", "config"})
  /\ UNCHANGED <<hub, relay, row, open, made, faults>>

AnswerWrite(a) ==
  /\ Step(a, "write", "done")
  /\ row' = IF row.status # seen[a].status THEN row
            ELSE [row EXCEPT !.status = "SETTLEMENT_REQUESTED", !.proposed = a,
                             !.config = seen[a].config]
  /\ Return(a)
  /\ UNCHANGED <<hub, relay, open, faults>>

----------------------------------------------------------------------------
(* maybeFinalizeSettlement. *)

\* A disputed market waits for the verdict.
EngineRead(e) ==
  /\ row.status = "SETTLEMENT_REQUESTED"
  /\ row.disputed => row.config.verdict # "none"
  /\ Step(e, "idle", "decide")
  /\ Read(e, {"disputed", "proposed", "alternative", "config"})
  /\ UNCHANGED <<hub, relay, row, open, made, faults>>

\* With a verdict the window is not looked at.  If the evidence was not
\* committed before, that is tried now and recorded.
EngineDecide(e) ==
  \/ /\ seen[e].disputed \/ ~open.row
     /\ Step(e, "decide", IF seen[e].disputed THEN "resolve" ELSE "settle")
     /\ row' \in {row, [row EXCEPT !.config = seen[e].config]}
     /\ UNCHANGED <<hub, relay, open, seen, made, faults>>
  \/ /\ ~seen[e].disputed /\ open.row
     /\ Step(e, "decide", "idle")
     /\ Return(e)
     /\ UNCHANGED <<hub, relay, row, open, faults>>

\* A resolution that fails is logged, and the settlement goes on.
EngineResolve(e) ==
  /\ Step(e, "resolve", "settle")
  /\ \/ /\ hub.active
        /\ hub' = [hub EXCEPT !.active = FALSE, !.resolved = TRUE,
                              !.decided[hub.challenge] = seen[e].config.verdict]
        /\ UNCHANGED faults
     \/ /\ hub.active /\ faults < MaxFaults
        /\ faults' = faults + 1
        /\ UNCHANGED hub
     \/ ~hub.active /\ UNCHANGED <<hub, faults>>
  /\ UNCHANGED <<relay, row, open, seen, made>>

\* Mutant: the verdict is not looked at.
PriceOfDisputed(r) == IF r.disputed THEN r.alternative ELSE r.proposed

PriceOf(r) ==
  IF r.disputed /\ r.config.verdict = "challenger" THEN r.alternative ELSE r.proposed

InChallengeWindow == open.hub /\ ~hub.resolved

\* Mutant: a settlement that reverts counts as done.
EngineSettleUnchecked(e) ==
  /\ Step(e, "settle", "record")
  /\ hub' = IF InChallengeWindow \/ hub.price # None THEN hub
            ELSE [hub EXCEPT !.price = PriceOf(seen[e])]
  /\ UNCHANGED <<relay, row, open, seen, made, faults>>

\* OBSettlementFacet.settleMarket reverts in the window, and the second time.
EngineSettle(e) ==
  IF InChallengeWindow \/ hub.price # None
  THEN /\ Step(e, "settle", "idle")
       /\ Return(e)
       /\ UNCHANGED <<hub, relay, row, open, faults>>
  ELSE /\ Step(e, "settle", "record")
       /\ hub' = [hub EXCEPT !.price = PriceOf(seen[e])]
       /\ UNCHANGED <<relay, row, open, seen, made, faults>>

EngineRecord(e) ==
  /\ Step(e, "record", "idle")
  /\ row' = IF row.status # "SETTLEMENT_REQUESTED" THEN row
            ELSE [row EXCEPT !.status = "SETTLED", !.value = PriceOf(seen[e]),
                             !.disputed = FALSE, !.config = seen[e].config]
  /\ Return(e)
  /\ UNCHANGED <<hub, relay, open, faults>>

----------------------------------------------------------------------------
\* A tick or an engine dies or gives up and is called again.  Before a step that
\* others have seen it might as well not have begun.  A call that fails has the
\* same effect as dying before it, except for a resolution.  The endpoints, the
\* webhook and the AI callback are not called again: they may just stop.
Die(p) ==
  /\ faults < MaxFaults
  /\ faults' = faults + 1
  /\ \/ p \in Ticks /\ Step(p, "store", "idle")
     \/ p \in Engines /\ \E from \in {"resolve", "settle", "record"} : Step(p, from, "idle")
  /\ Return(p)
  /\ UNCHANGED <<hub, relay, row, open>>

CloseWindow(clock) ==
  /\ open[clock]
  /\ open' = [open EXCEPT ![clock] = FALSE]
  /\ UNCHANGED <<hub, relay, row, pc, seen, made, faults>>

\* What an invocation that has begun goes on with.
GoOn(c) == ReadMarket(c) \/ UpdateRow(c) \/ EscalateChallenge(c) \/ PersistAssertion(c)
Tick(t) == TickRead(t) \/ TickEscalate(t) \/ TickStore(t) \/ TickCheck(t)
Webhook(w) == WebhookRead(w) \/ WebhookStore(w)
Answer(a) == AnswerRead(a) \/ AnswerWrite(a)
Engine(e) ==
  EngineRead(e) \/ EngineDecide(e) \/ EngineResolve(e) \/ EngineSettle(e) \/ EngineRecord(e)

Time == \E clock \in {"hub", "row"} : CloseWindow(clock)
UMA == \E i \in 1 .. MaxAssertions, verdict \in {"challenger", "proposer"} : Vote(i, verdict)

Next ==
  \/ \E c \in Challenges : GoOn(c) \/ FileChallenge(c)
  \/ \E t \in Ticks : Tick(t)
  \/ \E w \in Webhooks : Webhook(w)
  \/ \E a \in Answers : Answer(a)
  \/ \E e \in Engines : Engine(e)
  \/ UMA
  \/ \E p \in Ticks \cup Engines : Die(p)
  \/ Time

Spec == Init /\ [][Next]_vars

\* Ticks and engines are called again and again; a vote ends and time passes.
Fairness ==
  /\ \A t \in Ticks : WF_vars(Tick(t))
  /\ \A e \in Engines : WF_vars(Engine(e))
  /\ WF_vars(UMA)
  /\ WF_vars(Time)

FairSpec == Spec /\ Fairness

----------------------------------------------------------------------------
(* Properties. *)

PCs == {"idle", "filed", "read", "ready", "updated", "escalated", "made", "done", "check",
        "escalate", "store", "write", "decide", "resolve", "settle", "record"}

\* Every variable has its range.
TypeOK ==
  /\ hub \in Hubs /\ row \in Rows
  /\ relay \in Seq(Disputes) /\ Len(relay) <= MaxAssertions
  /\ open \in [{"hub", "row"} -> BOOLEAN]
  /\ pc \in [Procs -> PCs]
  /\ seen \in [Procs -> Rows]
  /\ made \in [Procs -> 0 .. MaxAssertions]
  /\ faults \in 0 .. MaxFaults

VotedFor(verdict, c) == \E i \in DOMAIN relay : relay[i].challenge = c /\ relay[i].verdict = verdict

\* However the writers of market_config overwrite one another, a verdict in
\* the row is UMA's verdict on the assertion in the row.
VerdictIsOfAssertion ==
  row.config.verdict # "none" =>
    /\ row.config.assertion \in DOMAIN relay
    /\ relay[row.config.assertion].verdict = row.config.verdict

\* The bond of a challenge is paid out as UMA voted on that challenge.
BondFollowsVote ==
  \A c \in Challenges : hub.decided[c] # "none" => VotedFor(hub.decided[c], c)

\* A challenger's price settles the market only after a vote for it.
PriceWasVoted == hub.price \in Challenges => VotedFor("challenger", hub.price)

\* A row that says SETTLED gives the price that settled the market on the hub.
RowFollowsHub == row.status = "SETTLED" => hub.price # None /\ row.value = hub.price

\* A market whose row says disputed is settled on the hub, whatever overlaps,
\* whatever is overwritten and whichever invocation dies; with faults, unless the
\* bound on the assertions is what keeps the ticks from going on.  (The runs that
\* check it have whole prices only.)
Disputed == row.disputed /\ row.status = "SETTLEMENT_REQUESTED"
DisputesEnd ==
  [](faults = 0 \/ Len(relay) < MaxAssertions) => (Disputed ~> hub.price # None)
=============================================================================
