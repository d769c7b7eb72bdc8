------------------------ MODULE SettlementSagaProofs ------------------------
(***************************************************************************)
(* Theorems about SettlementSaga, for any number of invocations, answers,  *)
(* assertions and faults.  That the row follows the hub (IRow) holds       *)
(* whatever is challenged.  That verdicts, bonds and prices follow the     *)
(* vote (IVote) is proved for one challenge: with two it is not true.      *)
(***************************************************************************)
EXTENDS SettlementSaga, FiniteSetTheorems, TLAPS

\* The assertions that a config, or an invocation, names were made.
MadeOrNone(i) == i <= Len(relay)

\* What an invocation has read, or has just made, is an assertion that exists: a
\* tick that compares the verdict has seen one, a webhook that stores has found
\* one.
KnowsMade(p) ==
  /\ MadeOrNone(seen[p].config.assertion) /\ MadeOrNone(made[p])
  /\ p \in Ticks /\ pc[p] = "check" => seen[p].config.assertion # 0
  /\ p \in Webhooks /\ pc[p] = "store" => made[p] # 0

\* Every assertion named in the row, or in the hands of an invocation, exists.
AssertionsWereMade == MadeOrNone(row.config.assertion) /\ \A p \in Procs : KnowsMade(p)

\* The challenge that is active is one.
ActiveIsNamed == hub.active => hub.challenge # None

\* A row that asks for settlement has a price, and the other one if disputed.
HasPrices(r) ==
  /\ r.proposed # None
  /\ r.disputed => r.alternative # None

\* The prices that the states of the row need are in it.
RowHasPrices ==
  /\ row.status # "ACTIVE" => row.proposed # None
  /\ row.disputed => row.alternative # None

\* What an engine has read still holds for it, and a market that it has settled
\* has the price it will record.
EnginesKnow ==
  \A e \in Engines :
    /\ pc[e] \in {"decide", "resolve", "settle", "record"} => HasPrices(seen[e])
    /\ pc[e] = "record" => hub.price = PriceOf(seen[e])

\* An answer that is about to write has seen a row that was not settled.
AnswersKnow == \A a \in Answers : pc[a] = "write" => seen[a].status # "SETTLED"

\* The inductive invariant for any number of challenges.
IRow ==
  /\ TypeOK /\ AssertionsWereMade /\ ActiveIsNamed
  /\ RowHasPrices /\ EnginesKnow /\ AnswersKnow /\ RowFollowsHub

----------------------------------------------------------------------------
(* With one challenge. *)

\* The verdict of a config is UMA's on the assertion of that config.
Right(disputes, config) ==
  config.verdict # "none" =>
    /\ config.assertion # 0
    /\ disputes[config.assertion].verdict = config.verdict

\* The steps of an endpoint between its reading of the row and its return.
Storing == {"read", "ready", "updated", "escalated", "made"}

\* The steps of an engine that come after its reading of the row.
Deciding == {"decide", "resolve", "settle", "record"}

\* What an invocation has read and is about to write: its config is right; who
\* is about to store an assertion has seen none; an endpoint goes on after the
\* filing; an engine that has seen a dispute has seen the verdict.
KnowsVote(p) ==
  /\ Right(relay, seen[p].config)
  /\ p \in Ticks /\ pc[p] \in {"escalate", "store"} => seen[p].config.assertion = 0
  /\ p \in Challenges /\ pc[p] \in Storing => seen[p].config.assertion = 0
  /\ p \in Challenges /\ pc[p] \in {"filed", "done"} \cup (Storing \ {"read"}) => p \in hub.filed
  /\ p \in Webhooks /\ pc[p] = "store" =>
       made[p] = seen[p].config.assertion /\ relay[made[p]].verdict # "none"
  /\ p \in Engines /\ pc[p] \in Deciding /\ seen[p].disputed => seen[p].config.verdict # "none"
  /\ p \in Engines /\ pc[p] = "resolve" => seen[p].disputed
  /\ seen[p].proposed \in Answers \cup {None}
  /\ seen[p].alternative \in hub.filed \cup {None}

\* Every invocation does.
AllKnowVotes == \A p \in Procs : KnowsVote(p)

\* The row's verdict is right, and its prices are those of an answer and of a
\* filed challenge.
RowIsRight ==
  /\ Right(relay, row.config)
  /\ row.proposed \in Answers \cup {None}
  /\ row.alternative \in hub.filed \cup {None}

\* There is one challenge, and everybody means it.
OneChallenge ==
  /\ IsFiniteSet(hub.filed)
  /\ \A c, d \in hub.filed : c = d
  /\ hub.active => hub.challenge \in hub.filed
  /\ \A i \in DOMAIN relay : relay[i].challenge \in hub.filed

\* Until its endpoint goes on from the filing, nobody knows of a challenge.
Began(c) == pc[c] \in {"updated", "escalated", "made", "done"}

\* Until the endpoint of the challenge goes on, there is no assertion, no
\* dispute and no tick that escalates.
NothingBefore ==
  (\A c \in Challenges : ~Began(c)) =>
    /\ relay = <<>>
    /\ ~row.disputed
    /\ \A t \in Ticks : pc[t] # "escalate"

\* The inductive invariant with one challenge, on top of IRow.
IVote ==
  /\ AllKnowVotes /\ RowIsRight /\ OneChallenge /\ NothingBefore
  /\ BondFollowsVote /\ PriceWasVoted

----------------------------------------------------------------------------
(* Lemmas. *)

\* The kinds of invocation are distinct.
LEMMA KindsAreDistinct ==
  /\ Challenges \cap Ticks = {} /\ Challenges \cap Webhooks = {} /\ Challenges \cap Engines = {}
  /\ Challenges \cap Answers = {} /\ Ticks \cap Webhooks = {} /\ Ticks \cap Engines = {}
  /\ Ticks \cap Answers = {} /\ Webhooks \cap Engines = {} /\ Webhooks \cap Answers = {}
  /\ Engines \cap Answers = {}
<1> DEFINE kinds == <<Challenges, Ticks, Webhooks, Engines, Answers>>
<1>1. \A i, j \in 1 .. 5 : i # j => kinds[i] \cap kinds[j] = {}
  BY SagaAssumption
<1>2. kinds[1] = Challenges /\ kinds[2] = Ticks /\ kinds[3] = Webhooks /\ kinds[4] = Engines
      /\ kinds[5] = Answers
  OBVIOUS
<1> HIDE DEF kinds
<1> QED BY <1>1, <1>2

\* The row that a market starts with is a row.
LEMMA NewRowIsRow == NewRow \in Rows
BY SagaAssumption DEF NewRow, Rows, Configs, Verdicts

\* What the steps of an invocation do to the state: each changes its own entry.
Moved(p, from, to) ==
  /\ pc[p] = from
  /\ pc' \in [Procs -> PCs]
  /\ pc'[p] = to /\ \A q \in Procs : q # p => pc'[q] = pc[q]

\* A step of an invocation moves that invocation only.
LEMMA StepMoves ==
  ASSUME TypeOK, NEW p \in Procs, NEW from, NEW to \in PCs, Step(p, from, to)
  PROVE  Moved(p, from, to)
BY DEF TypeOK, Step, Moved

\* An invocation that returned holds nothing of its reading.
Forgot(p) ==
  /\ seen' \in [Procs -> Rows] /\ made' \in [Procs -> 0 .. MaxAssertions]
  /\ seen'[p] = NewRow /\ \A q \in Procs : q # p => seen'[q] = seen[q]
  /\ made'[p] = 0 /\ \A q \in Procs : q # p => made'[q] = made[q]

\* Returning forgets what was read and made.
LEMMA ReturnForgets ==
  ASSUME TypeOK, NEW p \in Procs, Return(p)
  PROVE  Forgot(p)
BY NewRowIsRow, SagaAssumption DEF TypeOK, Return, Forgot

\* An invocation holds the columns that it read, and defaults for the others.
Copied(p, columns) ==
  /\ seen' \in [Procs -> Rows]
  /\ \A q \in Procs : q # p => seen'[q] = seen[q]
  /\ seen'[p].status = IF "status" \in columns THEN row.status ELSE "ACTIVE"
  /\ seen'[p].disputed = IF "disputed" \in columns THEN row.disputed ELSE FALSE
  /\ seen'[p].proposed = IF "proposed" \in columns THEN row.proposed ELSE None
  /\ seen'[p].alternative = IF "alternative" \in columns THEN row.alternative ELSE None
  /\ seen'[p].config = IF "config" \in columns THEN row.config ELSE NewRow.config

\* Reading copies columns of the row as it is at that moment.
LEMMA ReadCopies ==
  ASSUME TypeOK, NEW p \in Procs, NEW columns, Read(p, columns)
  PROVE  Copied(p, columns)
<1> USE DEF TypeOK
<1> DEFINE new == [k \in DOMAIN row |-> IF k \in columns THEN row[k] ELSE NewRow[k]]
<1>1. seen' = [seen EXCEPT ![p] = new]
  BY DEF Read
<1>2. DOMAIN row = {"status", "disputed", "proposed", "alternative", "value", "config"}
  BY DEF Rows
<1>3. /\ new.status = IF "status" \in columns THEN row.status ELSE "ACTIVE"
      /\ new.disputed = IF "disputed" \in columns THEN row.disputed ELSE FALSE
      /\ new.proposed = IF "proposed" \in columns THEN row.proposed ELSE None
      /\ new.alternative = IF "alternative" \in columns THEN row.alternative ELSE None
      /\ new.value = IF "value" \in columns THEN row.value ELSE None
      /\ new.config = IF "config" \in columns THEN row.config ELSE NewRow.config
  BY <1>2 DEF NewRow
<1>4. new = [status |-> new.status, disputed |-> new.disputed, proposed |-> new.proposed,
             alternative |-> new.alternative, value |-> new.value, config |-> new.config]
  BY <1>2
<1>5. new \in Rows
  <2>1. /\ new.status \in {"ACTIVE", "SETTLEMENT_REQUESTED", "SETTLED"}
        /\ new.disputed \in BOOLEAN
        /\ new.proposed \in Prices \cup {None}
        /\ new.alternative \in Prices \cup {None}
        /\ new.value \in Prices \cup {None}
        /\ new.config \in Configs
    BY <1>3, NewRowIsRow DEF Rows, NewRow
  <2> HIDE DEF new
  <2> QED BY <1>4, <2>1 DEF Rows
<1> HIDE DEF new
<1> QED BY <1>1, <1>3, <1>5 DEF Copied
\* The config is written and the other columns are not.
Configured(config) ==
  /\ row' \in Rows /\ row'.config = config
  /\ row'.status = row.status /\ row'.disputed = row.disputed /\ row'.value = row.value
  /\ row'.proposed = row.proposed /\ row'.alternative = row.alternative

\* Writing market_config leaves the other columns alone.
LEMMA ConfigIsWritten ==
  ASSUME TypeOK, NEW config \in Configs, row' = [row EXCEPT !.config = config]
  PROVE  Configured(config)
BY DEF TypeOK, Rows, Configured

\* Storing an assertion writes the config that was read, with the assertion in
\* it: a verdict that came since is overwritten.
LEMMA AssertionIsStored ==
  ASSUME TypeOK, NEW p \in Procs, StoreAssertion(p)
  PROVE  Configured([assertion |-> made[p], verdict |-> seen[p].config.verdict])
<1> DEFINE config == [seen[p].config EXCEPT !.assertion = made[p]]
<1>1. seen[p].config \in Configs /\ made[p] \in 0 .. MaxAssertions
  BY DEF TypeOK, Rows
<1>2. config = [assertion |-> made[p], verdict |-> seen[p].config.verdict] /\ config \in Configs
  BY <1>1 DEF Configs
<1> QED BY <1>2, ConfigIsWritten DEF StoreAssertion

\* Storing a verdict writes the config that was read, with the verdict in it: an
\* assertion that came since is overwritten.
LEMMA VerdictIsStored ==
  ASSUME TypeOK, NEW p \in Procs, NEW verdict \in Verdicts, StoreVerdict(p, verdict)
  PROVE  Configured([assertion |-> seen[p].config.assertion, verdict |-> verdict])
<1> DEFINE config == [seen[p].config EXCEPT !.verdict = verdict]
<1>1. seen[p].config \in Configs
  BY DEF TypeOK, Rows
<1>2. config = [assertion |-> seen[p].config.assertion, verdict |-> verdict] /\ config \in Configs
  BY <1>1 DEF Configs
<1> QED BY <1>2, ConfigIsWritten DEF StoreVerdict

\* A dispute is added to those before it.
Escalated(p) ==
  /\ hub.active
  /\ relay' \in Seq(Disputes) /\ Len(relay') = Len(relay) + 1 /\ Len(relay') <= MaxAssertions
  /\ \A i \in DOMAIN relay : i \in DOMAIN relay' /\ relay'[i] = relay[i]
  /\ \A i \in DOMAIN relay' :
       i \in DOMAIN relay \/ relay'[i] = [challenge |-> hub.challenge, verdict |-> "none"]
  /\ made' \in [Procs -> 0 .. MaxAssertions]
  /\ made'[p] = Len(relay') /\ \A q \in Procs : q # p => made'[q] = made[q]

\* An escalation appends one assertion, about the active challenge.
LEMMA EscalateAppends ==
  ASSUME TypeOK, ActiveIsNamed, NEW p \in Procs, Escalate(p)
  PROVE  Escalated(p)
<1> DEFINE new == [challenge |-> hub.challenge, verdict |-> "none"]
<1>1. new \in Disputes
  BY DEF TypeOK, ActiveIsNamed, Escalate, Hubs, Disputes, Verdicts
<1>2. relay' = Append(relay, new)
  BY DEF Escalate
<1>3. Len(relay) \in Nat /\ Len(relay) + 1 \in 0 .. MaxAssertions
  BY SagaAssumption DEF Escalate
<1>4. made' = [made EXCEPT ![p] = Len(relay) + 1] /\ hub.active
  BY DEF Escalate
<1> HIDE DEF new
<1>5. /\ relay' \in Seq(Disputes) /\ Len(relay') = Len(relay) + 1
      /\ \A i \in DOMAIN relay : i \in DOMAIN relay' /\ relay'[i] = relay[i]
      /\ \A i \in DOMAIN relay' : i \in DOMAIN relay \/ relay'[i] = new
  BY <1>1, <1>2 DEF TypeOK
<1> QED BY <1>3, <1>4, <1>5 DEF Escalated, TypeOK, new

\* What one invocation does leaves the others knowing what they know.
OnlyMoves(p) ==
  \A q \in Procs : q # p => pc'[q] = pc[q] /\ seen'[q] = seen[q] /\ made'[q] = made[q]

\* The assertions that the other invocations know of still exist.
LEMMA OthersKnow ==
  ASSUME TypeOK, TypeOK', AssertionsWereMade, Len(relay) <= Len(relay'), NEW p \in Procs,
         OnlyMoves(p), MadeOrNone(row.config.assertion)', KnowsMade(p)'
  PROVE  AssertionsWereMade'
<1> SUFFICES ASSUME NEW q \in Procs, q # p
             PROVE  KnowsMade(q)'
  BY DEF AssertionsWereMade
<1>1. Len(relay) \in Int /\ Len(relay') \in Int
  BY DEF TypeOK
<1>2. made[q] \in Int /\ seen[q].config.assertion \in Int
  BY DEF TypeOK, Rows, Configs
<1>3. KnowsMade(q)
  BY DEF AssertionsWereMade
<1> QED BY <1>1, <1>2, <1>3 DEF OnlyMoves, KnowsMade, MadeOrNone

\* An assertion is about a challenge and has a verdict.
LEMMA DisputeType ==
  ASSUME TypeOK, NEW i \in DOMAIN relay
  PROVE  /\ relay[i] \in Disputes
         /\ relay[i].challenge \in Challenges /\ relay[i].verdict \in Verdicts
<1>1. relay \in Seq(Disputes)
  BY DEF TypeOK
<1>2. relay[i] \in Disputes
  BY <1>1
<1> QED BY <1>2 DEF Disputes

\* The assertions known to an invocation are numbers.
LEMMA NumberType ==
  ASSUME TypeOK, NEW p \in Procs
  PROVE  /\ seen[p].config.assertion \in Nat /\ made[p] \in Nat
BY SagaAssumption DEF TypeOK, Rows, Configs

\* So is the assertion in the row.
LEMMA RowNumberType ==
  ASSUME TypeOK
  PROVE  row.config.assertion \in Nat /\ Len(relay) \in Nat
BY SagaAssumption DEF TypeOK, Rows, Configs

\* A row with the prices it needs gives a price to settle at.
LEMMA PricesOfDisputes ==
  ASSUME NEW r, HasPrices(r)
  PROVE  PriceOf(r) # None
BY DEF HasPrices, PriceOf


\* The relay only adds disputes, and verdicts where there were none.
RelayGrows ==
  \A i \in DOMAIN relay :
    /\ i \in DOMAIN relay' /\ relay'[i].challenge = relay[i].challenge
    /\ relay[i].verdict # "none" => relay'[i].verdict = relay[i].verdict

\* A config that is right stays right: UMA's verdicts are final.
LEMMA RightStays ==
  ASSUME TypeOK, RelayGrows, NEW config, config.assertion \in Nat,
         config.assertion <= Len(relay), Right(relay, config)
  PROVE  Right(relay', config)
<1>1. relay \in Seq(Disputes)
  BY DEF TypeOK
<1>2. config.assertion # 0 => config.assertion \in DOMAIN relay
  BY <1>1
<1> QED BY <1>2 DEF Right, RelayGrows

\* What the other invocations know of the vote stays true.
LEMMA OthersKnowVotes ==
  ASSUME TypeOK, AssertionsWereMade, AllKnowVotes, RelayGrows, hub.filed \subseteq hub'.filed,
         NEW p \in Procs, OnlyMoves(p), KnowsVote(p)'
  PROVE  AllKnowVotes'
<1> SUFFICES ASSUME NEW q \in Procs, q # p
             PROVE  KnowsVote(q)'
  BY DEF AllKnowVotes
<1>1. KnowsVote(q) /\ KnowsMade(q)
  BY DEF AllKnowVotes, AssertionsWereMade
<1>2. pc'[q] = pc[q] /\ seen'[q] = seen[q] /\ made'[q] = made[q]
  BY DEF OnlyMoves
<1>3. Right(relay', seen[q].config)
  BY <1>1, RightStays, NumberType DEF KnowsVote, KnowsMade, MadeOrNone
<1>4. ASSUME q \in Webhooks, pc[q] = "store"
      PROVE  made[q] \in DOMAIN relay
  BY <1>1, <1>4 DEF KnowsMade, MadeOrNone, TypeOK
<1> QED BY <1>1, <1>2, <1>3, <1>4 DEF KnowsVote, RelayGrows

\* Bonds and price stay justified as long as the hub decides nothing more.
LEMMA HubStays ==
  ASSUME RelayGrows, BondFollowsVote, PriceWasVoted,
         hub'.decided = hub.decided, hub'.price = hub.price
  PROVE  (BondFollowsVote /\ PriceWasVoted)'
<1>1. \A c \in Challenges : hub'.decided[c] # "none" => VotedFor(hub.decided[c], c)'
  BY DEF RelayGrows, BondFollowsVote, VotedFor
<1> QED BY <1>1 DEF RelayGrows, BondFollowsVote, PriceWasVoted, VotedFor

\* With one challenge, none was filed before it.
LEMMA NoneFiled ==
  ASSUME MaxChallenges = 1, OneChallenge, Cardinality(hub.filed) < MaxChallenges
  PROVE  hub.filed = {}
<1>1. Cardinality(hub.filed) \in Nat
  BY FS_CardinalityType DEF OneChallenge
<1> QED BY <1>1, FS_EmptySet DEF OneChallenge

\* Until the endpoint of the challenge goes on from the filing, there is no
\* assertion and the row names none.
LEMMA NoneStored ==
  ASSUME TypeOK, AssertionsWereMade, AllKnowVotes, OneChallenge, NothingBefore,
         hub.filed = {} \/ \E c \in Challenges : pc[c] = "filed"
  PROVE  relay = <<>> /\ row.config.assertion = 0
<1>1. \A c \in Challenges : Began(c) => c \in hub.filed
  BY DEF AllKnowVotes, KnowsVote, Began, Procs, Storing
<1>2. \A c \in Challenges : ~Began(c)
  <2>1. CASE hub.filed = {}
    BY <1>1, <2>1
  <2>2. ASSUME NEW c \in Challenges, pc[c] = "filed"
        PROVE  \A d \in Challenges : ~Began(d)
    BY <1>1 DEF AllKnowVotes, KnowsVote, Began, Procs, OneChallenge
  <2> QED BY <2>1, <2>2
<1>3. relay = <<>> /\ Len(relay) = 0
  BY <1>2 DEF NothingBefore
<1> QED BY <1>3, SagaAssumption DEF AssertionsWereMade, MadeOrNone, TypeOK, Rows, Configs

----------------------------------------------------------------------------
(* The row follows the hub. *)

\* Each step keeps the invariant, and with one challenge that of the votes.
LEMMA InvariantStep ==
  ASSUME IRow, [Next]_vars
  PROVE  IRow' /\ (MaxChallenges = 1 /\ IVote => IVote')
<1> USE SagaAssumption, KindsAreDistinct DEF IRow, Procs, Prices
<1>1. ASSUME NEW c \in Challenges, ReadMarket(c)
      PROVE  IRow' /\ (MaxChallenges = 1 /\ IVote => IVote')
  <2>1. \/ Moved(c, "idle", "read") /\ Cardinality(hub.filed) < MaxChallenges
        \/ Moved(c, "filed", "ready")
    BY <1>1, StepMoves DEF ReadMarket, PCs
  <2>2. Copied(c, {"config"})
    BY <1>1, ReadCopies DEF ReadMarket
  <2>3. UNCHANGED <<hub, relay, row, open, made, faults>>
    BY <1>1 DEF ReadMarket
  <2>4. TypeOK'
    BY <2>1, <2>2, <2>3 DEF Moved, Copied, TypeOK
  <2>5. OnlyMoves(c) /\ Len(relay) <= Len(relay')
    BY <2>1, <2>2, <2>3 DEF Moved, Copied, OnlyMoves
  <2>6. MadeOrNone(row.config.assertion)' /\ KnowsMade(c)'
    BY <2>2, <2>3 DEF Moved, Copied, AssertionsWereMade, KnowsMade, MadeOrNone
  <2>7. AssertionsWereMade'
    BY <2>4, <2>6, <2>5, OthersKnow
  <2>8. (ActiveIsNamed /\ RowHasPrices)'
    BY <2>3 DEF ActiveIsNamed, RowHasPrices
  <2>9. EnginesKnow'
    BY <2>1, <2>2, <2>3 DEF Moved, Copied, EnginesKnow
  <2>10. AnswersKnow'
    BY <2>1, <2>2 DEF Moved, Copied, AnswersKnow
  <2>11. RowFollowsHub'
    BY <2>3 DEF RowFollowsHub
  <2>12. IRow'
    BY <2>4, <2>7, <2>8, <2>9, <2>10, <2>11
  <2>13. ASSUME MaxChallenges = 1, IVote
        PROVE  IVote'
    <3> USE DEF IVote
    <3>1. row.config.assertion = 0
      BY <2>13, <2>1, NoneFiled, NoneStored DEF Moved
    <3>2. KnowsVote(c)
      BY <2>13 DEF AllKnowVotes
    <3>3. RelayGrows /\ hub.filed \subseteq hub'.filed
      BY <2>3 DEF RelayGrows
    <3>4. KnowsVote(c)'
      BY <2>13, <2>1, <2>2, <2>3, <3>1, <3>2 DEF Moved, Copied, KnowsVote, RowIsRight
    <3>5. AllKnowVotes'
      BY <2>13, <2>5, <3>3, <3>4, OthersKnowVotes
    <3>6. RowIsRight'
      BY <2>13, <2>3 DEF Moved, RowIsRight
    <3>7. OneChallenge'
      BY <2>13, <2>3 DEF OneChallenge
    <3>8. NothingBefore'
      BY <2>13, <2>1, <2>3 DEF Moved, NothingBefore, Began
    <3>9. (BondFollowsVote /\ PriceWasVoted)'
      BY <2>13, <2>3, <3>3, HubStays
    <3>10. QED
      BY <3>5, <3>6, <3>7, <3>8, <3>9
  <2>14. QED
    BY <2>12, <2>13
<1>2. ASSUME NEW c \in Challenges, FileChallenge(c)
      PROVE  IRow' /\ (MaxChallenges = 1 /\ IVote => IVote')
  <2>1. Moved(c, "read", "ready") \/ Moved(c, "idle", "filed")
    BY <1>2, StepMoves DEF FileChallenge, PCs
  <2>2. /\ hub' \in Hubs /\ hub'.price = hub.price /\ hub'.challenge = c
        /\ hub'.filed = hub.filed \cup {c} /\ hub'.decided = hub.decided
    BY <1>2 DEF FileChallenge, TypeOK, Hubs
  <2>3. Cardinality(hub.filed) < MaxChallenges
    BY <1>2 DEF FileChallenge
  <2>4. UNCHANGED <<relay, row, open, seen, made, faults>>
    BY <1>2 DEF FileChallenge
  <2>5. TypeOK'
    BY <2>1, <2>2, <2>4 DEF Moved, TypeOK
  <2>6. OnlyMoves(c) /\ Len(relay) <= Len(relay')
    BY <2>1, <2>4 DEF Moved, OnlyMoves
  <2>7. MadeOrNone(row.config.assertion)' /\ KnowsMade(c)'
    BY <2>4 DEF Moved, AssertionsWereMade, KnowsMade, MadeOrNone
  <2>8. AssertionsWereMade'
    BY <2>5, <2>7, <2>6, OthersKnow
  <2>9. (ActiveIsNamed /\ RowHasPrices)'
    BY <2>2, <2>4 DEF ActiveIsNamed, RowHasPrices
  <2>10. EnginesKnow'
    BY <2>1, <2>2, <2>4 DEF Moved, EnginesKnow
  <2>11. AnswersKnow'
    BY <2>1, <2>4 DEF Moved, AnswersKnow
  <2>12. RowFollowsHub'
    BY <2>2, <2>4 DEF RowFollowsHub
  <2>13. IRow'
    BY <2>5, <2>8, <2>9, <2>10, <2>11, <2>12
  <2>14. ASSUME MaxChallenges = 1, IVote
        PROVE  IVote'
    <3> USE DEF IVote
    <3>1. hub.filed = {} /\ relay = <<>>
      BY <2>14, <2>3, NoneFiled, NoneStored
    <3>2. hub'.filed = {c}
      BY <2>2, <3>1
    <3>3. IsFiniteSet({c})
      BY FS_Singleton
    <3>4. IsFiniteSet(hub'.filed)
      BY <3>2, <3>3
    <3>5. KnowsVote(c)
      BY <2>14 DEF AllKnowVotes
    <3>6. RelayGrows /\ hub.filed \subseteq hub'.filed
      BY <3>1 DEF RelayGrows
    <3>7. KnowsVote(c)'
      BY <2>1, <2>4, <3>1, <3>2, <3>5
         DEF Moved, KnowsVote, Storing, Deciding, RowIsRight, Right
    <3>8. AllKnowVotes'
      BY <2>14, <2>6, <3>6, <3>7, OthersKnowVotes
    <3>9. RowIsRight'
      BY <2>14, <2>4, <3>1 DEF Moved, RowIsRight, Right, KnowsVote
    <3>10. OneChallenge'
      BY <2>2, <2>4, <3>1, <3>4 DEF OneChallenge
    <3>11. NothingBefore'
      BY <2>14, <2>1, <2>4 DEF Moved, NothingBefore, Began
    <3>12. (BondFollowsVote /\ PriceWasVoted)'
      BY <2>14, <2>2, <3>6, HubStays
    <3>13. QED
      BY <3>8, <3>9, <3>10, <3>11, <3>12
  <2>15. QED
    BY <2>13, <2>14
<1>3. ASSUME NEW c \in Challenges, UpdateRow(c)
      PROVE  IRow' /\ (MaxChallenges = 1 /\ IVote => IVote')
  <2>1. Moved(c, "ready", "updated") \/ Moved(c, "escalated", "made")
    BY <1>3, StepMoves DEF UpdateRow, PCs
  <2>2. /\ row' \in Rows /\ row'.status = row.status /\ row'.value = row.value
        /\ row'.proposed = row.proposed /\ row'.disputed /\ row'.alternative = c
        /\ row'.config = seen[c].config
    BY <1>3 DEF UpdateRow, TypeOK, Rows
  <2>3. UNCHANGED <<hub, relay, open, seen, made, faults>>
    BY <1>3 DEF UpdateRow
  <2>4. TypeOK'
    BY <2>1, <2>2, <2>3 DEF Moved, TypeOK
  <2>5. OnlyMoves(c) /\ Len(relay) <= Len(relay')
    BY <2>1, <2>3 DEF Moved, OnlyMoves
  <2>6. MadeOrNone(row.config.assertion)' /\ KnowsMade(c)'
    BY <2>2, <2>3 DEF AssertionsWereMade, KnowsMade, MadeOrNone
  <2>7. AssertionsWereMade'
    BY <2>4, <2>6, <2>5, OthersKnow
  <2>8. (ActiveIsNamed /\ RowHasPrices)'
    BY <2>2, <2>3 DEF ActiveIsNamed, RowHasPrices
  <2>9. EnginesKnow'
    BY <2>1, <2>3 DEF Moved, EnginesKnow
  <2>10. AnswersKnow'
    BY <2>1, <2>3 DEF Moved, AnswersKnow
  <2>11. RowFollowsHub'
    BY <2>2, <2>3 DEF RowFollowsHub
  <2>12. IRow'
    BY <2>4, <2>7, <2>8, <2>9, <2>10, <2>11
  <2>13. ASSUME MaxChallenges = 1, IVote
        PROVE  IVote'
    <3> USE DEF IVote
    <3>1. c \in hub.filed
      BY <2>13, <2>1 DEF Moved, AllKnowVotes, KnowsVote, Storing
    <3>2. KnowsVote(c)
      BY <2>13 DEF AllKnowVotes
    <3>3. RelayGrows /\ hub.filed \subseteq hub'.filed
      BY <2>3 DEF RelayGrows
    <3>4. KnowsVote(c)'
      BY <2>1, <2>3, <3>2 DEF Moved, KnowsVote, Storing
    <3>5. AllKnowVotes'
      BY <2>13, <2>5, <3>3, <3>4, OthersKnowVotes
    <3>6. RowIsRight'
      BY <2>13, <2>2, <2>3, <3>1, <3>2 DEF RowIsRight, KnowsVote
    <3>7. OneChallenge'
      BY <2>13, <2>3 DEF OneChallenge
    <3>8. NothingBefore'
      BY <2>1 DEF Moved, NothingBefore, Began
    <3>9. (BondFollowsVote /\ PriceWasVoted)'
      BY <2>13, <2>3, <3>3, HubStays
    <3>10. QED
      BY <3>5, <3>6, <3>7, <3>8, <3>9
  <2>14. QED
    BY <2>12, <2>13
<1>4. ASSUME NEW c \in Challenges, EscalateChallenge(c)
      PROVE  IRow' /\ (MaxChallenges = 1 /\ IVote => IVote')
  <2>1. /\ (Step(c, "updated", "made") => Moved(c, "updated", "made"))
        /\ (Step(c, "ready", "escalated") => Moved(c, "ready", "escalated"))
        /\ (Step(c, "updated", "done") => Moved(c, "updated", "done"))
    BY StepMoves DEF PCs
  <2>2. (Escalate(c) => Escalated(c)) /\ (Return(c) => Forgot(c))
    BY EscalateAppends, ReturnForgets
  <2>3. \/ Escalated(c) /\ Moved(c, "updated", "made") /\ UNCHANGED seen
        \/ Escalated(c) /\ Moved(c, "ready", "escalated") /\ UNCHANGED seen
        \/ Moved(c, "updated", "done") /\ Forgot(c) /\ UNCHANGED relay
    BY <1>4, <2>1, <2>2 DEF EscalateChallenge
  <2>4. UNCHANGED <<hub, row, open, faults>>
    BY <1>4 DEF EscalateChallenge
  <2>5. TypeOK'
    BY <2>3, <2>4 DEF Moved, Forgot, Escalated, TypeOK
  <2>6. OnlyMoves(c) /\ Len(relay) <= Len(relay')
    BY <2>3 DEF Moved, Forgot, Escalated, OnlyMoves
  <2>7. MadeOrNone(row.config.assertion)' /\ KnowsMade(c)'
    BY <2>3, <2>4, NumberType, RowNumberType
       DEF Forgot, Escalated, AssertionsWereMade, KnowsMade, MadeOrNone, NewRow
  <2>8. AssertionsWereMade'
    BY <2>5, <2>7, <2>6, OthersKnow
  <2>9. (ActiveIsNamed /\ RowHasPrices)'
    BY <2>4 DEF ActiveIsNamed, RowHasPrices
  <2>10. EnginesKnow'
    BY <2>3, <2>4 DEF Moved, Forgot, EnginesKnow
  <2>11. AnswersKnow'
    BY <2>3 DEF Moved, Forgot, AnswersKnow
  <2>12. RowFollowsHub'
    BY <2>4 DEF RowFollowsHub
  <2>13. IRow'
    BY <2>5, <2>8, <2>9, <2>10, <2>11, <2>12
  <2>14. ASSUME MaxChallenges = 1, IVote
        PROVE  IVote'
    <3> USE DEF IVote
    <3>1. c \in hub.filed
      BY <2>14, <2>3 DEF Moved, AllKnowVotes, KnowsVote, Storing
    <3>2. KnowsVote(c)
      BY <2>14 DEF AllKnowVotes
    <3>3. RelayGrows /\ hub.filed \subseteq hub'.filed
      BY <2>3, <2>4 DEF Escalated, RelayGrows
    <3>4. Right(relay', seen[c].config)
      BY <3>2, <3>3, RightStays, NumberType
         DEF KnowsVote, KnowsMade, AssertionsWereMade, MadeOrNone
    <3>5. KnowsVote(c)'
      BY <2>3, <2>4, <3>2 DEF Moved, Forgot, Escalated, KnowsVote, Storing, Right, NewRow
    <3>6. AllKnowVotes'
      BY <2>14, <2>6, <3>3, <3>5, OthersKnowVotes
    <3>7. Right(relay', row.config)
      BY <2>14, <3>3, RightStays, RowNumberType
         DEF RowIsRight, AssertionsWereMade, MadeOrNone
    <3>8. RowIsRight'
      BY <2>14, <2>4, <3>7 DEF Moved, Forgot, Escalated, RowIsRight
    <3>9. OneChallenge'
      BY <2>14, <2>3, <2>4 DEF Escalated, OneChallenge
    <3>10. NothingBefore'
      BY <2>3 DEF Moved, NothingBefore, Began
    <3>11. (BondFollowsVote /\ PriceWasVoted)'
      BY <2>14, <2>4, <3>3, HubStays
    <3>12. QED
      BY <3>6, <3>8, <3>9, <3>10, <3>11
  <2>15. QED
    BY <2>13, <2>14
<1>5. ASSUME NEW c \in Challenges, PersistAssertion(c)
      PROVE  IRow' /\ (MaxChallenges = 1 /\ IVote => IVote')
  <2>1. Moved(c, "made", "done") /\ Forgot(c)
    BY <1>5, StepMoves, ReturnForgets DEF PersistAssertion, PCs
  <2>2. Configured([assertion |-> made[c], verdict |-> seen[c].config.verdict])
    BY <1>5, AssertionIsStored DEF PersistAssertion
  <2>3. UNCHANGED <<hub, relay, open, faults>>
    BY <1>5 DEF PersistAssertion
  <2>4. TypeOK'
    BY <2>1, <2>2, <2>3 DEF Moved, Forgot, Configured, TypeOK
  <2>5. OnlyMoves(c) /\ Len(relay) <= Len(relay')
    BY <2>1, <2>3 DEF Moved, Forgot, OnlyMoves
  <2>6. MadeOrNone(row.config.assertion)' /\ KnowsMade(c)'
    BY <2>1, <2>2, <2>3
       DEF Moved, Forgot, Configured, AssertionsWereMade, KnowsMade, MadeOrNone, NewRow
  <2>7. AssertionsWereMade'
    BY <2>4, <2>6, <2>5, OthersKnow
  <2>8. (ActiveIsNamed /\ RowHasPrices)'
    BY <2>2, <2>3 DEF Configured, ActiveIsNamed, RowHasPrices
  <2>9. EnginesKnow'
    BY <2>1, <2>3 DEF Moved, Forgot, EnginesKnow
  <2>10. AnswersKnow'
    BY <2>1 DEF Moved, Forgot, AnswersKnow
  <2>11. RowFollowsHub'
    BY <2>2, <2>3 DEF Configured, RowFollowsHub
  <2>12. IRow'
    BY <2>4, <2>7, <2>8, <2>9, <2>10, <2>11
  <2>13. ASSUME MaxChallenges = 1, IVote
        PROVE  IVote'
    <3> USE DEF IVote
    <3>1. c \in hub.filed
      BY <2>13, <2>1 DEF Moved, AllKnowVotes, KnowsVote, Storing
    <3>2. KnowsVote(c)
      BY <2>13 DEF AllKnowVotes
    <3>3. RelayGrows /\ hub.filed \subseteq hub'.filed
      BY <2>3 DEF RelayGrows
    <3>4. KnowsVote(c)'
      BY <2>1, <2>3, <3>2 DEF Moved, Forgot, Configured, KnowsVote, Storing, Right, NewRow
    <3>5. AllKnowVotes'
      BY <2>13, <2>5, <3>3, <3>4, OthersKnowVotes
    <3>6. RowIsRight'
      BY <2>13, <2>1, <2>2, <2>3, <3>2
         DEF Moved, Forgot, Configured, RowIsRight, Right, KnowsVote, Storing
    <3>7. OneChallenge'
      BY <2>13, <2>3 DEF OneChallenge
    <3>8. NothingBefore'
      BY <2>1 DEF Moved, NothingBefore, Began
    <3>9. (BondFollowsVote /\ PriceWasVoted)'
      BY <2>13, <2>3, <3>3, HubStays
    <3>10. QED
      BY <3>5, <3>6, <3>7, <3>8, <3>9
  <2>14. QED
    BY <2>12, <2>13
<1>6. ASSUME NEW t \in Ticks, TickRead(t)
      PROVE  IRow' /\ (MaxChallenges = 1 /\ IVote => IVote')
  <2>1. /\ (Step(t, "idle", "escalate") => Moved(t, "idle", "escalate"))
        /\ (Step(t, "idle", "check") => Moved(t, "idle", "check"))
    BY StepMoves DEF PCs
  <2>2. \/ Moved(t, "idle", "escalate") /\ row.config.assertion = 0
        \/ Moved(t, "idle", "check") /\ row.config.assertion # 0
    BY <1>6, <2>1 DEF TickRead
  <2>3. Copied(t, {"config"})
    BY <1>6, ReadCopies DEF TickRead
  <2>4. row.disputed /\ UNCHANGED <<hub, relay, row, open, made, faults>>
    BY <1>6 DEF TickRead
  <2>5. TypeOK'
    BY <2>2, <2>3, <2>4 DEF Moved, Copied, TypeOK
  <2>6. OnlyMoves(t) /\ Len(relay) <= Len(relay')
    BY <2>2, <2>3, <2>4 DEF Moved, Copied, OnlyMoves
  <2>7. MadeOrNone(row.config.assertion)' /\ KnowsMade(t)'
    BY <2>2, <2>3, <2>4 DEF Moved, Copied, AssertionsWereMade, KnowsMade, MadeOrNone
  <2>8. AssertionsWereMade'
    BY <2>5, <2>7, <2>6, OthersKnow
  <2>9. (ActiveIsNamed /\ RowHasPrices)'
    BY <2>4 DEF ActiveIsNamed, RowHasPrices
  <2>10. EnginesKnow'
    BY <2>2, <2>3, <2>4 DEF Moved, Copied, EnginesKnow
  <2>11. AnswersKnow'
    BY <2>2, <2>3 DEF Moved, Copied, AnswersKnow
  <2>12. RowFollowsHub'
    BY <2>4 DEF RowFollowsHub
  <2>13. IRow'
    BY <2>5, <2>8, <2>9, <2>10, <2>11, <2>12
  <2>14. ASSUME MaxChallenges = 1, IVote
        PROVE  IVote'
    <3> USE DEF IVote
    <3>1. KnowsVote(t)
      BY <2>14 DEF AllKnowVotes
    <3>2. RelayGrows /\ hub.filed \subseteq hub'.filed
      BY <2>4 DEF RelayGrows
    <3>3. KnowsVote(t)'
      BY <2>14, <2>2, <2>3, <2>4 DEF Moved, Copied, KnowsVote, RowIsRight
    <3>4. AllKnowVotes'
      BY <2>14, <2>6, <3>2, <3>3, OthersKnowVotes
    <3>5. RowIsRight'
      BY <2>14, <2>4 DEF RowIsRight
    <3>6. OneChallenge'
      BY <2>14, <2>4 DEF OneChallenge
    <3>7. NothingBefore'
      BY <2>14, <2>2, <2>4 DEF Moved, NothingBefore, Began
    <3>8. (BondFollowsVote /\ PriceWasVoted)'
      BY <2>14, <2>4, <3>2, HubStays
    <3>9. QED
      BY <3>4, <3>5, <3>6, <3>7, <3>8
  <2>15. QED
    BY <2>13, <2>14
<1>7. ASSUME NEW t \in Ticks, TickEscalate(t)
      PROVE  IRow' /\ (MaxChallenges = 1 /\ IVote => IVote')
  <2>1. /\ (Step(t, "escalate", "store") => Moved(t, "escalate", "store"))
        /\ (Step(t, "escalate", "idle") => Moved(t, "escalate", "idle"))
    BY StepMoves DEF PCs
  <2>2. (Escalate(t) => Escalated(t)) /\ (Return(t) => Forgot(t))
    BY EscalateAppends, ReturnForgets
  <2>3. \/ Escalated(t) /\ Moved(t, "escalate", "store") /\ UNCHANGED seen
        \/ Moved(t, "escalate", "idle") /\ Forgot(t) /\ UNCHANGED relay
    BY <1>7, <2>1, <2>2 DEF TickEscalate
  <2>4. UNCHANGED <<hub, row, open, faults>>
    BY <1>7 DEF TickEscalate
  <2>5. TypeOK'
    BY <2>3, <2>4 DEF Moved, Forgot, Escalated, TypeOK
  <2>6. OnlyMoves(t) /\ Len(relay) <= Len(relay')
    BY <2>3 DEF Moved, Forgot, Escalated, OnlyMoves
  <2>7. MadeOrNone(row.config.assertion)' /\ KnowsMade(t)'
    BY <2>3, <2>4, NumberType, RowNumberType
       DEF Moved, Forgot, Escalated, AssertionsWereMade, KnowsMade, MadeOrNone, NewRow
  <2>8. AssertionsWereMade'
    BY <2>5, <2>7, <2>6, OthersKnow
  <2>9. (ActiveIsNamed /\ RowHasPrices)'
    BY <2>4 DEF ActiveIsNamed, RowHasPrices
  <2>10. EnginesKnow'
    BY <2>3, <2>4 DEF Moved, Forgot, EnginesKnow
  <2>11. AnswersKnow'
    BY <2>3 DEF Moved, Forgot, AnswersKnow
  <2>12. RowFollowsHub'
    BY <2>4 DEF RowFollowsHub
  <2>13. IRow'
    BY <2>5, <2>8, <2>9, <2>10, <2>11, <2>12
  <2>14. ASSUME MaxChallenges = 1, IVote
        PROVE  IVote'
    <3> USE DEF IVote
    <3>1. KnowsVote(t)
      BY <2>14 DEF AllKnowVotes
    <3>2. RelayGrows /\ hub.filed \subseteq hub'.filed
      BY <2>3, <2>4 DEF Escalated, RelayGrows
    <3>3. Right(relay', seen[t].config)
      BY <3>1, <3>2, RightStays, NumberType
         DEF KnowsVote, KnowsMade, AssertionsWereMade, MadeOrNone
    <3>4. KnowsVote(t)'
      BY <2>3, <2>4, <3>1 DEF Moved, Forgot, Escalated, KnowsVote, Right, NewRow
    <3>5. AllKnowVotes'
      BY <2>14, <2>6, <3>2, <3>4, OthersKnowVotes
    <3>6. Right(relay', row.config)
      BY <2>14, <3>2, RightStays, RowNumberType
         DEF RowIsRight, AssertionsWereMade, MadeOrNone
    <3>7. RowIsRight'
      BY <2>14, <2>4, <3>6 DEF Moved, Forgot, RowIsRight
    <3>8. OneChallenge'
      BY <2>14, <2>3, <2>4 DEF Escalated, OneChallenge
    <3>9. NothingBefore'
      BY <2>14, <2>3 DEF Moved, NothingBefore, Began
    <3>10. (BondFollowsVote /\ PriceWasVoted)'
      BY <2>14, <2>4, <3>2, HubStays
    <3>11. QED
      BY <3>5, <3>7, <3>8, <3>9, <3>10
  <2>15. QED
    BY <2>13, <2>14
<1>8. ASSUME NEW t \in Ticks, TickStore(t)
      PROVE  IRow' /\ (MaxChallenges = 1 /\ IVote => IVote')
  <2>1. Moved(t, "store", "idle") /\ Forgot(t)
    BY <1>8, StepMoves, ReturnForgets DEF TickStore, PCs
  <2>2. Configured([assertion |-> made[t], verdict |-> seen[t].config.verdict])
    BY <1>8, AssertionIsStored DEF TickStore
  <2>3. UNCHANGED <<hub, relay, open, faults>>
    BY <1>8 DEF TickStore
  <2>4. TypeOK'
    BY <2>1, <2>2, <2>3 DEF Moved, Forgot, Configured, TypeOK
  <2>5. OnlyMoves(t) /\ Len(relay) <= Len(relay')
    BY <2>1, <2>3 DEF Moved, Forgot, OnlyMoves
  <2>6. MadeOrNone(row.config.assertion)' /\ KnowsMade(t)'
    BY <2>1, <2>2, <2>3
       DEF Moved, Forgot, Configured, AssertionsWereMade, KnowsMade, MadeOrNone, NewRow
  <2>7. AssertionsWereMade'
    BY <2>4, <2>6, <2>5, OthersKnow
  <2>8. (ActiveIsNamed /\ RowHasPrices)'
    BY <2>2, <2>3 DEF Configured, ActiveIsNamed, RowHasPrices
  <2>9. EnginesKnow'
    BY <2>1, <2>3 DEF Moved, Forgot, EnginesKnow
  <2>10. AnswersKnow'
    BY <2>1 DEF Moved, Forgot, AnswersKnow
  <2>11. RowFollowsHub'
    BY <2>2, <2>3 DEF Configured, RowFollowsHub
  <2>12. IRow'
    BY <2>4, <2>7, <2>8, <2>9, <2>10, <2>11
  <2>13. ASSUME MaxChallenges = 1, IVote
        PROVE  IVote'
    <3> USE DEF IVote
    <3>1. KnowsVote(t)
      BY <2>13 DEF AllKnowVotes
    <3>2. RelayGrows /\ hub.filed \subseteq hub'.filed
      BY <2>3 DEF RelayGrows
    <3>3. KnowsVote(t)'
      BY <2>1 DEF Moved, Forgot, Configured, KnowsVote, Right, NewRow
    <3>4. AllKnowVotes'
      BY <2>13, <2>5, <3>2, <3>3, OthersKnowVotes
    <3>5. RowIsRight'
      BY <2>13, <2>1, <2>2, <2>3, <3>1 DEF Moved, Configured, RowIsRight, Right, KnowsVote
    <3>6. OneChallenge'
      BY <2>13, <2>3 DEF OneChallenge
    <3>7. NothingBefore'
      BY <2>13, <2>1, <2>2, <2>3 DEF Moved, Configured, NothingBefore, Began
    <3>8. (BondFollowsVote /\ PriceWasVoted)'
      BY <2>13, <2>3, <3>2, HubStays
    <3>9. QED
      BY <3>4, <3>5, <3>6, <3>7, <3>8
  <2>14. QED
    BY <2>12, <2>13
<1>9. ASSUME NEW t \in Ticks, TickCheck(t)
      PROVE  IRow' /\ (MaxChallenges = 1 /\ IVote => IVote')
  <2>1. Moved(t, "check", "idle") /\ Forgot(t)
    BY <1>9, StepMoves, ReturnForgets DEF TickCheck, PCs
  <2>2. seen[t].config.assertion \in DOMAIN relay /\ seen[t].config.assertion # 0
    BY <2>1 DEF Moved, AssertionsWereMade, KnowsMade, MadeOrNone, TypeOK, Rows, Configs
  <2>3. relay[seen[t].config.assertion].verdict \in Verdicts
    BY <2>2, DisputeType
  <2>4. \/ UNCHANGED row
        \/ Configured([assertion |-> seen[t].config.assertion,
                       verdict |-> relay[seen[t].config.assertion].verdict])
    BY <1>9, <2>3, VerdictIsStored DEF TickCheck
  <2>5. UNCHANGED <<hub, relay, open, faults>>
    BY <1>9 DEF TickCheck
  <2>6. TypeOK'
    BY <2>1, <2>4, <2>5 DEF Moved, Forgot, Configured, TypeOK
  <2>7. OnlyMoves(t) /\ Len(relay) <= Len(relay')
    BY <2>1, <2>5 DEF Moved, Forgot, OnlyMoves
  <2>8. MadeOrNone(row.config.assertion)' /\ KnowsMade(t)'
    BY <2>1, <2>4, <2>5
       DEF Moved, Forgot, Configured, AssertionsWereMade, KnowsMade, MadeOrNone, NewRow
  <2>9. AssertionsWereMade'
    BY <2>6, <2>8, <2>7, OthersKnow
  <2>10. (ActiveIsNamed /\ RowHasPrices)'
    BY <2>4, <2>5 DEF Configured, ActiveIsNamed, RowHasPrices
  <2>11. EnginesKnow'
    BY <2>1, <2>5 DEF Moved, Forgot, EnginesKnow
  <2>12. AnswersKnow'
    BY <2>1 DEF Moved, Forgot, AnswersKnow
  <2>13. RowFollowsHub'
    BY <2>4, <2>5 DEF Configured, RowFollowsHub
  <2>14. IRow'
    BY <2>6, <2>9, <2>10, <2>11, <2>12, <2>13
  <2>15. ASSUME MaxChallenges = 1, IVote
        PROVE  IVote'
    <3> USE DEF IVote
    <3>1. KnowsVote(t)
      BY <2>15 DEF AllKnowVotes
    <3>2. RelayGrows /\ hub.filed \subseteq hub'.filed
      BY <2>5 DEF RelayGrows
    <3>3. KnowsVote(t)'
      BY <2>1 DEF Moved, Forgot, Configured, KnowsVote, Storing, Right, NewRow
    <3>4. AllKnowVotes'
      BY <2>15, <2>7, <3>2, <3>3, OthersKnowVotes
    <3>5. UNCHANGED row \/ Right(relay, row'.config)
      BY <2>2, <2>4 DEF Moved, Forgot, Configured, Right
    <3>6. RowIsRight'
      BY <2>15, <2>4, <2>5, <3>5 DEF Moved, Forgot, Configured, RowIsRight
    <3>7. OneChallenge'
      BY <2>15, <2>5 DEF OneChallenge
    <3>8. NothingBefore'
      BY <2>15, <2>1, <2>4, <2>5 DEF Moved, Configured, NothingBefore, Began
    <3>9. (BondFollowsVote /\ PriceWasVoted)'
      BY <2>15, <2>5, <3>2, HubStays
    <3>10. QED
      BY <3>4, <3>6, <3>7, <3>8, <3>9
  <2>16. QED
    BY <2>14, <2>15
<1>10. ASSUME NEW w \in Webhooks, WebhookRead(w)
      PROVE  IRow' /\ (MaxChallenges = 1 /\ IVote => IVote')
  <2>1. Moved(w, "idle", "store")
    BY <1>10, StepMoves DEF WebhookRead, PCs
  <2>2. Copied(w, {"config"})
    BY <1>10, ReadCopies DEF WebhookRead
  <2>3. /\ made' \in [Procs -> 0 .. MaxAssertions]
        /\ made'[w] \in DOMAIN relay /\ relay[made'[w]].verdict # "none"
        /\ row.config.assertion = made'[w] /\ row.config.verdict = "none"
        /\ \A q \in Procs : q # w => made'[q] = made[q]
    BY <1>10 DEF WebhookRead, TypeOK
  <2>4. UNCHANGED <<hub, relay, row, open, faults>>
    BY <1>10 DEF WebhookRead
  <2>5. TypeOK'
    BY <2>1, <2>2, <2>3, <2>4 DEF Moved, Copied, TypeOK
  <2>6. OnlyMoves(w) /\ Len(relay) <= Len(relay')
    BY <2>1, <2>2, <2>3, <2>4 DEF Moved, Copied, OnlyMoves
  <2>7. MadeOrNone(row.config.assertion)' /\ KnowsMade(w)'
    BY <2>2, <2>3, <2>4 DEF Moved, Copied, KnowsMade, MadeOrNone
  <2>8. AssertionsWereMade'
    BY <2>5, <2>7, <2>6, OthersKnow
  <2>9. (ActiveIsNamed /\ RowHasPrices)'
    BY <2>4 DEF ActiveIsNamed, RowHasPrices
  <2>10. EnginesKnow'
    BY <2>1, <2>2, <2>4 DEF Moved, Copied, EnginesKnow
  <2>11. AnswersKnow'
    BY <2>1, <2>2 DEF Moved, Copied, AnswersKnow
  <2>12. RowFollowsHub'
    BY <2>4 DEF RowFollowsHub
  <2>13. IRow'
    BY <2>5, <2>8, <2>9, <2>10, <2>11, <2>12
  <2>14. ASSUME MaxChallenges = 1, IVote
        PROVE  IVote'
    <3> USE DEF IVote
    <3>1. KnowsVote(w)
      BY <2>14 DEF AllKnowVotes
    <3>2. RelayGrows /\ hub.filed \subseteq hub'.filed
      BY <2>4 DEF RelayGrows
    <3>3. KnowsVote(w)'
      BY <2>2, <2>3, <2>4 DEF Moved, Copied, KnowsVote, Right
    <3>4. AllKnowVotes'
      BY <2>14, <2>6, <3>2, <3>3, OthersKnowVotes
    <3>5. RowIsRight'
      BY <2>14, <2>4 DEF Moved, RowIsRight
    <3>6. OneChallenge'
      BY <2>14, <2>4 DEF OneChallenge
    <3>7. NothingBefore'
      BY <2>14, <2>1, <2>4 DEF Moved, NothingBefore, Began
    <3>8. (BondFollowsVote /\ PriceWasVoted)'
      BY <2>14, <2>4, <3>2, HubStays
    <3>9. QED
      BY <3>4, <3>5, <3>6, <3>7, <3>8
  <2>15. QED
    BY <2>13, <2>14
<1>11. ASSUME NEW w \in Webhooks, WebhookStore(w)
      PROVE  IRow' /\ (MaxChallenges = 1 /\ IVote => IVote')
  <2>1. Moved(w, "store", "idle") /\ Forgot(w)
    BY <1>11, StepMoves, ReturnForgets DEF WebhookStore, PCs
  <2>2. made[w] \in DOMAIN relay /\ made[w] # 0
    BY <2>1 DEF Moved, AssertionsWereMade, KnowsMade, MadeOrNone, TypeOK
  <2>3. relay[made[w]].verdict \in Verdicts
    BY <2>2, DisputeType
  <2>4. Configured([assertion |-> seen[w].config.assertion, verdict |-> relay[made[w]].verdict])
    BY <1>11, <2>3, VerdictIsStored DEF WebhookStore
  <2>5. UNCHANGED <<hub, relay, open, faults>>
    BY <1>11 DEF WebhookStore
  <2>6. TypeOK'
    BY <2>1, <2>4, <2>5 DEF Moved, Forgot, Configured, TypeOK
  <2>7. OnlyMoves(w) /\ Len(relay) <= Len(relay')
    BY <2>1, <2>5 DEF Moved, Forgot, OnlyMoves
  <2>8. MadeOrNone(row.config.assertion)' /\ KnowsMade(w)'
    BY <2>1, <2>4, <2>5
       DEF Moved, Forgot, Configured, AssertionsWereMade, KnowsMade, MadeOrNone, NewRow
  <2>9. AssertionsWereMade'
    BY <2>6, <2>8, <2>7, OthersKnow
  <2>10. (ActiveIsNamed /\ RowHasPrices)'
    BY <2>4, <2>5 DEF Configured, ActiveIsNamed, RowHasPrices
  <2>11. EnginesKnow'
    BY <2>1, <2>5 DEF Moved, Forgot, EnginesKnow
  <2>12. AnswersKnow'
    BY <2>1 DEF Moved, Forgot, AnswersKnow
  <2>13. RowFollowsHub'
    BY <2>4, <2>5 DEF Configured, RowFollowsHub
  <2>14. IRow'
    BY <2>6, <2>9, <2>10, <2>11, <2>12, <2>13
  <2>15. ASSUME MaxChallenges = 1, IVote
        PROVE  IVote'
    <3> USE DEF IVote
    <3>1. KnowsVote(w)
      BY <2>15 DEF AllKnowVotes
    <3>2. RelayGrows /\ hub.filed \subseteq hub'.filed
      BY <2>5 DEF RelayGrows
    <3>3. KnowsVote(w)'
      BY <2>1 DEF Moved, Forgot, Configured, KnowsVote, Storing, Right, NewRow
    <3>4. AllKnowVotes'
      BY <2>15, <2>7, <3>2, <3>3, OthersKnowVotes
    <3>5. UNCHANGED row \/ Right(relay, row'.config)
      BY <2>1, <2>2, <2>4, <3>1 DEF Moved, Forgot, Configured, Right, KnowsVote
    <3>6. RowIsRight'
      BY <2>15, <2>4, <2>5, <3>5 DEF Moved, Forgot, Configured, RowIsRight
    <3>7. OneChallenge'
      BY <2>15, <2>5 DEF OneChallenge
    <3>8. NothingBefore'
      BY <2>15, <2>1, <2>4, <2>5 DEF Moved, Configured, NothingBefore, Began
    <3>9. (BondFollowsVote /\ PriceWasVoted)'
      BY <2>15, <2>5, <3>2, HubStays
    <3>10. QED
      BY <3>4, <3>6, <3>7, <3>8, <3>9
  <2>16. QED
    BY <2>14, <2>15
<1>12. ASSUME NEW a \in Answers, AnswerRead(a)
      PROVE  IRow' /\ (MaxChallenges = 1 /\ IVote => IVote')
  <2>1. Moved(a, "idle", "write") /\ row.status # "SETTLED"
    BY <1>12, StepMoves DEF AnswerRead, PCs
  <2>2. Copied(a, {"status", "config"})
    BY <1>12, ReadCopies DEF AnswerRead
  <2>3. UNCHANGED <<hub, relay, row, open, made, faults>>
    BY <1>12 DEF AnswerRead
  <2>4. TypeOK'
    BY <2>1, <2>2, <2>3 DEF Moved, Copied, TypeOK
  <2>5. OnlyMoves(a) /\ Len(relay) <= Len(relay')
    BY <2>1, <2>2, <2>3 DEF Moved, Copied, OnlyMoves
  <2>6. MadeOrNone(row.config.assertion)' /\ KnowsMade(a)'
    BY <2>2, <2>3 DEF Moved, Copied, AssertionsWereMade, KnowsMade, MadeOrNone
  <2>7. AssertionsWereMade'
    BY <2>4, <2>6, <2>5, OthersKnow
  <2>8. (ActiveIsNamed /\ RowHasPrices)'
    BY <2>3 DEF ActiveIsNamed, RowHasPrices
  <2>9. EnginesKnow'
    BY <2>1, <2>2, <2>3 DEF Moved, Copied, EnginesKnow
  <2>10. AnswersKnow'
    BY <2>1, <2>2 DEF Moved, Copied, AnswersKnow
  <2>11. RowFollowsHub'
    BY <2>3 DEF RowFollowsHub
  <2>12. IRow'
    BY <2>4, <2>7, <2>8, <2>9, <2>10, <2>11
  <2>13. ASSUME MaxChallenges = 1, IVote
        PROVE  IVote'
    <3> USE DEF IVote
    <3>1. KnowsVote(a)
      BY <2>13 DEF AllKnowVotes
    <3>2. RelayGrows /\ hub.filed \subseteq hub'.filed
      BY <2>3 DEF RelayGrows
    <3>3. KnowsVote(a)'
      BY <2>13, <2>2, <2>3 DEF Moved, Copied, KnowsVote, RowIsRight
    <3>4. AllKnowVotes'
      BY <2>13, <2>5, <3>2, <3>3, OthersKnowVotes
    <3>5. RowIsRight'
      BY <2>13, <2>3 DEF RowIsRight
    <3>6. OneChallenge'
      BY <2>13, <2>3 DEF OneChallenge
    <3>7. NothingBefore'
      BY <2>13, <2>1, <2>3 DEF Moved, NothingBefore, Began
    <3>8. (BondFollowsVote /\ PriceWasVoted)'
      BY <2>13, <2>3, <3>2, HubStays
    <3>9. QED
      BY <3>4, <3>5, <3>6, <3>7, <3>8
  <2>14. QED
    BY <2>12, <2>13
<1>13. ASSUME NEW a \in Answers, AnswerWrite(a)
      PROVE  IRow' /\ (MaxChallenges = 1 /\ IVote => IVote')
  <2>1. Moved(a, "write", "done") /\ Forgot(a)
    BY <1>13, StepMoves, ReturnForgets DEF AnswerWrite, PCs
  <2>2. \/ UNCHANGED row
        \/ /\ row' \in Rows /\ row'.status = "SETTLEMENT_REQUESTED" /\ row'.value = row.value
           /\ row.status = seen[a].status
           /\ row'.disputed = row.disputed /\ row'.alternative = row.alternative
           /\ row'.proposed = a /\ row'.config = seen[a].config
    BY <1>13 DEF AnswerWrite, TypeOK, Rows
  <2>3. UNCHANGED <<hub, relay, open, faults>>
    BY <1>13 DEF AnswerWrite
  <2>4. TypeOK'
    BY <2>1, <2>2, <2>3 DEF Moved, Forgot, TypeOK
  <2>5. OnlyMoves(a) /\ Len(relay) <= Len(relay')
    BY <2>1, <2>3 DEF Moved, Forgot, OnlyMoves
  <2>6. MadeOrNone(row.config.assertion)' /\ KnowsMade(a)'
    BY <2>1, <2>2, <2>3 DEF Moved, Forgot, AssertionsWereMade, KnowsMade, MadeOrNone, NewRow
  <2>7. AssertionsWereMade'
    BY <2>4, <2>6, <2>5, OthersKnow
  <2>8. (ActiveIsNamed /\ RowHasPrices)'
    BY <2>2, <2>3 DEF ActiveIsNamed, RowHasPrices
  <2>9. EnginesKnow'
    BY <2>1, <2>3 DEF Moved, Forgot, EnginesKnow
  <2>10. AnswersKnow'
    BY <2>1 DEF Moved, Forgot, AnswersKnow
  <2>11. RowFollowsHub'
    BY <2>2, <2>3 DEF RowFollowsHub
  <2>12. IRow'
    BY <2>4, <2>7, <2>8, <2>9, <2>10, <2>11
  <2>13. ASSUME MaxChallenges = 1, IVote
        PROVE  IVote'
    <3> USE DEF IVote
    <3>1. KnowsVote(a)
      BY <2>13 DEF AllKnowVotes
    <3>2. RelayGrows /\ hub.filed \subseteq hub'.filed
      BY <2>3 DEF RelayGrows
    <3>3. KnowsVote(a)'
      BY <2>1 DEF Moved, Forgot, KnowsVote, Right, NewRow
    <3>4. AllKnowVotes'
      BY <2>13, <2>5, <3>2, <3>3, OthersKnowVotes
    <3>5. RowIsRight'
      BY <2>13, <2>2, <2>3, <3>1 DEF RowIsRight, KnowsVote
    <3>6. OneChallenge'
      BY <2>13, <2>3 DEF OneChallenge
    <3>7. NothingBefore'
      BY <2>13, <2>1, <2>2, <2>3 DEF Moved, NothingBefore, Began
    <3>8. (BondFollowsVote /\ PriceWasVoted)'
      BY <2>13, <2>3, <3>2, HubStays
    <3>9. QED
      BY <3>4, <3>5, <3>6, <3>7, <3>8
  <2>14. QED
    BY <2>12, <2>13
<1>14. ASSUME NEW e \in Engines, EngineRead(e)
      PROVE  IRow' /\ (MaxChallenges = 1 /\ IVote => IVote')
  <2>1. Moved(e, "idle", "decide") /\ row.status = "SETTLEMENT_REQUESTED"
    BY <1>14, StepMoves DEF EngineRead, PCs
  <2>2. Copied(e, {"disputed", "proposed", "alternative", "config"})
    BY <1>14, ReadCopies DEF EngineRead
  <2>3. HasPrices(seen'[e])
    BY <2>1, <2>2 DEF Copied, RowHasPrices, HasPrices
  <2>4. row.disputed => row.config.verdict # "none"
    BY <1>14 DEF EngineRead
  <2>5. UNCHANGED <<hub, relay, row, open, made, faults>>
    BY <1>14 DEF EngineRead
  <2>6. TypeOK'
    BY <2>1, <2>2, <2>5 DEF Moved, Copied, TypeOK
  <2>7. OnlyMoves(e) /\ Len(relay) <= Len(relay')
    BY <2>1, <2>2, <2>5 DEF Moved, Copied, OnlyMoves
  <2>8. MadeOrNone(row.config.assertion)' /\ KnowsMade(e)'
    BY <2>2, <2>5 DEF Moved, Copied, AssertionsWereMade, KnowsMade, MadeOrNone
  <2>9. AssertionsWereMade'
    BY <2>6, <2>8, <2>7, OthersKnow
  <2>10. (ActiveIsNamed /\ RowHasPrices)'
    BY <2>5 DEF ActiveIsNamed, RowHasPrices
  <2>11. EnginesKnow'
    BY <2>1, <2>2, <2>3, <2>5 DEF Moved, Copied, EnginesKnow
  <2>12. AnswersKnow'
    BY <2>1, <2>2 DEF Moved, Copied, AnswersKnow
  <2>13. RowFollowsHub'
    BY <2>5 DEF RowFollowsHub
  <2>14. IRow'
    BY <2>6, <2>9, <2>10, <2>11, <2>12, <2>13
  <2>15. ASSUME MaxChallenges = 1, IVote
        PROVE  IVote'
    <3> USE DEF IVote
    <3>1. KnowsVote(e)
      BY <2>15 DEF AllKnowVotes
    <3>2. RelayGrows /\ hub.filed \subseteq hub'.filed
      BY <2>5 DEF RelayGrows
    <3>3. KnowsVote(e)'
      BY <2>15, <2>1, <2>2, <2>4, <2>5 DEF Moved, Copied, KnowsVote, Storing, RowIsRight
    <3>4. AllKnowVotes'
      BY <2>15, <2>7, <3>2, <3>3, OthersKnowVotes
    <3>5. RowIsRight'
      BY <2>15, <2>5 DEF Moved, Copied, RowIsRight
    <3>6. OneChallenge'
      BY <2>15, <2>5 DEF OneChallenge
    <3>7. NothingBefore'
      BY <2>15, <2>1, <2>5 DEF Moved, NothingBefore, Began
    <3>8. (BondFollowsVote /\ PriceWasVoted)'
      BY <2>15, <2>5, <3>2, HubStays
    <3>9. QED
      BY <3>4, <3>5, <3>6, <3>7, <3>8
  <2>16. QED
    BY <2>14, <2>15
<1>15. ASSUME NEW e \in Engines, EngineDecide(e)
      PROVE  IRow' /\ (MaxChallenges = 1 /\ IVote => IVote')
  <2>1. /\ (Step(e, "decide", "idle") => Moved(e, "decide", "idle"))
        /\ (Step(e, "decide", "resolve") => Moved(e, "decide", "resolve"))
        /\ (Step(e, "decide", "settle") => Moved(e, "decide", "settle"))
        /\ Return(e) => Forgot(e)
    BY StepMoves, ReturnForgets DEF PCs
  <2>2. \/ Moved(e, "decide", "idle") /\ Forgot(e)
        \/ Moved(e, "decide", "resolve") /\ UNCHANGED <<seen, made>> /\ seen[e].disputed
        \/ Moved(e, "decide", "settle") /\ UNCHANGED <<seen, made>>
    BY <1>15, <2>1 DEF EngineDecide
  <2>3. UNCHANGED row \/ Configured(seen[e].config)
    BY <1>15, ConfigIsWritten DEF EngineDecide, TypeOK, Rows
  <2>4. UNCHANGED <<hub, relay, open, faults>>
    BY <1>15 DEF EngineDecide
  <2>5. TypeOK'
    BY <2>2, <2>3, <2>4 DEF Moved, Forgot, Configured, TypeOK
  <2>6. OnlyMoves(e) /\ Len(relay) <= Len(relay')
    BY <2>2, <2>4 DEF Moved, Forgot, OnlyMoves
  <2>7. MadeOrNone(row.config.assertion)' /\ KnowsMade(e)'
    BY <2>2, <2>3, <2>4
       DEF Moved, Forgot, Configured, AssertionsWereMade, KnowsMade, MadeOrNone, NewRow
  <2>8. AssertionsWereMade'
    BY <2>5, <2>7, <2>6, OthersKnow
  <2>9. (ActiveIsNamed /\ RowHasPrices)'
    BY <2>3, <2>4 DEF Configured, ActiveIsNamed, RowHasPrices
  <2>10. EnginesKnow'
    BY <2>2, <2>4 DEF Moved, Forgot, EnginesKnow
  <2>11. AnswersKnow'
    BY <2>2 DEF Moved, Forgot, AnswersKnow
  <2>12. RowFollowsHub'
    BY <2>3, <2>4 DEF Configured, RowFollowsHub
  <2>13. IRow'
    BY <2>5, <2>8, <2>9, <2>10, <2>11, <2>12
  <2>14. ASSUME MaxChallenges = 1, IVote
        PROVE  IVote'
    <3> USE DEF IVote
    <3>1. KnowsVote(e)
      BY <2>14 DEF AllKnowVotes
    <3>2. RelayGrows /\ hub.filed \subseteq hub'.filed
      BY <2>4 DEF RelayGrows
    <3>3. KnowsVote(e)'
      BY <2>2, <2>4, <3>1 DEF Moved, Forgot, Configured, KnowsVote, Deciding, Right, NewRow
    <3>4. AllKnowVotes'
      BY <2>14, <2>6, <3>2, <3>3, OthersKnowVotes
    <3>5. RowIsRight'
      BY <2>14, <2>3, <2>4, <3>1 DEF Moved, Configured, RowIsRight, KnowsVote
    <3>6. OneChallenge'
      BY <2>14, <2>4 DEF OneChallenge
    <3>7. NothingBefore'
      BY <2>14, <2>2, <2>3, <2>4 DEF Moved, Configured, NothingBefore, Began
    <3>8. (BondFollowsVote /\ PriceWasVoted)'
      BY <2>14, <2>4, <3>2, HubStays
    <3>9. QED
      BY <3>4, <3>5, <3>6, <3>7, <3>8
  <2>15. QED
    BY <2>13, <2>14
<1>16. ASSUME NEW e \in Engines, EngineResolve(e)
      PROVE  IRow' /\ (MaxChallenges = 1 /\ IVote => IVote')
  <2>1. Moved(e, "resolve", "settle")
    BY <1>16, StepMoves DEF EngineResolve, PCs
  <2>2. seen[e].config.verdict \in Verdicts
    BY DEF TypeOK, Rows, Configs
  <2>3. \/ UNCHANGED hub
        \/ /\ hub' = [hub EXCEPT !.active = FALSE, !.resolved = TRUE,
                                 !.decided[hub.challenge] = seen[e].config.verdict]
           /\ hub.active
    BY <1>16 DEF EngineResolve
  <2>4. hub.decided \in [Challenges -> Verdicts]
        /\ [hub.decided EXCEPT ![hub.challenge] = seen[e].config.verdict] \in [Challenges -> Verdicts]
    BY <2>2 DEF TypeOK, Hubs
  <2>5. /\ hub' \in Hubs /\ hub'.price = hub.price /\ (hub'.active => UNCHANGED hub)
        /\ hub'.filed = hub.filed
    BY <2>2, <2>3, <2>4, ZenonT(30) DEF TypeOK, Hubs
  <2>6. faults' \in 0 .. MaxFaults
    BY <1>16 DEF EngineResolve, TypeOK
  <2>7. UNCHANGED <<relay, row, open, seen, made>>
    BY <1>16 DEF EngineResolve
  <2>8. TypeOK'
    BY <2>1, <2>5, <2>6, <2>7 DEF Moved, TypeOK
  <2>9. OnlyMoves(e) /\ Len(relay) <= Len(relay')
    BY <2>1, <2>7 DEF Moved, OnlyMoves
  <2>10. MadeOrNone(row.config.assertion)' /\ KnowsMade(e)'
    BY <2>7 DEF Moved, AssertionsWereMade, KnowsMade, MadeOrNone
  <2>11. AssertionsWereMade'
    BY <2>8, <2>10, <2>9, OthersKnow
  <2>12. (ActiveIsNamed /\ RowHasPrices)'
    BY <2>5, <2>7 DEF ActiveIsNamed, RowHasPrices
  <2>13. EnginesKnow'
    BY <2>1, <2>5, <2>7 DEF Moved, EnginesKnow
  <2>14. AnswersKnow'
    BY <2>1, <2>7 DEF Moved, AnswersKnow
  <2>15. RowFollowsHub'
    BY <2>5, <2>7 DEF RowFollowsHub
  <2>16. IRow'
    BY <2>8, <2>11, <2>12, <2>13, <2>14, <2>15
  <2>17. ASSUME MaxChallenges = 1, IVote
        PROVE  IVote'
    <3> USE DEF IVote
    <3>1. KnowsVote(e)
      BY <2>17 DEF AllKnowVotes
    <3>2. RelayGrows /\ hub.filed \subseteq hub'.filed
      BY <2>5, <2>7 DEF RelayGrows
    <3>3. KnowsVote(e)'
      BY <2>1, <2>5, <2>7, <3>1 DEF Moved, KnowsVote, Storing, Deciding, RowIsRight
    <3>4. AllKnowVotes'
      BY <2>17, <2>9, <3>2, <3>3, OthersKnowVotes
    <3>5. RowIsRight'
      BY <2>17, <2>5, <2>7 DEF Moved, RowIsRight, Right
    <3>6. OneChallenge'
      BY <2>17, <2>5, <2>7 DEF OneChallenge
    <3>7. NothingBefore'
      BY <2>17, <2>1, <2>7 DEF Moved, NothingBefore, Began
    <3>8. hub' # hub => \E i \in DOMAIN relay :
            relay[i].challenge = hub.challenge /\ relay[i].verdict = seen[e].config.verdict
      BY <2>17, <2>1, <2>3, <3>1, NumberType
         DEF KnowsVote, Deciding, Moved, Right, OneChallenge, AssertionsWereMade,
             KnowsMade, MadeOrNone
    <3>9. \/ UNCHANGED hub
          \/ /\ hub.active /\ ~hub'.active
             /\ hub'.decided = [hub.decided EXCEPT ![hub.challenge] = seen[e].config.verdict]
      BY <2>3 DEF TypeOK, Hubs
    <3>10. \A c \in Challenges :
           \/ hub'.decided[c] = hub.decided[c]
           \/ c = hub.challenge /\ hub' # hub /\ hub'.decided[c] = seen[e].config.verdict
      BY <3>9, <2>4
    <3>11. BondFollowsVote' /\ PriceWasVoted'
      BY <2>17, <2>5, <2>7, <3>8, <3>10 DEF BondFollowsVote, PriceWasVoted, VotedFor
    <3>12. QED
      BY <3>4, <3>5, <3>6, <3>7, <3>11
  <2>18. QED
    BY <2>16, <2>17
<1>17. ASSUME NEW e \in Engines, EngineSettle(e)
      PROVE  IRow' /\ (MaxChallenges = 1 /\ IVote => IVote')
  <2>1. PriceOf(seen[e]) \in Prices \cup {None}
    BY DEF TypeOK, Rows, PriceOf
  <2>2. \/ Moved(e, "settle", "idle") /\ Forgot(e) /\ UNCHANGED hub
        \/ /\ Moved(e, "settle", "record") /\ UNCHANGED <<seen, made>>
           /\ hub.price = None /\ hub' = [hub EXCEPT !.price = PriceOf(seen[e])]
    BY <1>17, StepMoves, ReturnForgets DEF EngineSettle, PCs
  <2>3. /\ hub' \in Hubs /\ hub'.active = hub.active /\ hub'.challenge = hub.challenge
        /\ hub'.filed = hub.filed /\ hub'.decided = hub.decided
    BY <2>1, <2>2 DEF TypeOK, Hubs
  <2>4. pc'[e] = "record" => hub'.price = PriceOf(seen'[e])
    BY <2>2 DEF TypeOK, Hubs, Moved
  <2>5. \/ seen'[e] = seen[e] /\ made'[e] = made[e]
        \/ seen'[e] = NewRow /\ made'[e] = 0
    BY <2>2 DEF Forgot
  <2>6. hub' # hub => \A d \in Engines : pc[d] # "record"
    BY <2>2, PricesOfDisputes DEF EnginesKnow
  <2>7. UNCHANGED <<relay, row, open, faults>>
    BY <1>17 DEF EngineSettle
  <2>8. TypeOK'
    BY <2>2, <2>3, <2>7 DEF Moved, Forgot, TypeOK
  <2>9. OnlyMoves(e) /\ Len(relay) <= Len(relay')
    BY <2>2, <2>7 DEF Moved, Forgot, OnlyMoves
  <2>10. MadeOrNone(row.config.assertion)' /\ KnowsMade(e)'
    BY <2>5, <2>7 DEF AssertionsWereMade, KnowsMade, MadeOrNone, NewRow
  <2>11. AssertionsWereMade'
    BY <2>8, <2>10, <2>9, OthersKnow
  <2>12. (ActiveIsNamed /\ RowHasPrices)'
    BY <2>3, <2>7 DEF ActiveIsNamed, RowHasPrices
  <2>13. EnginesKnow'
    BY <2>2, <2>4, PricesOfDisputes DEF Moved, Forgot, EnginesKnow
  <2>14. AnswersKnow'
    BY <2>2 DEF Moved, Forgot, AnswersKnow
  <2>15. RowFollowsHub'
    BY <2>2, <2>7 DEF RowFollowsHub
  <2>16. IRow'
    BY <2>8, <2>11, <2>12, <2>13, <2>14, <2>15
  <2>17. ASSUME MaxChallenges = 1, IVote
        PROVE  IVote'
    <3> USE DEF IVote
    <3>1. KnowsVote(e)
      BY <2>17 DEF AllKnowVotes
    <3>2. RelayGrows /\ hub.filed \subseteq hub'.filed
      BY <2>3, <2>7 DEF RelayGrows
    <3>3. KnowsVote(e)'
      BY <2>2, <2>3, <2>7, <3>1
         DEF Moved, Forgot, KnowsVote, Storing, Deciding, RowIsRight, Right, NewRow
    <3>4. AllKnowVotes'
      BY <2>17, <2>9, <3>2, <3>3, OthersKnowVotes
    <3>5. RowIsRight'
      BY <2>17, <2>3, <2>7 DEF Moved, Forgot, RowIsRight, Right
    <3>6. OneChallenge'
      BY <2>17, <2>3, <2>7 DEF OneChallenge
    <3>7. NothingBefore'
      BY <2>17, <2>2, <2>7 DEF Moved, NothingBefore, Began
    <3>8. PriceOf(seen[e]) \in Challenges => \E i \in DOMAIN relay :
            relay[i].challenge = PriceOf(seen[e]) /\ relay[i].verdict = "challenger"
      BY <2>17, <3>1, NumberType
         DEF KnowsVote, PriceOf, Right, OneChallenge, AssertionsWereMade, KnowsMade,
             MadeOrNone
    <3>9. BondFollowsVote' /\ PriceWasVoted'
      BY <2>17, <2>2, <2>3, <2>4, <2>7, <3>8
         DEF Moved, BondFollowsVote, PriceWasVoted, VotedFor
    <3>10. QED
      BY <3>4, <3>5, <3>6, <3>7, <3>9
  <2>18. QED
    BY <2>16, <2>17
<1>18. ASSUME NEW e \in Engines, EngineRecord(e)
      PROVE  IRow' /\ (MaxChallenges = 1 /\ IVote => IVote')
  <2>1. Moved(e, "record", "idle") /\ Forgot(e)
    BY <1>18, StepMoves, ReturnForgets DEF EngineRecord, PCs
  <2>2. PriceOf(seen[e]) \in Prices \cup {None}
    BY DEF TypeOK, Rows, PriceOf
  <2>3. \/ UNCHANGED row
        \/ /\ row' \in Rows /\ row'.status = "SETTLED" /\ row'.value = PriceOf(seen[e])
           /\ row.status = "SETTLEMENT_REQUESTED" /\ row'.disputed = FALSE
           /\ row'.alternative = row.alternative
           /\ row'.proposed = row.proposed /\ row'.config = seen[e].config
    BY <1>18, <2>2 DEF EngineRecord, TypeOK, Rows
  <2>4. hub.price = PriceOf(seen[e]) /\ hub.price # None
    BY <2>1, PricesOfDisputes DEF Moved, EnginesKnow
  <2>5. UNCHANGED <<hub, relay, open, faults>>
    BY <1>18 DEF EngineRecord
  <2>6. TypeOK'
    BY <2>1, <2>3, <2>5 DEF Moved, Forgot, TypeOK
  <2>7. OnlyMoves(e) /\ Len(relay) <= Len(relay')
    BY <2>1, <2>5 DEF Moved, Forgot, OnlyMoves
  <2>8. MadeOrNone(row.config.assertion)' /\ KnowsMade(e)'
    BY <2>1, <2>3, <2>5 DEF Moved, Forgot, AssertionsWereMade, KnowsMade, MadeOrNone, NewRow
  <2>9. AssertionsWereMade'
    BY <2>6, <2>8, <2>7, OthersKnow
  <2>10. (ActiveIsNamed /\ RowHasPrices)'
    BY <2>3, <2>5 DEF ActiveIsNamed, RowHasPrices
  <2>11. EnginesKnow'
    BY <2>1, <2>5 DEF Moved, Forgot, EnginesKnow
  <2>12. AnswersKnow'
    BY <2>1 DEF Moved, Forgot, AnswersKnow
  <2>13. RowFollowsHub'
    BY <2>3, <2>4, <2>5 DEF RowFollowsHub
  <2>14. IRow'
    BY <2>6, <2>9, <2>10, <2>11, <2>12, <2>13
  <2>15. ASSUME MaxChallenges = 1, IVote
        PROVE  IVote'
    <3> USE DEF IVote
    <3>1. KnowsVote(e)
      BY <2>15 DEF AllKnowVotes
    <3>2. RelayGrows /\ hub.filed \subseteq hub'.filed
      BY <2>5 DEF RelayGrows
    <3>3. KnowsVote(e)'
      BY <2>1 DEF Moved, Forgot, KnowsVote, Storing, Right, NewRow
    <3>4. AllKnowVotes'
      BY <2>15, <2>7, <3>2, <3>3, OthersKnowVotes
    <3>5. RowIsRight'
      BY <2>15, <2>3, <2>5, <3>1 DEF Moved, Forgot, RowIsRight, KnowsVote
    <3>6. OneChallenge'
      BY <2>15, <2>5 DEF OneChallenge
    <3>7. NothingBefore'
      BY <2>15, <2>1, <2>3, <2>5 DEF Moved, NothingBefore, Began
    <3>8. (BondFollowsVote /\ PriceWasVoted)'
      BY <2>15, <2>5, <3>2, HubStays
    <3>9. QED
      BY <3>4, <3>5, <3>6, <3>7, <3>8
  <2>16. QED
    BY <2>14, <2>15
<1>19. ASSUME NEW p \in Ticks \cup Engines, Die(p)
      PROVE  IRow' /\ (MaxChallenges = 1 /\ IVote => IVote')
  <2>1. Forgot(p) /\ \E from \in PCs : Moved(p, from, "idle")
    BY <1>19, StepMoves, ReturnForgets DEF Die, PCs
  <2>2. faults' \in 0 .. MaxFaults
    BY <1>19 DEF Die, TypeOK
  <2>3. UNCHANGED <<hub, relay, row, open>>
    BY <1>19 DEF Die
  <2>4. TypeOK'
    BY <2>1, <2>2, <2>3 DEF Moved, Forgot, TypeOK
  <2>5. OnlyMoves(p) /\ Len(relay) <= Len(relay')
    BY <2>1, <2>3 DEF Moved, Forgot, OnlyMoves
  <2>6. MadeOrNone(row.config.assertion)' /\ KnowsMade(p)'
    BY <2>1, <2>3 DEF Moved, Forgot, AssertionsWereMade, KnowsMade, MadeOrNone, NewRow
  <2>7. AssertionsWereMade'
    BY <2>4, <2>6, <2>5, OthersKnow
  <2>8. (ActiveIsNamed /\ RowHasPrices)'
    BY <2>3 DEF ActiveIsNamed, RowHasPrices
  <2>9. EnginesKnow'
    BY <2>1, <2>3 DEF Moved, Forgot, EnginesKnow
  <2>10. AnswersKnow'
    BY <2>1 DEF Moved, Forgot, AnswersKnow
  <2>11. RowFollowsHub'
    BY <2>3 DEF RowFollowsHub
  <2>12. IRow'
    BY <2>4, <2>7, <2>8, <2>9, <2>10, <2>11
  <2>13. ASSUME MaxChallenges = 1, IVote
        PROVE  IVote'
    <3> USE DEF IVote
    <3>1. KnowsVote(p)
      BY <2>13 DEF AllKnowVotes
    <3>2. RelayGrows /\ hub.filed \subseteq hub'.filed
      BY <2>3 DEF RelayGrows
    <3>3. KnowsVote(p)'
      BY <2>1 DEF Moved, Forgot, KnowsVote, Right, NewRow
    <3>4. AllKnowVotes'
      BY <2>13, <2>5, <3>2, <3>3, OthersKnowVotes
    <3>5. RowIsRight'
      BY <2>13, <2>3 DEF RowIsRight
    <3>6. OneChallenge'
      BY <2>13, <2>3 DEF OneChallenge
    <3>7. NothingBefore'
      BY <2>13, <2>1, <2>3 DEF Moved, NothingBefore, Began
    <3>8. (BondFollowsVote /\ PriceWasVoted)'
      BY <2>13, <2>3, <3>2, HubStays
    <3>9. QED
      BY <3>4, <3>5, <3>6, <3>7, <3>8
  <2>14. QED
    BY <2>12, <2>13
<1>20. ASSUME NEW i \in 1 .. MaxAssertions, NEW verdict \in {"challenger", "proposer"},
              Vote(i, verdict)
      PROVE  IRow' /\ (MaxChallenges = 1 /\ IVote => IVote')
  <2>1. i \in DOMAIN relay /\ relay' = [relay EXCEPT ![i].verdict = verdict]
    BY <1>20 DEF Vote
  <2>2. UNCHANGED <<hub, row, open, pc, seen, made, faults>>
    BY <1>20 DEF Vote
  <2>3. [relay[i] EXCEPT !.verdict = verdict] \in Disputes
    BY <2>1, DisputeType DEF Disputes, Verdicts
  <2>4. relay' \in Seq(Disputes) /\ Len(relay') = Len(relay)
    BY <2>1, <2>3 DEF TypeOK
  <2>5. TypeOK'
    BY <2>2, <2>4 DEF TypeOK
  <2>6. AssertionsWereMade'
    BY <2>2, <2>4 DEF AssertionsWereMade, KnowsMade, MadeOrNone
  <2>7. IRow'
    BY <2>2, <2>5, <2>6
       DEF ActiveIsNamed, RowHasPrices, EnginesKnow, AnswersKnow, RowFollowsHub
  <2>8. ASSUME MaxChallenges = 1, IVote
        PROVE  IVote'
    <3> USE DEF IVote
    <3>1. RelayGrows /\ \A d \in DOMAIN relay' : relay'[d].challenge = relay[d].challenge
      BY <1>20 DEF RelayGrows, Vote
    <3>2. \A p \in Procs : Right(relay', seen[p].config)
      BY <2>8, <3>1, RightStays, NumberType
         DEF AllKnowVotes, KnowsVote, AssertionsWereMade, KnowsMade, MadeOrNone
    <3>3. Right(relay', row.config)
      BY <2>8, <3>1, RightStays, RowNumberType
         DEF RowIsRight, AssertionsWereMade, MadeOrNone
    <3>4. AllKnowVotes'
      <4> SUFFICES ASSUME NEW p \in Procs
                   PROVE  KnowsVote(p)'
        BY DEF AllKnowVotes
      <4>1. KnowsVote(p) /\ KnowsMade(p)
        BY <2>8 DEF AllKnowVotes, AssertionsWereMade
      <4>2. ASSUME p \in Webhooks, pc[p] = "store"
            PROVE  made[p] \in DOMAIN relay
        BY <4>1, <4>2 DEF KnowsMade, MadeOrNone, TypeOK
      <4> QED BY <2>2, <3>1, <3>2, <4>1, <4>2 DEF KnowsVote, RelayGrows
    <3>5. RowIsRight' /\ OneChallenge'
      BY <2>2, <2>4, <2>8, <3>1, <3>3 DEF RowIsRight, OneChallenge
    <3>6. NothingBefore'
      BY <2>1, <2>2, <2>8 DEF NothingBefore, Began
    <3>7. (BondFollowsVote /\ PriceWasVoted)'
      BY <2>2, <2>8, <3>1, HubStays
    <3>8. QED
      BY <3>4, <3>5, <3>6, <3>7
  <2>9. QED
    BY <2>7, <2>8
<1>21. ASSUME UNCHANGED <<hub, relay, row, pc, seen, made, faults>>,
             Time \/ UNCHANGED open
      PROVE  IRow' /\ (MaxChallenges = 1 /\ IVote => IVote')
  <2>1. open' \in [{"hub", "row"} -> BOOLEAN]
    BY <1>21 DEF TypeOK, Time, CloseWindow
  <2>2. TypeOK'
    BY <1>21, <2>1 DEF TypeOK
  <2>3. AssertionsWereMade'
    BY <1>21 DEF AssertionsWereMade, KnowsMade, MadeOrNone
  <2>4. IRow'
    BY <1>21, <2>2, <2>3
       DEF ActiveIsNamed, RowHasPrices, EnginesKnow, AnswersKnow, RowFollowsHub
  <2>5. IVote => IVote'
    BY <1>21
       DEF IVote, AllKnowVotes, KnowsVote, RowIsRight, OneChallenge, NothingBefore, Began,

                  BondFollowsVote, PriceWasVoted, VotedFor
  <2>6. QED
    BY <2>4, <2>5
<1>22. QED
  BY <1>1, <1>2, <1>3, <1>4, <1>5, <1>6, <1>7, <1>8, <1>9, <1>10, <1>11, <1>12, <1>13,
     <1>14, <1>15, <1>16, <1>17, <1>18, <1>19, <1>20, <1>21
  DEF Next, GoOn, Tick, Webhook, Answer, Engine, UMA, Time, CloseWindow, vars

\* Both hold at the start.
LEMMA InitialState == Init => IRow /\ IVote
<1> SUFFICES ASSUME Init
             PROVE  IRow /\ IVote
  OBVIOUS
<1> USE SagaAssumption DEF Init
<1>1. NewRow \in Rows /\ NewRow.config.assertion = 0 /\ NewRow.config.verdict = "none"
  BY NewRowIsRow DEF NewRow
<1>2. hub \in Hubs
  BY DEF Hubs, Verdicts
<1>3. relay \in Seq(Disputes) /\ Len(relay) = 0 /\ DOMAIN relay = {}
  OBVIOUS
<1>4. open \in [{"hub", "row"} -> BOOLEAN]
  <2>1. DOMAIN open = {"hub", "row"} /\ open["hub"] = TRUE /\ open["row"] = TRUE
    OBVIOUS
  <2>2. open = [clock \in {"hub", "row"} |-> open[clock]]
    BY <2>1
  <2> QED BY <2>1, <2>2
<1>5. /\ pc \in [Procs -> PCs]
      /\ seen \in [Procs -> Rows] /\ made \in [Procs -> 0 .. MaxAssertions]
  BY <1>1 DEF PCs
<1>6. TypeOK
  BY <1>1, <1>2, <1>5, <1>4 DEF TypeOK
<1>7. AssertionsWereMade
  BY <1>1 DEF AssertionsWereMade, KnowsMade, MadeOrNone
<1>8. ActiveIsNamed /\ RowHasPrices /\ RowFollowsHub
  BY DEF NewRow, ActiveIsNamed, RowHasPrices, RowFollowsHub
<1>9. EnginesKnow /\ AnswersKnow
  BY DEF Procs, EnginesKnow, AnswersKnow
<1>10. AllKnowVotes
  BY DEF NewRow, AllKnowVotes, KnowsVote, Right, Storing
<1>11. RowIsRight
  BY DEF NewRow, RowIsRight, Right
<1>12. IsFiniteSet(hub.filed)
  BY FS_EmptySet
<1>13. OneChallenge
  BY <1>12 DEF OneChallenge
<1>14. NothingBefore
  BY DEF NothingBefore, NewRow, Procs
<1>15. BondFollowsVote /\ PriceWasVoted
  BY DEF BondFollowsVote, PriceWasVoted, Procs
<1> QED
  BY <1>6, <1>7, <1>8, <1>9, <1>10, <1>11, <1>13, <1>14, <1>15 DEF IRow, IVote

----------------------------------------------------------------------------
\* Theorems.

\* So the first holds of every behaviour.
LEMMA RowInvariant == Spec => []IRow
<1>1. IRow /\ [Next]_vars => IRow'
  BY InvariantStep
<1> QED BY <1>1, InitialState, PTL DEF Spec

\* And the second of every behaviour with one challenge.
LEMMA VoteInvariant ==
  ASSUME MaxChallenges = 1
  PROVE  Spec => []IVote
<1>1. IRow /\ IVote /\ [Next]_vars => IVote'
  BY InvariantStep
<1> QED BY <1>1, InitialState, RowInvariant, PTL DEF Spec

\* Every variable keeps its range.
THEOREM TypeCorrect == Spec => []TypeOK
<1>1. IRow => TypeOK
  BY DEF IRow
<1> QED BY <1>1, RowInvariant, PTL

\* However many challenges, engines and answers overlap and die, a row that says
\* SETTLED gives the price that settled the market on the hub.
THEOREM RowIsTrue == Spec => []RowFollowsHub
<1>1. IRow => RowFollowsHub
  BY DEF IRow
<1> QED BY <1>1, RowInvariant, PTL

\* With one challenge, and however the endpoints, ticks, webhooks, answers and
\* engines overwrite one another's market_config, a verdict in the row is UMA's on
\* the assertion in the row.
THEOREM VerdictIsTrue ==
  ASSUME MaxChallenges = 1
  PROVE  Spec => []VerdictIsOfAssertion
<1>1. IRow /\ IVote => VerdictIsOfAssertion
  BY RowNumberType
  DEF IRow, IVote, RowIsRight, Right, AssertionsWereMade, MadeOrNone, TypeOK,
      VerdictIsOfAssertion
<1> QED BY <1>1, RowInvariant, VoteInvariant, PTL

\* With one challenge, its bond is paid out as UMA voted on it.
THEOREM BondIsJust ==
  ASSUME MaxChallenges = 1
  PROVE  Spec => []BondFollowsVote
<1>1. IVote => BondFollowsVote
  BY DEF IVote
<1> QED BY <1>1, VoteInvariant, PTL

\* With one challenge, the challenger's price settles the market only after the
\* vote for it.
THEOREM PriceIsJust ==
  ASSUME MaxChallenges = 1
  PROVE  Spec => []PriceWasVoted
<1>1. IVote => PriceWasVoted
  BY DEF IVote
<1> QED BY <1>1, VoteInvariant, PTL
=============================================================================
