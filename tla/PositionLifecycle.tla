-------------------------- MODULE PositionLifecycle --------------------------
(***************************************************************************)
(* The management of one generic Uniswap v4 position after it was opened:  *)
(* collect, partial close, full close and burn, as intents that a Telegram *)
(* button confirms (executeV4Lifecycle), and the close of the one position *)
(* the live canary owns.  Three processes take part: the bot, which works  *)
(* on one update at a time and may die at any await, the reconcile worker, *)
(* which books confirmed collects and full closes, and the reader that     *)
(* copies the chain into v4_positions.  How a transaction reaches the      *)
(* chain exactly once is the subject of DurableTransaction; here a send    *)
(* either reaches the node or is lost, and its evidence may be missing.    *)
(***************************************************************************)
EXTENDS Integers, Sequences, FiniteSets

CONSTANTS InitialLiquidity,  \* what the position holds when it is first managed
          MaxIntents,        \* bound: rows of v4_lifecycle_intents
          MaxPreviews        \* bound: rows a preview creates

ASSUME BoundsAssumption == InitialLiquidity \in Nat /\ MaxIntents \in Nat /\ MaxPreviews \in Nat

Ids     == 1 .. MaxIntents   \* in the order of created_at
Actions == {"collect", "partial_close", "full_close", "burn"}

VARIABLES
    intents,   \* v4_lifecycle_intents and their receipts
    chain,     \* the position and the transactions, with the order they landed in
    mirror,    \* v4_positions: liquidity and status
    ingested,  \* the intents whose decrease stands in liquidity_changes
    basis,     \* the CONSUME rows of v4_position_basis_events, in order
    work,      \* economic work items of the intents
    worker,    \* what the reconcile worker has read before its await
    bot,       \* the update the bot is working on
    canary     \* v4_live_canary of this position ("NONE": it is not the canary's)

vars == <<intents, chain, mirror, ingested, basis, work, worker, bot, canary>>

(* Rows *)

Absent == [key |-> <<"none", 0>>, action |-> "collect", state |-> "NONE",
           removed |-> 0, hash |-> FALSE, receipt |-> "none", breach |-> FALSE]

\* createV4LifecycleIntent: a row of its own per idempotency key.
Created(key, action) ==
    [Absent EXCEPT !.key = key, !.action = action, !.state = "PREVIEWED"]

\* claimV4LifecycleIntent
Won(row) == IF row.state = "PREVIEWED" THEN [row EXCEPT !.state = "CLAIMED"] ELSE row

Rows        == {i \in Ids : intents[i].state # "NONE"}
NextId      == Cardinality(Rows) + 1
HasKey(key) == \E i \in Rows : intents[i].key = key
IdOf(key)   == CHOOSE i \in Rows : intents[i].key = key

\* Bound: every full close leaves room for its burn, the canary for both of its rows.
Reserved ==
    Cardinality({i \in Rows : /\ intents[i].key[1] = "preview"
                              /\ intents[i].action = "full_close"
                              /\ ~HasKey(<<"burn", i>>)})
    + (IF canary = "NONE" THEN 0
       ELSE Cardinality({k \in {"canary_close", "canary_burn"} : ~HasKey(<<k, 0>>)}))

Room(n) ==
    /\ Cardinality(Rows) + Reserved + n <= MaxIntents
    /\ Cardinality({i \in Rows : intents[i].key[1] = "preview"}) < MaxPreviews

UnresolvedStates == {"CLAIMED", "PREPARED", "SUBMITTED",
                     "CONFIRMED_RECONCILIATION_REQUIRED", "CONFIRMED"}
ConfirmedStates  == {"CONFIRMED_RECONCILIATION_REQUIRED", "CONFIRMED"}

Confirmed(i) == intents[i].receipt = "success"

\* transitionV4LifecycleIntent refuses to lead a confirmed action back.
Refused(i, state) ==
    /\ Confirmed(i) \/ intents[i].state \in ConfirmedStates \cup {"RECONCILED", "BURNED"}
    /\ state \notin ConfirmedStates \cup {"RECONCILED", "BURNED"}

To(i, state) ==
    IF Refused(i, state) THEN intents ELSE [intents EXCEPT ![i].state = state]

\* The CONFIRMED transition is made from CONFIRMED_RECONCILIATION_REQUIRED alone.
Acknowledged(i) ==
    IF intents[i].state = "CONFIRMED_RECONCILIATION_REQUIRED" THEN To(i, "CONFIRMED") ELSE intents

\* Mutant: the status the caller is told is written into the row.
ToldStatus(i) ==
    IF (intents[i].hash /\ intents[i].receipt = "none") \/ Confirmed(i)
    THEN [intents EXCEPT ![i].state = "RECOVERY_REQUIRED"]
    ELSE [intents EXCEPT ![i].state = "FAILED"]

\* Mutant: whatever throws fails the row.
AlwaysFailed(i) == [intents EXCEPT ![i].state = "FAILED"]

\* The catch clause: only a row without a hash, or with a revert, becomes FAILED.
Caught(i) ==
    IF (intents[i].hash /\ intents[i].receipt = "none") \/ Confirmed(i)
    THEN intents
    ELSE [intents EXCEPT ![i].state = "FAILED"]

(* What a generic close takes out of the position's cost basis *)

\* Mutant: a confirmed predecessor counts as settled.
BlockedBySent(i) == \E j \in 1 .. i - 1 : intents[j].state \in {"CLAIMED", "PREPARED", "SUBMITTED"}

\* A row created earlier is still on its way.
Blocked(i) == \E j \in 1 .. i - 1 : intents[j].state \in UnresolvedStates

Before(i, j) == \E p, q \in DOMAIN chain.landed :
                   p < q /\ chain.landed[p] = i /\ chain.landed[q] = j

InBasis(i) == \E k \in DOMAIN basis : basis[k] = i

\* A removal that landed later has been consumed already.
OutOfOrder(i) == basis # <<>> /\ Before(i, basis[Len(basis)])

\* exactInitialBasis: there is none to start from once another decrease is recorded.
HasBasis(i) == basis # <<>> \/ ingested \subseteq {i}

\* consumeGenericV4Basis: "KEPT" (consumed before), "TAKEN", "NONE", or it throws.
Consumption(i, before, after) ==
    IF InBasis(i) THEN "KEPT"
    ELSE IF Blocked(i) THEN "THROWN"
    ELSE IF ~HasBasis(i) THEN "NONE"
    ELSE IF OutOfOrder(i) \/ before - intents[i].removed # after THEN "THROWN"
    ELSE "TAKEN"

Consumed(i, outcome) == IF outcome = "TAKEN" THEN Append(basis, i) ELSE basis

(* The bot *)

Idle == [pc |-> "idle", key |-> <<"none", 0>>, liq |-> 0, status |-> "open", after |-> 0]

Self       == IdOf(bot.key)
Chosen     == intents[Self].action
At(pc, key) == [Idle EXCEPT !.pc = pc, !.key = key]
Goto(pc)   == bot' = At(pc, bot.key) /\ UNCHANGED canary
Rest       == UNCHANGED <<chain, mirror, ingested, basis, work, worker>>

\* An action that is not done ends the call; the canary's is FAILED.
Fails ==
    /\ bot' = Idle
    /\ canary' = IF bot.key[1] \in {"canary_close", "canary_burn"} THEN "FAILED" ELSE canary

\* finalizeV4TerminalAccounting refuses any other books; what it then writes off is left out.
TerminalBooks(books) == books = [liq |-> 0, status |-> "burned"]

\* After an action that is done a full close goes on with the burn.  A close over its
\* gas budget pauses the canary, and a burn ends it once the books agree.
Succeeds(row, books) ==
    CASE bot.key[1] = "preview" /\ row.action = "full_close" ->
             bot' = At("enter", <<"burn", bot.key[2]>>) /\ UNCHANGED canary
      [] bot.key[1] = "canary_close" /\ ~row.breach ->
             bot' = At("enter", <<"canary_burn", 0>>) /\ UNCHANGED canary
      [] bot.key[1] = "canary_close" /\ row.breach -> Fails
      [] bot.key[1] = "canary_burn" /\ TerminalBooks(books) ->
             bot' = Idle /\ canary' = "CLOSED"
      [] bot.key[1] = "canary_burn" /\ ~TerminalBooks(books) -> Fails
      [] OTHER -> bot' = Idle /\ UNCHANGED canary

\* v4ManagementPreview: the position is read, and a row is written that waits for
\* its button.  The same message finds its row again, which changes nothing.
Preview(action) ==
    /\ bot.pc = "idle"
    /\ action # "burn"
    /\ chain.held /\ chain.liq > 0
    /\ action = "partial_close" => (chain.liq * 50) \div 100 > 0
    /\ Room(IF action = "full_close" THEN 2 ELSE 1)
    /\ intents' = [intents EXCEPT ![NextId] = Created(<<"preview", NextId>>, action)]
    /\ UNCHANGED <<bot, canary>> /\ Rest

\* v4ManagementConfirm: the button of a preview, pressed once or again.
Confirm(i) ==
    /\ bot.pc = "idle"
    /\ intents[i].key[1] = "preview"
    /\ bot' = At("enter", intents[i].key)
    /\ UNCHANGED <<intents, canary>> /\ Rest

\* evaluateV4LiveGates: a position that is open, or whose close did not come to an end.
\* The operator's switches, pauses and the deployment audit may refuse beside it.
CanaryAdmits == canary \in {"OPENED", "CLOSING", "FAILED"}

\* claimV4LiveClose
Claimed == IF canary = "OPENED" THEN "CLOSING" ELSE canary

\* v4LiveCloseConfirm and executeV4LiveCanaryClose up to its first transaction.
CanaryClose ==
    /\ bot.pc = "idle"
    /\ CanaryAdmits
    /\ canary' = Claimed
    /\ bot' = At("enter", <<"canary_close", 0>>)
    /\ UNCHANGED intents /\ Rest

\* executeV4Lifecycle up to its first await: the row is made or found, claimed or
\* taken over as it stands; only PREVIEWED has to be won.
Enter ==
    /\ bot.pc = "enter"
    /\ LET action == CASE bot.key[1] = "burn"         -> "burn"
                       [] bot.key[1] = "canary_burn"  -> "burn"
                       [] bot.key[1] = "canary_close" -> "full_close"
                       [] OTHER                       -> intents[bot.key[2]].action
           id  == IF HasKey(bot.key) THEN Self ELSE NextId
           row == IF HasKey(bot.key) THEN intents[id] ELSE Created(bot.key, action)
       IN  /\ intents' = [intents EXCEPT ![id] = Won(row)]
           /\ CASE row.state \in {"PREVIEWED", "CLAIMED"}  -> Goto("prepare")
                [] row.state = "PREPARED"                  -> Goto("probe")
                [] row.state = "SUBMITTED"                 -> Goto("wait")
                [] row.state \in ConfirmedStates           -> Goto("confirmed")
                [] row.state \in {"RECONCILED", "BURNED"}  -> Succeeds(row, mirror)
                [] row.state = "FAILED"                    -> Fails
    /\ Rest

Removed(action) == CASE action = "full_close"    -> chain.liq
                     [] action = "partial_close" -> (chain.liq * 50) \div 100
                     [] OTHER                    -> 0

Preparable(action) ==
    /\ chain.held
    /\ IF action = "burn" THEN chain.liq = 0 ELSE chain.liq > 0
    /\ action = "partial_close" => Removed(action) > 0

\* prepareV4Lifecycle and persistPreparedTransaction: what is to be removed is read,
\* signed, and stands in the row before any byte leaves the process.
Prepare ==
    /\ bot.pc = "prepare" /\ Preparable(Chosen)
    /\ intents[Self].state \in {"CLAIMED", "PREPARED"}
    /\ intents' = [intents EXCEPT ![Self].state = "PREPARED", ![Self].hash = TRUE,
                                  ![Self].removed = Removed(Chosen)]
    /\ Goto("broadcast") /\ Rest

\* Preparation, gas estimate, gas policy or nonce mutex fails: nothing is signed.
Refuse ==
    /\ bot.pc = "prepare"
    /\ intents' = Caught(Self)
    /\ Fails /\ Rest

\* The bytes reach the node or not, and the evidence shows it or not; what is not
\* shown leaves PREPARED behind and is never sent again.
Broadcast(reached, shown) ==
    /\ bot.pc = "broadcast"
    /\ shown => reached
    /\ chain' = IF reached THEN [chain EXCEPT !.tx[Self] = "pending"] ELSE chain
    /\ intents' = IF shown THEN To(Self, "SUBMITTED") ELSE Caught(Self)
    /\ IF shown THEN Goto("wait") ELSE Fails
    /\ UNCHANGED <<mirror, ingested, basis, work, worker>>

\* A later confirmation finds PREPARED: the hash is looked up, never sent again.  A
\* receipt leads on, a pending transaction ends this call.
Probe(answered) ==
    /\ bot.pc = "probe"
    /\ LET tx == IF answered THEN chain.tx[Self] ELSE "none"
       IN  /\ intents' = IF tx \in {"pending", "success"} THEN To(Self, "SUBMITTED") ELSE Caught(Self)
           /\ IF tx \in {"success", "reverted"} THEN Goto("wait") ELSE Fails
    /\ Rest

\* persistReceiptTruth
Observe ==
    /\ bot.pc = "wait"
    /\ chain.tx[Self] \in {"success", "reverted"}
    /\ LET success == chain.tx[Self] = "success"
       IN  /\ intents' = [intents EXCEPT
                  ![Self].receipt = chain.tx[Self],
                  ![Self].state   = IF success THEN "CONFIRMED_RECONCILIATION_REQUIRED" ELSE "FAILED"]
           /\ IF success THEN Goto("confirmed") ELSE Fails
    /\ Rest

\* The receipt does not come in time, or what follows it throws: the row says how far
\* it has come.
GiveUp ==
    /\ bot.pc \in {"wait", "confirmed", "account"}
    /\ intents' = Caught(Self)
    /\ Fails /\ Rest

\* With deferReconciliation the worker books the action; a locked database loses the
\* work item, not the result.
Defer(handedOver) ==
    /\ bot.pc = "confirmed" /\ bot.key[1] = "preview"
    /\ Chosen \in {"collect", "full_close"}
    /\ intents' = Acknowledged(Self)
    /\ work' = IF handedOver /\ work[Self] = "none" THEN [work EXCEPT ![Self] = "due"] ELSE work
    /\ Succeeds(intents[Self], mirror)
    /\ UNCHANGED <<chain, mirror, ingested, basis, worker>>

\* ingestLiquidityChange: once per decrease, however often it is ingested.
Ingested(i) == ingested \cup {i}

\* updateV4Position: liquidity and status are overwritten, whatever they were.
Overwritten(liq, status) == [liq |-> liq, status |-> status]

BookBurn ==
    /\ bot.pc = "confirmed" /\ Chosen = "burn"
    /\ intents' = To(Self, "BURNED")
    /\ mirror' = Overwritten(0, "burned")
    /\ Succeeds(intents[Self], mirror')
    /\ UNCHANGED <<chain, ingested, basis, work, worker>>

\* afterConfirmation of the canary's gas policy; the breach stays in failure_reason.
MayBreach == bot.key[1] = "canary_close"

\* A partial close and the canary's close are booked by the bot: the decrease is
\* recorded, the chain and then the mirror are read, and an await follows.
ReadBooks(breach) ==
    /\ bot.pc = "confirmed"
    /\ Chosen = "partial_close" \/ bot.key[1] = "canary_close"
    /\ breach => MayBreach
    /\ intents' = [Acknowledged(Self) EXCEPT ![Self].breach = @ \/ breach]
    /\ ingested' = Ingested(Self)
    /\ bot' = [bot EXCEPT !.pc = "account", !.liq = mirror.liq, !.status = mirror.status,
                          !.after = chain.liq]
    /\ UNCHANGED <<chain, mirror, basis, work, worker, canary>>

\* What reconcileConfirmedV4Lifecycle writes for i after its await, from what it read
\* before: a full close empties the mirror, a collect writes back what it saw.
ReconciledMirror(i, liq, status) ==
    IF intents[i].action = "full_close"
    THEN Overwritten(0, IF status = "burned" THEN "burned" ELSE "closed")
    ELSE Overwritten(liq, status)

BookInline(completes) ==
    /\ bot.pc = "account"
    /\ LET partial == Chosen = "partial_close"
           outcome == IF partial THEN Consumption(Self, bot.liq, bot.after)
                      ELSE Consumption(Self, intents[Self].removed, 0)
           fails   == ~completes \/ outcome = "THROWN" \/ (partial /\ outcome = "NONE")
       IN  /\ basis' = Consumed(Self, outcome)
           /\ intents' = IF fails THEN Caught(Self) ELSE To(Self, "RECONCILED")
           /\ mirror' = IF fails THEN mirror
                        ELSE IF partial
                        THEN Overwritten(bot.after, IF bot.after = 0 THEN "closed" ELSE "partially_closed")
                        ELSE ReconciledMirror(Self, bot.liq, bot.status)
           /\ IF fails THEN Fails ELSE Succeeds(intents[Self], mirror')
    /\ UNCHANGED <<chain, ingested, work, worker>>

Crash ==
    /\ bot.pc # "idle"
    /\ bot' = Idle
    /\ UNCHANGED <<intents, canary>> /\ Rest

(* The reconcile worker *)

\* Mutant: only acknowledged receipts are looked for.
DiscoverAcknowledged(i) ==
    /\ intents[i].action \in {"collect", "full_close"}
    /\ Confirmed(i) /\ intents[i].state = "CONFIRMED"
    /\ work[i] = "none"
    /\ work' = [work EXCEPT ![i] = "due"]
    /\ UNCHANGED <<intents, chain, mirror, ingested, basis, worker, bot, canary>>

\* discoverMissingEconomicReconciliationWork
Discover(i) ==
    /\ intents[i].action \in {"collect", "full_close"}
    /\ Confirmed(i) /\ intents[i].state \in ConfirmedStates
    /\ work[i] = "none"
    /\ work' = [work EXCEPT ![i] = "due"]
    /\ UNCHANGED <<intents, chain, mirror, ingested, basis, worker, bot, canary>>

\* reconcileConfirmedV4Lifecycle up to its await.
Lease(i) ==
    /\ work[i] = "due" /\ worker.id = 0
    /\ Confirmed(i)
    /\ work' = [work EXCEPT ![i] = "leased"]
    /\ ingested' = IF intents[i].action = "full_close" THEN Ingested(i) ELSE ingested
    /\ worker' = [id |-> i, liq |-> mirror.liq, status |-> mirror.status]
    /\ UNCHANGED <<intents, chain, mirror, basis, bot, canary>>

Released(i) == [work EXCEPT ![i] = "due"]
NoItem      == [id |-> 0, liq |-> 0, status |-> "open"]

\* ... and from its await on; a booking that throws goes back to the queue.
Book(i, completes) ==
    /\ worker.id = i
    /\ LET outcome == IF intents[i].action = "full_close" THEN Consumption(i, intents[i].removed, 0)
                      ELSE "NONE"
           fails   == ~completes \/ outcome = "THROWN"
       IN  /\ basis' = Consumed(i, outcome)
           /\ intents' = IF fails THEN intents ELSE To(i, "RECONCILED")
           /\ mirror' = IF fails THEN mirror ELSE ReconciledMirror(i, worker.liq, worker.status)
           /\ work' = IF fails THEN Released(i) ELSE [work EXCEPT ![i] = "done"]
    /\ worker' = NoItem
    /\ UNCHANGED <<chain, ingested, bot, canary>>

\* The call for the block fails, or the worker dies and its lease runs out.
WorkerFails ==
    /\ worker.id # 0
    /\ work' = Released(worker.id)
    /\ worker' = NoItem
    /\ UNCHANGED <<intents, chain, mirror, ingested, basis, bot, canary>>

(* The reader of positions; how old its answers may be is LadderClose's subject. *)

Burnt == \E i \in Ids : intents[i].state = "BURNED"

Refresh ==
    /\ mirror' = IF ~chain.held THEN IF Burnt THEN [liq |-> 0, status |-> "burned"] ELSE mirror
                 ELSE IF chain.liq > 0 THEN [liq |-> chain.liq, status |-> "open"]
                 ELSE [liq |-> 0, status |-> "closed"]
    /\ UNCHANGED <<intents, chain, ingested, basis, work, worker, bot, canary>>

(* The chain *)

Executable(i) ==
    /\ chain.held
    /\ CASE intents[i].action = "burn"    -> TRUE
         [] intents[i].action = "collect" -> chain.liq > 0
         [] OTHER                         -> intents[i].removed <= chain.liq

Land(i) ==
    /\ chain.tx[i] = "pending" /\ Executable(i)
    /\ chain' = [chain EXCEPT !.tx[i] = "success", !.landed = Append(@, i),
                              !.liq = @ - intents[i].removed,
                              !.held = intents[i].action # "burn"]
    /\ UNCHANGED <<intents, mirror, ingested, basis, work, worker, bot, canary>>

\* The price moved, or another transaction took the nonce.
Lose(i, how) ==
    /\ chain.tx[i] = "pending"
    /\ chain' = [chain EXCEPT !.tx[i] = how]
    /\ UNCHANGED <<intents, mirror, ingested, basis, work, worker, bot, canary>>

Init ==
    /\ intents = [i \in Ids |-> Absent]
    /\ chain = [liq |-> InitialLiquidity, held |-> TRUE,
                tx |-> [i \in Ids |-> "none"], landed |-> <<>>]
    /\ mirror = [liq |-> InitialLiquidity, status |-> "open"]
    /\ ingested = {} /\ basis = <<>>
    /\ work = [i \in Ids |-> "none"] /\ worker = NoItem
    /\ bot = Idle
    /\ canary \in (IF MaxIntents < 2 THEN {"NONE"} ELSE {"NONE", "OPENED"})

BotStep ==
    \/ \E a \in Actions : Preview(a)
    \/ \E i \in Ids : Confirm(i)
    \/ CanaryClose \/ Enter \/ Prepare \/ Refuse
    \/ \E reached, shown \in BOOLEAN : Broadcast(reached, shown)
    \/ \E answered \in BOOLEAN : Probe(answered)
    \/ Observe \/ GiveUp
    \/ \E handedOver \in BOOLEAN : Defer(handedOver)
    \/ BookBurn
    \/ \E breach \in BOOLEAN : ReadBooks(breach)
    \/ \E completes \in BOOLEAN : BookInline(completes)
    \/ Crash

Next ==
    \/ BotStep
    \/ \E i \in Ids : Discover(i) \/ Lease(i) \/ Book(i, TRUE) \/ Book(i, FALSE) \/ Land(i)
    \/ WorkerFails
    \/ Refresh
    \/ \E i \in Ids, how \in {"reverted", "none"} : Lose(i, how)

\* The worker looks for lost items every cycle, takes every due item in the end and
\* now and then completes one: a read that fails is repeated.
Fairness == \A i \in Ids : /\ WF_vars(Discover(i))
                           /\ SF_vars(Lease(i))
                           /\ SF_vars(Book(i, TRUE))

Spec == Init /\ [][Next]_vars /\ Fairness

(* Properties *)

\* Every row is one the program writes.
TypeOK ==
    /\ \A i \in Ids :
         /\ intents[i].action \in Actions
         /\ intents[i].state \in UnresolvedStates \cup
                {"NONE", "PREVIEWED", "RECONCILED", "BURNED", "FAILED"}
         /\ intents[i].removed \in 0 .. InitialLiquidity
         /\ intents[i].hash \in BOOLEAN /\ intents[i].breach \in BOOLEAN
         /\ intents[i].receipt \in {"none", "success", "reverted"}
         /\ chain.tx[i] \in {"none", "pending", "success", "reverted"}
         /\ work[i] \in {"none", "due", "leased", "done"}
    /\ chain.liq \in 0 .. InitialLiquidity /\ chain.held \in BOOLEAN
    /\ mirror.liq \in 0 .. InitialLiquidity
    /\ mirror.status \in {"open", "partially_closed", "closed", "burned"}
    /\ ingested \subseteq Ids
    /\ canary \in {"NONE", "OPENED", "CLOSING", "CLOSED", "FAILED"}

\* An action that took effect on the chain is never given up: whatever threw, timed
\* out or died after the bytes left, its row is there, has the hash, and is neither
\* FAILED nor back where it could be signed again (the catch clause of
\* executeV4Lifecycle, failBeforeConfirmation, transitionV4LifecycleIntent).
LandedIsKept ==
    \A i \in Ids : chain.tx[i] = "success" =>
        /\ intents[i].hash
        /\ intents[i].state \in UnresolvedStates \cup {"RECONCILED", "BURNED"}
        /\ intents[i].state # "CLAIMED"

\* The basis a close consumes is what the closes before it left over: a removal that
\* landed earlier and was previewed earlier has been consumed before it
\* (consumeGenericV4Basis asks for predecessors by the creation of their rows).
CloseTakesTheRest ==
    \A n \in DOMAIN basis : \A i \in 1 .. basis[n] - 1 :
        Before(i, basis[n]) /\ intents[i].action \in {"partial_close", "full_close"}
            => \E m \in 1 .. n - 1 : basis[m] = i

\* A full close whose basis cannot be taken.
Stuck(i) ==
    intents[i].action = "full_close" /\ ~InBasis(i) /\ (Blocked(i) \/ OutOfOrder(i))

Outstanding(i) ==
    /\ intents[i].action \in {"collect", "full_close"}
    /\ Confirmed(i) /\ intents[i].state # "RECONCILED"

\* A collect or a full close with a successful receipt is booked in the end, if the
\* bot died before it handed it over, if the hand-over was lost and however often the
\* worker fails: again and again none is outstanding but those whose basis is out of
\* reach (discovery, the work items and reconcileConfirmedV4Lifecycle together).
ConfirmedIsBooked == []<>(\A i \in Ids : Outstanding(i) => Stuck(i))
=============================================================================
