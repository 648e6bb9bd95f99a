------------------------------ MODULE LadderClose ------------------------------
(***************************************************************************)
(* The end of a live BID ladder: the manual close and the claim of fees    *)
(* the bot signs (v4-bid-ladder-live.ts), the workers that read its        *)
(* positions from the chain (active-position-reconciliation.ts, the urgent *)
(* and the state-cache worker), the convergence both end in                *)
(* (v4-bid-ladder-terminal-convergence.ts) and the settlement of a ladder  *)
(* its owner emptied elsewhere (external-v4-mutation-reconciliation.ts).   *)
(*                                                                         *)
(* The bot answers one update at a time; the workers are other processes,  *)
(* and an action is what one of them does between two awaits.  A position  *)
(* is full or empty: nobody adds liquidity to it or takes part of it, and  *)
(* its owner keeps it.  Blocks are counted by the changes of the ladder's  *)
(* positions; of two observations with one count the program may also      *)
(* refuse the second, which leaves what the other order leaves.  FAILED is *)
(* a reverted transaction: DurableTransaction is about the other way to it.*)
(***************************************************************************)
EXTENDS Naturals, FiniteSets

CONSTANTS
    Legs,           \* the legs of the ladder, each with its token
    Readers,        \* the workers that read positions
    MaxAttempts,    \* bound on the attempts of the close batch
    MaxClaims,      \* bound on the claims of fees: none or one
    MaxFailures,    \* bound on failed reads and abandoned work
    Consumers,      \* the processes that deliver the card of a close to the chat
    NULL

ASSUME LegsAssumption ==
    /\ IsFiniteSet(Legs) /\ Legs # {}
    /\ Readers \subseteq {"urgent", "background"}
    /\ MaxAttempts \in Nat /\ MaxClaims \in 0..1 /\ MaxFailures \in Nat
    /\ NULL \notin Nat

Blocks == 0..Cardinality(Legs)

(* A position ends by the close batch or by a transaction of its owner.     *)
Fates == {"full", "batch", "owner"}
Verdicts == {"active", "empty", "unknown"}
Closings == {"FUNI_AUTHORED_CLOSE_BATCH", "EXTERNAL_ONCHAIN_MUTATION", "DIRECT"}
RowStatuses == {"NONE", "SENT", "CONFIRMED", "FAILED"}
Answers == {NULL} \cup UNION {[legs -> {"full", "empty", "error"}] : legs \in SUBSET Legs}
Outcomes == {"none", "pending", "success", "reverted"}
Valuations == {"NONE", "INCOMPLETE", "AVAILABLE"}

VARIABLES
    chain,          \* the positions on the chain
    block,          \* the changes of the chain so far
    truth,          \* active_position_reconciliations
    mirror,         \* positions and v4_positions: status open, liquidity_raw
    ladder,         \* OPEN, or terminal_provenance; the legs have its status
    close,          \* the CLOSE_BATCH row, its transaction and CLOSE event
    collect,        \* the COLLECT_BATCH row and its transaction
    claimed,        \* valuation_status of the CLAIM event, if it is there
    call,           \* what the bot's handler has read
    projection,     \* the liquidity a claim's projection has read
    readers,        \* reads of positions under way
    requests,       \* targeted_position_reconciliation_requests, urgent
    settlement,     \* v4_external_close_settlements
    failures,
    card            \* pnl_card_deliveries of the close (PnlCard)

ladderVars == <<chain, block, truth, mirror, ladder, close, collect, claimed, call, projection,
                readers, requests, settlement, failures>>
vars == <<ladderVars, card>>
chainVars == <<chain, block>>
rowVars == <<close, collect, claimed>>
botVars == <<call, projection>>
recordVars == <<truth, mirror, ladder>>
workVars == <<readers, requests, settlement, failures>>

Idle == [legs |-> {}, seen |-> NULL, label |-> NULL]
NoRow == [row |-> "NONE", outcome |-> "none"]
NoCall == [kind |-> "none", active |-> {}]
Closed == [open |-> FALSE, liquid |-> FALSE]

Card == INSTANCE PnlCard

Init ==
    /\ chain = [l \in Legs |-> "full"] /\ block = 0
    /\ truth = [l \in Legs |-> [verdict |-> "active", block |-> 0, fresh |-> TRUE]]
    /\ mirror = [l \in Legs |-> [open |-> TRUE, liquid |-> TRUE]]
    /\ ladder = "OPEN"
    /\ close = [row |-> "NONE", outcome |-> "none", target |-> {}, attempt |-> 0, booked |-> FALSE]
    /\ collect = NoRow /\ claimed = "NONE"
    /\ call = NoCall /\ projection = NULL
    /\ readers = [r \in Readers |-> Idle]
    /\ requests = Legs
    /\ settlement = "NONE" /\ failures = 0
    /\ Card!Init

TypeOK ==
    /\ chain \in [Legs -> Fates] /\ block \in Blocks
    /\ truth \in [Legs -> [verdict : Verdicts, block : Blocks, fresh : BOOLEAN]]
    /\ mirror \in [Legs -> [open : BOOLEAN, liquid : BOOLEAN]]
    /\ ladder \in {"OPEN"} \cup Closings
    /\ close \in [row : RowStatuses, outcome : Outcomes, target : SUBSET Legs,
                  attempt : 0..MaxAttempts, booked : BOOLEAN]
    /\ collect \in [row : RowStatuses, outcome : Outcomes] /\ claimed \in Valuations
    /\ call \in [kind : {"none", "close", "collect"}, active : SUBSET Legs]
    /\ projection \in [Legs -> BOOLEAN] \cup {NULL}
    /\ readers \in [Readers -> [legs : SUBSET Legs,
                                seen : Answers, label : Blocks \cup {NULL}]]
    /\ requests \in SUBSET Legs
    /\ settlement \in {"NONE", "INCOMPLETE", "PARTIAL"}
    /\ failures \in 0..MaxFailures
    /\ Card!TypeOK

-----------------------------------------------------------------------------
(* The chain, and what the journal learns of it.                            *)

Full == {l \in Legs : chain[l] = "full"}

(* The owner empties a position with another program.                       *)
Withdraw(l) ==
    /\ l \in Full
    /\ chain' = [chain EXCEPT ![l] = "owner"] /\ block' = block + 1
    /\ UNCHANGED <<recordVars, rowVars, botVars, workVars>>

(* The batch empties every leg it names, or reverts: because one of them is *)
(* empty, or because the price has left the minimums.                       *)
LandClose ==
    /\ close.outcome = "pending"
    /\ \/ /\ close.target \subseteq Full
          /\ close' = [close EXCEPT !.outcome = "success"]
          /\ chain' = [l \in Legs |-> IF l \in close.target THEN "batch" ELSE chain[l]]
          /\ block' = block + 1
       \/ /\ close' = [close EXCEPT !.outcome = "reverted"]
          /\ UNCHANGED chainVars
    /\ UNCHANGED <<recordVars, collect, claimed, botVars, workVars>>

(* An empty position has nothing to collect from, and reverts.              *)
LandCollect ==
    /\ collect.outcome = "pending"
    /\ \E outcome \in {"success", "reverted"} :
        /\ outcome = "success" => Full = Legs
        /\ collect' = [collect EXCEPT !.outcome = outcome]
    /\ UNCHANGED <<chainVars, recordVars, close, claimed, botVars, workVars>>

Settled(row) ==
    [row EXCEPT !.row = IF row.outcome = "success" THEN "CONFIRMED" ELSE "FAILED"]

(* The handler that waits, or the durable reconciliation of the journal.    *)
(* Attempts are only counted for their bound, and end with a CONFIRMED one. *)
ObserveClose ==
    /\ close.row = "SENT" /\ close.outcome \in {"success", "reverted"}
    /\ close' = [Settled(close) EXCEPT !.attempt = IF close.outcome = "success" THEN 0 ELSE @]
    /\ UNCHANGED <<chainVars, recordVars, collect, claimed, botVars, workVars>>

ObserveCollect ==
    /\ collect.row = "SENT" /\ collect.outcome \in {"success", "reverted"}
    /\ collect' = Settled(collect)
    /\ UNCHANGED <<chainVars, recordVars, close, claimed, botVars, workVars>>

-----------------------------------------------------------------------------
(* convergeTerminalV4BidLadder, inside the transaction of its caller.       *)

InProgress == "SENT" \in {close.row, collect.row}

Evidence(tr) == \A l \in Legs : tr[l].verdict = "empty" /\ tr[l].fresh

(* Evidence of one leg taken for the ladder's.                              *)
AnyEvidence(tr) ==
    ~InProgress /\ (close.row = "CONFIRMED" \/ \E l \in Legs : tr[l].verdict = "empty" /\ tr[l].fresh)

(* The transaction that is under way is not asked about.                    *)
Unguarded(tr) == close.row = "CONFIRMED" \/ Evidence(tr)

(* A CLOSE_BATCH confirmed with success, or every leg seen empty.           *)
Converges(tr) == ~InProgress /\ (close.row = "CONFIRMED" \/ Evidence(tr))

Emptied(tr) == [l \in Legs |-> [tr[l] EXCEPT !.verdict = "empty"]]

Provenance ==
    IF close.row = "CONFIRMED" THEN "FUNI_AUTHORED_CLOSE_BATCH" ELSE "EXTERNAL_ONCHAIN_MUTATION"

CloseMirrors == mirror' = [l \in Legs |-> Closed]

(* Given what the caller has written of the truth and the mirrors; what it  *)
(* throws is caught, and the caller's writes stay.                          *)
Converge(tr, mi) ==
    IF Converges(tr)
    THEN /\ CloseMirrors
         /\ truth' = IF close.row = "CONFIRMED" THEN Emptied(tr) ELSE tr
         /\ ladder' = IF ladder = "OPEN" THEN Provenance ELSE ladder
    ELSE truth' = tr /\ mirror' = mi /\ UNCHANGED ladder

-----------------------------------------------------------------------------
(* Readers of positions.                                                    *)

(* classification TERMINAL of activePositionTruth: the verdict, or the      *)
(* status of a position whose verdict a failed read has erased.             *)
IsTerminal(l) == truth[l].verdict = "empty" \/ (truth[l].verdict = "unknown" /\ ~mirror[l].open)

Due == {l \in Legs : ~IsTerminal(l) /\ ~truth[l].fresh}

(* A terminal leg is never read again.                                      *)
DueLegs == Due

(* reconcileActivePositions without positionIds: every leg of an open       *)
(* ladder that has a terminal one, or else what selectActivePositionRefresh *)
(* finds due.                                                               *)
BackgroundLegs ==
    IF ladder = "OPEN" /\ \E l \in Legs : IsTerminal(l) THEN Legs ELSE Due

Begin(r, legs) ==
    /\ r \in Readers /\ readers[r] = Idle /\ legs # {}
    /\ readers' = [readers EXCEPT ![r] = [Idle EXCEPT !.legs = legs]]
    /\ UNCHANGED <<chainVars, recordVars, rowVars, botVars, requests, settlement, failures>>

BeginBackground == Begin("background", BackgroundLegs)

(* A lease of the requests that are available; they stay in the queue.      *)
BeginUrgent == \E legs \in SUBSET requests : Begin("urgent", legs)

(* getBlockNumber and the multicall go out together and are answered one    *)
(* after the other, in either order.                                        *)
AnswerBlock(r) ==
    /\ readers[r].legs # {} /\ readers[r].label = NULL
    /\ readers' = [readers EXCEPT ![r].label = block]
    /\ UNCHANGED <<chainVars, recordVars, rowVars, botVars, requests, settlement, failures>>

AnswerData(r) ==
    /\ readers[r].legs # {} /\ readers[r].seen = NULL
    /\ \E failing \in SUBSET readers[r].legs :
        /\ failing # {} => failures < MaxFailures
        /\ failures' = IF failing = {} THEN failures ELSE failures + 1
        /\ readers' = [readers EXCEPT ![r].seen = [l \in readers[r].legs |->
                           IF l \in failing THEN "error"
                           ELSE IF l \in Full THEN "full" ELSE "empty"]]
    /\ UNCHANGED <<chainVars, recordVars, rowVars, botVars, requests, settlement>>

(* A failed read written down as the verdict.                               *)
AnyVerdict(l, seen, label) == [verdict |-> seen, block |-> label, fresh |-> TRUE]

(* An observation from an older block than the one that is known.           *)
Older(l, label) == truth[l].block > label

(* persist, of one leg: an older block is refused; a failed read of an      *)
(* active position only ends its freshness, of another one it erases the    *)
(* verdict.                                                                 *)
Verdict(l, seen, label) ==
    IF Older(l, label) THEN truth[l]
    ELSE CASE seen = "full" -> [verdict |-> "active", block |-> label, fresh |-> TRUE]
           [] seen = "empty" -> [verdict |-> "empty", block |-> label, fresh |-> TRUE]
           [] seen = "error" /\ truth[l].verdict = "active" -> [truth[l] EXCEPT !.fresh = FALSE]
           [] seen = "error" /\ truth[l].verdict # "active" ->
                  [verdict |-> "unknown", block |-> label, fresh |-> FALSE]

Mirrored(l, seen, label) ==
    IF Older(l, label) \/ seen = "error" THEN mirror[l]
    ELSE [open |-> seen = "full", liquid |-> seen = "full"]

(* completeTargetedPositionReconciliation: the request goes, whatever was   *)
(* added to it since it was leased; an active leg of an open ladder gets    *)
(* the next one.  A leg that could not be read keeps its request.           *)
Completed(legs, seen) ==
    (requests \ legs) \cup {l \in legs :
        seen[l] = "error" \/ (truth'[l].verdict = "active" /\ mirror'[l].open /\ ladder' = "OPEN")}

Persist(r) ==
    LET legs == readers[r].legs
        seen == readers[r].seen
        label == readers[r].label
    IN  /\ legs # {} /\ seen # NULL /\ label # NULL
        /\ Converge([l \in Legs |-> IF l \in legs THEN Verdict(l, seen[l], label) ELSE truth[l]],
                    [l \in Legs |-> IF l \in legs THEN Mirrored(l, seen[l], label) ELSE mirror[l]])
        /\ readers' = [readers EXCEPT ![r] = Idle]
        /\ requests' = IF r = "urgent" THEN Completed(legs, seen) ELSE requests
        /\ UNCHANGED <<chainVars, rowVars, botVars, settlement, failures>>

(* The provider or the lease of the writer is refused, or the process ends: *)
(* nothing is written and the requests are leased again.                    *)
Drop(r) ==
    /\ readers[r] # Idle /\ failures < MaxFailures
    /\ readers' = [readers EXCEPT ![r] = Idle] /\ failures' = failures + 1
    /\ UNCHANGED <<chainVars, recordVars, rowVars, botVars, requests, settlement>>

(* The time to live of what was read passes.                                *)
Expire(l) ==
    /\ truth[l].fresh
    /\ truth' = [truth EXCEPT ![l].fresh = FALSE]
    /\ UNCHANGED <<chainVars, mirror, ladder, rowVars, botVars, workVars>>

-----------------------------------------------------------------------------
(* The manual close.                                                        *)

(* executeV4BidLadderManualClose up to the end of closeState: of a row that *)
(* is SENT it awaits the receipt, of a CONFIRMED one it only projects.      *)
BeginClose ==
    /\ call = NoCall
    /\ close.row \in {"NONE", "FAILED"} /\ close.attempt < MaxAttempts
    /\ ladder = "OPEN"
    /\ call' = [kind |-> "close", active |-> Full]
    /\ UNCHANGED <<chainVars, recordVars, rowVars, projection, workVars>>

(* submit binds the row of a next attempt to the legs that were read.       *)
SubmitClose ==
    /\ call.kind = "close" /\ call.active # {}
    /\ close' = [close EXCEPT !.row = "SENT", !.outcome = "pending", !.target = call.active,
                              !.attempt = @ + 1]
    /\ call' = NoCall
    /\ UNCHANGED <<chainVars, recordVars, collect, claimed, projection, workVars>>

(* closeCanonicalMirrors alone: there was nothing to close.                 *)
CloseDirectly ==
    /\ call.kind = "close" /\ call.active = {}
    /\ CloseMirrors
    /\ ladder' = IF ladder = "OPEN" THEN "DIRECT" ELSE ladder
    /\ call' = NoCall
    /\ UNCHANGED <<chainVars, truth, rowVars, projection, workVars>>

(* A refused estimate or gas cap, a cancelled wait, a restart of the bot.   *)
CallEnds ==
    /\ call # NoCall
    /\ call' = NoCall
    /\ UNCHANGED <<chainVars, recordVars, rowVars, projection, workVars>>

(* closeExpectedFromJournal: the legs the transaction names.                *)
Expected == close.target

(* assertCanonicalClosePostcondition: after it, the ladder is CLOSED by this *)
(* batch and by nothing else, and so are its legs and mirrors; otherwise    *)
(* nothing is written.                                                      *)
ClosePostcondition == ladder \in {"OPEN", "FUNI_AUTHORED_CLOSE_BATCH"}

(* enqueueTargetedPositionReconciliation                                    *)
Requested(legs) == requests \cup legs

(* The event and the card to tell it are one transaction, if the process    *)
(* knows the chat.                                                          *)
CardOf == IF Consumers = {} THEN {card} ELSE {card, Card!Ensured}

(* reconcileClose, by the handler or by the worker: convergence, the CLOSE  *)
(* event if it is not there, and a targeted read of every leg that was      *)
(* closed.                                                                  *)
ProjectClose ==
    /\ close.row = "CONFIRMED" /\ ~InProgress
    /\ ClosePostcondition
    /\ Converge(truth, mirror)
    /\ close' = [close EXCEPT !.booked = TRUE] /\ card' \in CardOf
    /\ requests' = Requested(Expected)
    /\ UNCHANGED <<chainVars, collect, claimed, botVars, readers, settlement, failures>>

(* The reconcile command makes the card of an event that has none.          *)
EnsureMissing ==
    /\ close.booked /\ Consumers # {} /\ card.status = "NONE"
    /\ card' = Card!Ensured
    /\ UNCHANGED <<chainVars, recordVars, rowVars, botVars, workVars>>

DeliverCard == Card!Deliver /\ UNCHANGED <<chainVars, recordVars, rowVars, botVars, workVars>>

(* Nobody but the operator, who presses the button again, projects the      *)
(* close of a ladder another convergence has closed.                        *)
WorkerProjectsClose == ladder = "OPEN" /\ ProjectClose

-----------------------------------------------------------------------------
(* The claim of fees.                                                       *)

(* collectState: nothing of the ladder is under way, and each mirror has    *)
(* the liquidity of its position.                                           *)
BeginCollect ==
    /\ call = NoCall
    /\ collect = NoRow /\ MaxClaims > 0
    /\ ladder = "OPEN" /\ ~InProgress
    /\ \A l \in Legs : mirror[l].liquid = (l \in Full)
    /\ call' = [kind |-> "collect", active |-> {}]
    /\ UNCHANGED <<chainVars, recordVars, rowVars, projection, workVars>>

SubmitCollect ==
    /\ call.kind = "collect"
    /\ collect' = [row |-> "SENT", outcome |-> "pending"]
    /\ call' = NoCall
    /\ UNCHANGED <<chainVars, recordVars, close, claimed, projection, workVars>>

(* collectExpectedFromJournal takes the liquidity of the mirrors before the *)
(* projection awaits the block and the valuation of the receipt.  A claim   *)
(* that was not valued is projected again.                                  *)
BeginProjection ==
    /\ collect.row = "CONFIRMED" /\ claimed # "AVAILABLE" /\ projection = NULL
    /\ projection' = [l \in Legs |-> mirror[l].liquid]
    /\ UNCHANGED <<chainVars, recordVars, rowVars, call, workVars>>

(* captureCollectValuation: the pool at the receipt's block, which an       *)
(* archival read gives or does not.                                         *)
Captured == {"INCOMPLETE", "AVAILABLE"}

(* appendRealizedPnlEvent: the event is there once; a claim that was not    *)
(* valued may become valued, and nothing else of it changes.                *)
Appended(valuation) == IF claimed = "AVAILABLE" THEN claimed ELSE valuation

(* reconcileCollect writes that liquidity back, with the claim.             *)
ProjectCollect ==
    /\ projection # NULL
    /\ mirror' = [l \in Legs |-> [mirror[l] EXCEPT !.liquid = projection[l]]]
    /\ \E valuation \in Captured : claimed' = Appended(valuation)
    /\ projection' = NULL
    /\ UNCHANGED <<chainVars, truth, ladder, close, collect, call, workVars>>

AbandonProjection ==
    /\ projection # NULL /\ failures < MaxFailures
    /\ projection' = NULL /\ failures' = failures + 1
    /\ UNCHANGED <<chainVars, recordVars, rowVars, call, readers, requests, settlement>>

-----------------------------------------------------------------------------
(* The settlement of a ladder that was closed elsewhere.                    *)

(* externalV4MutationCandidates: a settlement of any completeness is the    *)
(* last one.                                                                *)
IsCandidate == ladder = "EXTERNAL_ONCHAIN_MUTATION" /\ settlement = "NONE"

(* collectExternalV4MutationEvidence: of the legs known to be empty, those  *)
(* whose logs are found and have a transaction it can decode.               *)
Decodable == {l \in Legs : truth[l].verdict = "empty" /\ chain[l] = "owner"}

(* The swaps that followed are never attributed by the cycle, so that no    *)
(* settlement is FULL.                                                      *)
Completeness(found) == IF found = Legs THEN "PARTIAL" ELSE "INCOMPLETE"

(* persistExternalV4MutationEvidence                                        *)
Settle ==
    /\ IsCandidate /\ close.row # "CONFIRMED"
    /\ \E found \in SUBSET Decodable :
        /\ settlement' = Completeness(found)
        /\ IF found = Legs THEN CloseMirrors ELSE UNCHANGED mirror
    /\ UNCHANGED <<chainVars, truth, ladder, rowVars, botVars, readers, requests, failures>>

-----------------------------------------------------------------------------
Read(r) == AnswerBlock(r) \/ AnswerData(r) \/ Persist(r) \/ Drop(r)

LadderStep ==
    \/ \E l \in Legs : Expire(l) \/ Withdraw(l)
    \/ LandClose \/ LandCollect \/ ObserveClose \/ ObserveCollect
    \/ BeginBackground \/ BeginUrgent
    \/ \E r \in Readers : Read(r)
    \/ BeginClose \/ SubmitClose \/ CloseDirectly \/ CallEnds
    \/ BeginCollect \/ SubmitCollect \/ BeginProjection \/ ProjectCollect \/ AbandonProjection
    \/ Settle

Next ==
    \/ LadderStep /\ UNCHANGED card
    \/ ProjectClose \/ EnsureMissing \/ DeliverCard

(* A transaction that was sent is mined, the workers run and time passes.   *)
(* Nothing makes the operator do anything, and the urgent worker, the       *)
(* claim's projection and the settlement owe nothing here.                  *)
Fairness ==
    /\ WF_ladderVars(LandClose) /\ WF_ladderVars(LandCollect)
    /\ WF_ladderVars(ObserveClose) /\ WF_ladderVars(ObserveCollect)
    /\ WF_ladderVars(WorkerProjectsClose)
    /\ \A l \in Legs : WF_ladderVars(Expire(l))
    /\ WF_ladderVars(BeginBackground)
    /\ \A r \in Readers \ {"urgent"} :
        WF_ladderVars(AnswerBlock(r)) /\ WF_ladderVars(AnswerData(r)) /\ WF_ladderVars(Persist(r))

Spec == Init /\ [][Next]_vars /\ Fairness

-----------------------------------------------------------------------------
(* A ladder is CLOSED only when none of its positions has liquidity left,   *)
(* whichever of the four ways closed it and whatever the readers saw when:  *)
(* an unclosed position of a CLOSED ladder has no button left in the bot.   *)
ClosedIsEmpty == ladder # "OPEN" => Full = {}

(* What a ladder earned is accounted in one way: a close batch that went    *)
(* through is the reason its ladder is closed, and such a ladder is never   *)
(* settled as emptied elsewhere; a CLOSE event has such a batch behind it.  *)
OneAccount ==
    /\ close.outcome = "success" =>
        ladder \in {"OPEN", "FUNI_AUTHORED_CLOSE_BATCH"} /\ settlement = "NONE"
    /\ ladder = "FUNI_AUTHORED_CLOSE_BATCH" => close.outcome = "success"
    /\ close.booked => ladder = "FUNI_AUTHORED_CLOSE_BATCH"

(* The chat is told of a close only once it is booked, and never twice      *)
(* however the consumers die and take over from each other: a card that is  *)
(* still to be sent was not shown, one DELIVERED was, and what began and    *)
(* did not finish is never begun again.                                     *)
CardOnce ==
    /\ card.shown <= 1 /\ (card.status # "NONE" => close.booked)
    /\ card.status \in {"PENDING", "FAILED"} => card.shown = 0
    /\ card.status = "DELIVERED" => card.shown = 1

(* A ladder with nothing left on the chain is found out, however it ended   *)
(* and whatever became of the close that was under way meanwhile: it is     *)
(* CLOSED, and none of its positions is open in the bot any more.           *)
EmptiedIsClosed == (Full = {}) ~> (ladder # "OPEN" /\ \A l \in Legs : ~mirror[l].open)
=============================================================================
