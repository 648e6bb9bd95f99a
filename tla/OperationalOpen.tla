---------------------------- MODULE OperationalOpen ----------------------------
(***************************************************************************)
(* The operational open of one V4 position: executeV4OperationalOpen       *)
(* (v4-operational-executor.ts) carries an intent through two approvals    *)
(* and a mint.  It does not use the transaction journal: the hash of each  *)
(* phase is kept in a column of v4_live_open_intents, and the state column *)
(* is overwritten by every transition.                                     *)
(*                                                                         *)
(* One call at most runs for an intent (activeOperationalIntents, a set in *)
(* the memory of the bot), so a call is named by its intent.  A crash of   *)
(* the bot ends all calls.  The reconcile worker is another process.       *)
(* Allowances are read from the chain, where the bid-ladder lane and the   *)
(* user change them too: what a read returns is left open.  So is whether  *)
(* the nonce mutex is had, which excludes nobody for sure (see             *)
(* DurableTransaction): another signer is a foreign transaction here.      *)
(***************************************************************************)
EXTENDS WalletChain

CONSTANTS
    Intents,             \* the intents of one preview: the first has its
    First,               \* idempotency key, the others that key with :retry:
    TerminalReason,      \* failure reason terminalizeV4LiveOpenNoBroadcast asks
                         \* for: the code asks for V4_TX_GAS_CAP_EXCEEDED where
                         \* enforceGas has written that with a stage after it
    MintLabel,           \* phase under which submit journals the mint: the
                         \* code says "MINT", what is read is "V4_MINT"
    AlternateProvider    \* TRUE: alternateWalletClients are given

ASSUME LabelsAssumption ==
    MintLabel \in {"MINT", "V4_MINT"} /\ AlternateProvider \in BOOLEAN

Phases == {"ERC20", "PERMIT2", "MINT"}

ASSUME FirstAssumption == First \in Intents

ASSUME StagesAssumption == Stages = Intents \X Phases

(* A state NAME_STEP is the pair of phase NAME and step STEP.              *)
Steps == {"ABSENT", "PREVIEWED", "CLAIMED", "PREPARED", "SUBMITTED", "CONFIRMED", "BROADCAST_AMBIGUOUS",
          "IDENTICAL_RESEND_PREPARED", "NON_BROADCAST_TERMINAL", "RANGE_REFRESHED",
          "POSITION_RECONCILED", "FAILED", "FAILED_RETRYABLE"}

Reasons == {"NONE", "OTHER", "GAS_CAP", "ABSENT_NONCE_AVAILABLE", "ABSENT_AFTER_RESEND"}

Intent == [step : Steps, phase : Phases \cup {NULL}, reason : Reasons,
           hash : [Phases -> Hashes \cup {NULL}]]

Labels == {"idle", "preflight", "claim", "erc20", "permit2", "mint", "acquire", "sign", "broadcast",
           "sent", "resend", "probe", "count", "classify", "receipt", "project"}

Seen == {"NONE", "RECEIPT", "PENDING", "AVAILABLE", "CONSUMED", "INCONCLUSIVE"}

(* The locals of a call: the phase at work, its hash, where to go when its *)
(* receipt is a success, and which sending it is.                          *)
Calls == [phase : Phases \cup {NULL}, hash : Hashes \cup {NULL}, then : Labels,
          sending : {"NONE", "FIRST", "BEFORE_RESEND", "RESENT"}, seen : Seen]

VARIABLES
    row,        \* v4_live_open_intents
    gas,        \* intents with a row of v4_live_gas
    audit,      \* intents with a FAILED_NO_BROADCAST_TERMINALIZED transition
    receipts,   \* v4_operational_open_receipts of mints: hash and label
    pc, call,   \* the running calls of executeV4OperationalOpen
    projected,  \* intents with a position and a deposit in the ledger
    work,       \* economic_reconciliation_work of kind V4_OPERATIONAL_OPEN
    worker      \* the worker's item and step

openVars == <<row, gas, audit, receipts, pc, call, projected, work, worker>>
vars == <<openVars, chainVars>>

NoCall == [phase |-> NULL, hash |-> NULL, then |-> "idle", sending |-> "NONE", seen |-> "NONE"]
NoItem == [intent |-> NULL, step |-> "idle"]

TypeOK ==
    /\ ChainTypeOK
    /\ row \in [Intents -> Intent]
    /\ gas \subseteq Intents
    /\ audit \subseteq Intents
    /\ receipts \subseteq [hash : Hashes, label : {"MINT", "V4_MINT"}]
    /\ pc \in [Intents -> Labels]
    /\ call \in [Intents -> Calls]
    /\ projected \subseteq Intents
    /\ work \in [Intents -> {"NONE", "PENDING", "COMPLETED"}]
    /\ worker \in [intent : Intents \cup {NULL}, step : {"idle", "project", "reconcile", "complete"}]

Init ==
    /\ ChainInit
    /\ row = [i \in Intents |-> [step |-> "ABSENT", phase |-> NULL, reason |-> "NONE",
                                 hash |-> [f \in Phases |-> NULL]]]
    /\ gas = {} /\ audit = {} /\ receipts = {} /\ projected = {}
    /\ pc = [i \in Intents |-> "idle"]
    /\ call = [i \in Intents |-> NoCall]
    /\ work = [i \in Intents |-> "NONE"]
    /\ worker = NoItem
-----------------------------------------------------------------------------
MintHash(i) == row[i].hash["MINT"]
Retryable(i) == row[i].reason \in {"ABSENT_NONCE_AVAILABLE", "ABSENT_AFTER_RESEND"}
InState(i, phase, step) == row[i].step = step /\ row[i].phase = phase

(* operationalReceipt, and the same lookup in the catch clause.            *)
BackedBy(i, stored) == [hash |-> MintHash(i), label |-> "V4_MINT"] \in stored
ReceiptBacked(i) == BackedBy(i, receipts)

Goto(i, label) == pc' = [pc EXCEPT ![i] = label]
Continue(i, label) == Goto(i, label) /\ UNCHANGED call
Return(i) == Goto(i, "idle") /\ call' = [call EXCEPT ![i] = NoCall]
Begin(i, phase, hash, label, then) ==
    /\ Goto(i, label)
    /\ call' = [call EXCEPT ![i] = [NoCall EXCEPT !.phase = phase, !.hash = hash, !.then = then]]

(* Fault: phase and step change places.                                    *)
MovedSwapped(i, phase, step) == [row EXCEPT ![i].phase = step, ![i].step = phase]

(* transitionV4LiveOpenIntent: unconditional; a hash or reason that is not *)
(* given stays as it was.                                                  *)
Moved(i, phase, step) == [row EXCEPT ![i].phase = phase, ![i].step = step]
Failed(i, reason) == [row EXCEPT ![i].step = "FAILED", ![i].phase = NULL, ![i].reason = reason]

(* The catch clause: a state that may stand for a transaction on its way   *)
(* is kept, and so is one whose mint has its receipt.                      *)
MayBeOnItsWay(i) ==
    row[i].step \in {"PREPARED", "IDENTICAL_RESEND_PREPARED", "SUBMITTED", "BROADCAST_AMBIGUOUS"}

Caught(i, stored, reason) ==
    /\ Return(i)
    /\ row' = IF BackedBy(i, stored) \/ MayBeOnItsWay(i) THEN row ELSE Failed(i, reason)

Throw(i) == Caught(i, receipts, "OTHER")

(* enforceGas, asked before a phase is submitted, refuses.                 *)
GasCapExceeded(i) ==
    /\ pc[i] = "acquire"
    /\ Caught(i, receipts, "GAS_CAP")

(* The provider, the signer, a gas cap, the price guard, the mutex, a      *)
(* notification or the database fails; the database may fail the catch     *)
(* clause as well.                                                         *)
Fails(i) ==
    /\ pc[i] \notin {"idle", "probe", "count"}
    /\ pc[i] \in {"broadcast", "sent"} => call[i].sending = "FIRST"
    /\ Throw(i) \/ GasCapExceeded(i) \/ (Return(i) /\ UNCHANGED row)
    /\ UNCHANGED <<gas, audit, receipts, projected, work, worker, chainVars>>
-----------------------------------------------------------------------------
(* Preview and admission                                                   *)

Closed == {"PREVIEWED", "POSITION_RECONCILED", "FAILED", "FAILED_RETRYABLE"}

(* V4_PENDING_INTENT; the other gates are only able to refuse.             *)
Gate(i) == \A j \in Intents \ {i} : row[j].step \in Closed \cup {"ABSENT"}

(* Previewing again shows the intent there is, or makes another one, when  *)
(* the one of the first key failed, whatever became of the others.         *)
FreshAllowed(i) == i # First => row[First].step \in {"FAILED", "FAILED_RETRYABLE"}

Created(i) == Moved(i, NULL, "PREVIEWED")

Preview(i) ==
    /\ row[i].step = "ABSENT"
    /\ Gate(i) /\ FreshAllowed(i)
    /\ row' = Created(i)
    /\ UNCHANGED <<gas, audit, receipts, pc, call, projected, work, worker, chainVars>>

Executable(i) ==
    /\ row[i].step \notin {"ABSENT", "POSITION_RECONCILED", "FAILED_RETRYABLE"}
    /\ row[i].step = "FAILED" => Retryable(i)

Confirm(i) ==
    /\ pc[i] = "idle"
    /\ Executable(i)
    /\ Continue(i, "preflight")
    /\ UNCHANGED <<row, gas, audit, receipts, projected, work, worker, chainVars>>

(* The gate is read here; the claim follows after more awaits.             *)
Preflight(i) ==
    /\ pc[i] = "preflight"
    /\ \/ Return(i)                                 \* EXECUTION_BLOCKED
       \/ Gate(i) /\ Continue(i, "claim")
    /\ UNCHANGED <<row, gas, audit, receipts, projected, work, worker, chainVars>>

Claim(i) ==
    /\ pc[i] = "claim"
    /\ row' = IF row[i].step = "PREVIEWED" THEN Moved(i, NULL, "CLAIMED") ELSE row
    /\ Continue(i, "erc20")
    /\ UNCHANGED <<gas, audit, receipts, projected, work, worker, chainVars>>
-----------------------------------------------------------------------------
(* The three phases: what each finds, and what it does about it            *)

ApproveErc20(i) ==
    LET hash == row[i].hash["ERC20"] IN
    /\ pc[i] = "erc20"
    /\ IF hash # NULL /\ InState(i, "ERC20", "SUBMITTED")
       THEN Begin(i, "ERC20", hash, "receipt", "erc20")
       ELSE \/ Continue(i, "permit2")                       \* the allowance is exact
            \/ IF hash # NULL /\ Retryable(i)
               THEN Begin(i, "ERC20", hash, "resend", "permit2")
               ELSE Begin(i, "ERC20", NULL, "acquire", "permit2")
    /\ UNCHANGED <<row, gas, audit, receipts, projected, work, worker, chainVars>>

(* An allowance that suffices although the approval was given up: the      *)
(* approval is declared never broadcast, if the wallet has nothing pending.*)
DeclareNotBroadcast(i) ==
    LET hash == row[i].hash["PERMIT2"] IN
    IF ~Landed(hash) /\ hash \notin pool /\ IsPendingNonce(latest)
       /\ row[i].reason = "ABSENT_AFTER_RESEND"
    THEN /\ row' = [Moved(i, "PERMIT2", "NON_BROADCAST_TERMINAL") EXCEPT ![i].reason = "NONE"]
         /\ Continue(i, "mint")
    ELSE Throw(i)

(* A recovered approval is followed by a fresh one: permitRequired is not  *)
(* read again.                                                             *)
ApprovePermit2(i) ==
    LET hash == row[i].hash["PERMIT2"]
        recoverable == hash # NULL /\ Retryable(i)
    IN
    /\ pc[i] = "permit2"
    /\ \/ recoverable /\ DeclareNotBroadcast(i)
       \/ ~recoverable /\ Continue(i, "mint") /\ UNCHANGED row
       \/ /\ UNCHANGED row
          /\ IF recoverable THEN Begin(i, "PERMIT2", hash, "resend", "acquire")
             ELSE IF hash # NULL /\ InState(i, "PERMIT2", "SUBMITTED")
                  THEN Begin(i, "PERMIT2", hash, "receipt", "acquire")
                  ELSE Begin(i, "PERMIT2", NULL, "acquire", "mint")
    /\ UNCHANGED <<gas, audit, receipts, projected, work, worker, chainVars>>

(* Fault: the state tells whether a mint is on its way, not the hash.      *)
MintByState(i) ==
    /\ pc[i] = "mint"
    /\ row' = Moved(i, NULL, "RANGE_REFRESHED")
    /\ IF ~InState(i, "MINT", "SUBMITTED") THEN Begin(i, "MINT", NULL, "acquire", "project")
       ELSE Begin(i, "MINT", MintHash(i), IF Retryable(i) THEN "resend" ELSE "receipt", "project")
    /\ UNCHANGED <<gas, audit, receipts, projected, work, worker, chainVars>>

Mint(i) ==
    /\ pc[i] = "mint"
    /\ row' = Moved(i, NULL, "RANGE_REFRESHED")
    /\ IF MintHash(i) = NULL THEN Begin(i, "MINT", NULL, "acquire", "project")
       ELSE Begin(i, "MINT", MintHash(i), IF Retryable(i) THEN "resend" ELSE "receipt", "project")
    /\ UNCHANGED <<gas, audit, receipts, projected, work, worker, chainVars>>
-----------------------------------------------------------------------------
(* submit and resendPersisted                                              *)

(* What follows a recovered approval is the fresh one, and then the mint.  *)
AcquireNonce(i) ==
    /\ pc[i] = "acquire"
    /\ call' = [call EXCEPT ![i].sending = "FIRST",
                            ![i].then = IF @ = "acquire" THEN "mint" ELSE @]
    /\ Goto(i, "sign")
    /\ UNCHANGED <<row, gas, audit, receipts, projected, work, worker, chainVars>>

(* The PREPARED transition stores the hash before the bytes are sent.      *)
Estimated(i) == gas \cup {i}                       \* stays, whatever follows

SignAndPrepare(i) ==
    LET f == call[i].phase IN
    /\ pc[i] = "sign"
    /\ gas' = Estimated(i)
    /\ \/ \E n \in Nonces, v \in Variants :
             LET h == [stage |-> <<i, f>>, nonce |-> n, variant |-> v] IN
             /\ IsPendingNonce(n)
             /\ row' = [Moved(i, f, "PREPARED") EXCEPT ![i].hash[f] = h]
             /\ call' = [call EXCEPT ![i].hash = h]
             /\ Goto(i, "broadcast")
       \/ Throw(i)                                  \* only the gas row is written
    /\ UNCHANGED <<audit, receipts, projected, work, worker, chainVars>>

Broadcast(i) ==
    LET h == call[i].hash IN
    /\ pc[i] = "broadcast"
    /\ \/ SendAccepted(h) /\ Continue(i, "sent")
       \/ SendErrored(h) /\ Goto(i, "probe")
          /\ call' = [call EXCEPT ![i].sending = IF @ = "FIRST" THEN @ ELSE "RESENT"]
    /\ UNCHANGED <<row, gas, audit, receipts, projected, work, worker>>

RecordSent(i) ==
    /\ pc[i] = "sent"
    /\ row' = Moved(i, call[i].phase, "SUBMITTED")
    /\ \/ Continue(i, "receipt")
       \/ /\ call[i].sending # "FIRST"                      \* the notification fails
          /\ Goto(i, "probe") /\ call' = [call EXCEPT ![i].sending = "RESENT"]
    /\ UNCHANGED <<gas, audit, receipts, projected, work, worker, chainVars>>

(* resendPersisted needs a second provider and the request stored with the *)
(* PREPARED transition of its phase, which for the mint it calls V4_MINT.  *)
(* Of a phase signed twice the first request is the stored one, and the    *)
(* hash does not match: an end that Fails has too.                         *)
ResendPersisted(i) ==
    /\ pc[i] = "resend"
    /\ AlternateProvider
    /\ call[i].phase = "MINT" => MintLabel = "V4_MINT"
    /\ call' = [call EXCEPT ![i].sending = "BEFORE_RESEND"]
    /\ Goto(i, "probe")
    /\ UNCHANGED <<row, gas, audit, receipts, projected, work, worker, chainVars>>
-----------------------------------------------------------------------------
(* exactHashEvidence: the hash first, the nonces by later calls            *)

See(i, seen) == call' = [call EXCEPT ![i].seen = seen] /\ Goto(i, "classify")

Probe(i) ==
    LET h == call[i].hash IN
    /\ pc[i] = "probe"
    /\ \/ Landed(h) /\ See(i, "RECEIPT")
       \/ h \in pool /\ See(i, "PENDING")
       \/ ~Landed(h) /\ h \notin pool /\ Continue(i, "count")
       \/ See(i, "INCONCLUSIVE")
    /\ UNCHANGED <<row, gas, audit, receipts, projected, work, worker, chainVars>>

CountNonces(i) ==
    LET n == call[i].hash.nonce IN
    /\ pc[i] = "count"
    /\ See(i, IF n = latest /\ IsPendingNonce(n) THEN "AVAILABLE" ELSE "CONSUMED")
    /\ UNCHANGED <<row, gas, audit, receipts, projected, work, worker, chainVars>>

Pending(i) == row' = Moved(i, call[i].phase, "SUBMITTED") /\ Continue(i, "receipt")
GiveUp(i, reason) == row' = Failed(i, reason) /\ Return(i)

(* Before a resend nothing is given up, and a hash that is really absent   *)
(* is sent again; after a send an absent hash fails the intent.            *)
ClassifyBeforeResend(i) ==
    /\ call[i].sending = "BEFORE_RESEND"
    /\ IF call[i].seen = "AVAILABLE"
       THEN /\ row' = [Moved(i, call[i].phase, "IDENTICAL_RESEND_PREPARED") EXCEPT ![i].reason = "NONE"]
            /\ Continue(i, "broadcast")
       ELSE call[i].seen \in {"CONSUMED", "INCONCLUSIVE"} /\ Throw(i)

ClassifyAfterSend(i) ==
    /\ call[i].sending # "BEFORE_RESEND"
    /\ \/ call[i].seen = "INCONCLUSIVE"
          /\ row' = [Moved(i, call[i].phase, "BROADCAST_AMBIGUOUS") EXCEPT ![i].reason = "OTHER"]
          /\ Return(i)
       \/ call[i].seen = "CONSUMED" /\ GiveUp(i, "OTHER")
       \/ call[i].seen = "AVAILABLE"
          /\ IF call[i].sending = "FIRST" THEN GiveUp(i, "ABSENT_NONCE_AVAILABLE")
             ELSE \/ GiveUp(i, "ABSENT_AFTER_RESEND")
                  \/ /\ row' = Moved(i, call[i].phase, "IDENTICAL_RESEND_PREPARED")
                     /\ Continue(i, "broadcast")    \* the next provider

Classify(i) ==
    /\ pc[i] = "classify"
    /\ \/ call[i].seen = "RECEIPT" /\ Continue(i, "receipt") /\ UNCHANGED row
       \/ call[i].seen = "PENDING" /\ Pending(i)
       \/ ClassifyBeforeResend(i)
       \/ ClassifyAfterSend(i)
    /\ UNCHANGED <<gas, audit, receipts, projected, work, worker, chainVars>>
-----------------------------------------------------------------------------
(* reconcile: the receipt, stored under the phase it is called with        *)

MintReceipt(i) ==
    LET label == IF call[i].sending = "FIRST" THEN MintLabel ELSE "V4_MINT" IN
    IF call[i].phase # "MINT" \/ \E r \in receipts : r.hash = call[i].hash THEN {}
    ELSE {[hash |-> call[i].hash, label |-> label]}

(* INSERT OR IGNORE: the first label stays.  A revert is thrown once its   *)
(* receipt is stored.                                                      *)
Receipt(i) ==
    LET f == call[i].phase
        h == call[i].hash
        moved == IF f = "MINT" THEN row ELSE Moved(i, f, "CONFIRMED")
    IN
    /\ pc[i] = "receipt"
    /\ receipts' = receipts \cup MintReceipt(i)
    /\ \/ h \in executed /\ row' = moved /\ Continue(i, call[i].then)
       \/ h \in reverted /\ Caught(i, receipts', "OTHER")
    /\ UNCHANGED <<gas, audit, projected, work, worker, chainVars>>
-----------------------------------------------------------------------------
(* persistConfirmedV4OperationalOpenProjection, in the executor's call and *)
(* in the worker                                                           *)

Projectable(i) ==
    /\ MintHash(i) # NULL
    /\ ReceiptBacked(i) /\ MintHash(i) \in executed
    /\ MintLabel = "V4_MINT"                       \* V4_MINT_PREPARED is found

(* upsertV4Position: a second projection finds the row of the first.       *)
Projected(i) == projected \cup {i}

PersistProjection(i) ==
    /\ Projectable(i)
    /\ row' = Moved(i, "MINT", "CONFIRMED")
    /\ projected' = Projected(i)

Ensured(i) == [work EXCEPT ![i] = IF @ = "NONE" THEN "PENDING" ELSE @]

(* OPEN_RECONCILIATION_PENDING, whether the projection and the work item   *)
(* could be written or not.                                                *)
Project(i) ==
    /\ pc[i] = "project"
    /\ \/ PersistProjection(i)
       \/ UNCHANGED <<row, projected>>
    /\ work' = Ensured(i) \/ UNCHANGED work
    /\ Return(i)
    /\ UNCHANGED <<gas, audit, receipts, worker, chainVars>>

(* The bot dies; then it may start, which sorts the failed intents.        *)
CrashBot ==
    /\ \E i \in Intents : pc[i] # "idle"
    /\ pc' = [i \in Intents |-> "idle"]
    /\ call' = [i \in Intents |-> NoCall]
    /\ UNCHANGED <<row, gas, audit, receipts, projected, work, worker, chainVars>>

(* Fault: only the mint is looked at.                                      *)
MarkRetryableUnminted(i) ==
    /\ \A j \in Intents : pc[j] = "idle"
    /\ row[i].step = "FAILED" /\ MintHash(i) = NULL /\ i \notin audit
    /\ row' = Moved(i, NULL, "FAILED_RETRYABLE")
    /\ UNCHANGED <<gas, audit, receipts, pc, call, projected, work, worker, chainVars>>

MarkRetryable(i) ==
    /\ \A j \in Intents : pc[j] = "idle"
    /\ row[i].step = "FAILED" /\ i \notin gas \cup audit
    /\ \A f \in Phases : row[i].hash[f] = NULL
    /\ row' = Moved(i, NULL, "FAILED_RETRYABLE")
    /\ UNCHANGED <<gas, audit, receipts, pc, call, projected, work, worker, chainVars>>
-----------------------------------------------------------------------------
(* The operator's terminalisation, a process of its own, in one            *)
(* transaction.  What PREPARED and later transitions leave in the history  *)
(* is the hash each of them stores.                                        *)

ExecutionTrace(i) == \E f \in Phases : row[i].hash[f] # NULL

NoBroadcastEvidence(i) ==
    /\ ~ExecutionTrace(i)
    /\ i \notin gas \cup projected
    /\ \A r \in receipts : r.hash.stage[1] # i

TerminalizeNoBroadcast(i) ==
    /\ row[i].step = "FAILED_RETRYABLE" /\ row[i].reason = TerminalReason
    /\ NoBroadcastEvidence(i)
    /\ row' = Moved(i, NULL, "FAILED")
    /\ audit' = audit \cup {i}
    /\ UNCHANGED <<gas, receipts, pc, call, projected, work, worker, chainVars>>

(* A start of the bot made a terminalised intent retryable again: what     *)
(* reconcileV4LiveOpenTerminalizedNoBroadcast repairs in older rows.       *)
Demoted(i) == i \in audit /\ row[i].step = "FAILED_RETRYABLE"
-----------------------------------------------------------------------------
(* The reconcile worker: discovery, then completeOperationalOpen in three  *)
(* transactions.  Leases are those of EconomicWork.                        *)

Discoverable(i) ==
    /\ MintHash(i) \in executed /\ ReceiptBacked(i)
    /\ row[i].step # "POSITION_RECONCILED"

DiscoverOpen(i) ==
    /\ Discoverable(i)
    /\ work[i] = "NONE" /\ work' = Ensured(i)
    /\ UNCHANGED <<row, gas, audit, receipts, pc, call, projected, worker, chainVars>>

TakeOpen(i) ==
    /\ worker = NoItem /\ work[i] = "PENDING"
    /\ worker' = [intent |-> i, step |-> "project"]
    /\ UNCHANGED <<row, gas, audit, receipts, pc, call, projected, work, chainVars>>

WorkerProject(i) ==
    /\ worker = [intent |-> i, step |-> "project"]
    /\ PersistProjection(i)
    /\ worker' = [worker EXCEPT !.step = "reconcile"]
    /\ UNCHANGED <<gas, audit, receipts, pc, call, work, chainVars>>

WorkerReconcile(i) ==
    /\ worker = [intent |-> i, step |-> "reconcile"]
    /\ row' = Moved(i, NULL, "POSITION_RECONCILED")
    /\ worker' = [worker EXCEPT !.step = "complete"]
    /\ UNCHANGED <<gas, audit, receipts, pc, call, projected, work, chainVars>>

WorkerComplete(i) ==
    /\ worker = [intent |-> i, step |-> "complete"]
    /\ work' = [work EXCEPT ![i] = "COMPLETED"]
    /\ worker' = NoItem
    /\ UNCHANGED <<row, gas, audit, receipts, pc, call, projected, chainVars>>

WorkerFails ==                                      \* RETRYABLE, or the process dies
    /\ worker # NoItem
    /\ worker' = NoItem
    /\ UNCHANGED <<row, gas, audit, receipts, pc, call, projected, work, chainVars>>
-----------------------------------------------------------------------------
CallStep(i) ==
    \/ Confirm(i) \/ Preflight(i) \/ Claim(i)
    \/ ApproveErc20(i) \/ ApprovePermit2(i) \/ Mint(i)
    \/ AcquireNonce(i) \/ SignAndPrepare(i) \/ Broadcast(i) \/ RecordSent(i)
    \/ ResendPersisted(i) \/ Probe(i) \/ CountNonces(i) \/ Classify(i)
    \/ Receipt(i) \/ Project(i) \/ Fails(i)

WorkerStep(i) ==
    DiscoverOpen(i) \/ TakeOpen(i) \/ WorkerProject(i) \/ WorkerReconcile(i) \/ WorkerComplete(i)

Next ==
    \/ \E i \in Intents : Preview(i) \/ CallStep(i) \/ MarkRetryable(i) \/ TerminalizeNoBroadcast(i) \/ WorkerStep(i)
    \/ WorkerFails \/ CrashBot
    \/ ChainStep /\ UNCHANGED openVars

Spec == Init /\ [][Next]_vars
-----------------------------------------------------------------------------
(* Properties                                                              *)

OnNetwork == pool \cup flight \cup executed \cup reverted

(* An intent mints once at most, although a confirmation is repeated,      *)
(* failed intents are entered again, identical bytes are sent again and    *)
(* the bot dies anywhere: the mint hash is stored before its bytes leave,  *)
(* and a stored one is never signed anew.                                  *)
MintsOnce ==
    \A g, h \in OnNetwork : g.stage = h.stage /\ g.stage[2] = "MINT" => g = h

(* An intent declared safe to replace by a fresh one, by the start of the  *)
(* bot or by the operator (noTransactionBroadcast in the transition), has  *)
(* nothing on the network and never will; what the operator ended is ended.*)
RetryableNeverBroadcast ==
    \A i \in Intents :
        /\ ~Demoted(i)
        /\ row[i].step = "FAILED_RETRYABLE" \/ i \in audit =>
              \A h \in OnNetwork : h.stage[1] # i
===============================================================================
