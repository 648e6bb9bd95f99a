-------------------------- MODULE DurableTransaction --------------------------
(***************************************************************************)
(* The journal-before-broadcast boundary of the live V4 paths.             *)
(*                                                                         *)
(* Executors are concurrent calls of submit (v4-bid-ladder-live.ts) in the *)
(* Telegram bot or the CLI: each runs broadcastDurableTransaction for one  *)
(* stage under the wallet's nonce mutex and then waits for the receipt.    *)
(* Reconcilers are runs of reconcileDurableV4Journals in the reconcile     *)
(* worker: they have no signer, take no mutex, and settle journal rows     *)
(* from exact-hash evidence.  All share the SQLite file; every process can *)
(* crash between two steps.  A step is the code between two awaits, or     *)
(* one SQLite transaction.                                                 *)
(***************************************************************************)
EXTENDS WalletChain

CONSTANTS
    Executors,       \* concurrent calls of submit
    Reconcilers,     \* concurrent reconciliation cycles
    MaxAttempt,      \* bound: attempts 0..MaxAttempt of a stage are used
    AtomicEvidence   \* FALSE as in the code: the hash is looked up first and
                     \* the nonces are read by a later call; TRUE: at once

ASSUME MaxAttemptAssumption == MaxAttempt \in Nat

ASSUME AtomicEvidenceAssumption == AtomicEvidence \in BOOLEAN

ASSUME ProcessesAssumption == Executors \cap Reconcilers = {}

Attempts == 0..MaxAttempt
Procs == Executors \cup Reconcilers

Statuses == {"ABSENT", "PREPARED", "SUBMITTED", "CONFIRMED", "FAILED"}
Reasons == {"NONE", "TRANSACTION_REVERTED", "NONCE_NO_LONGER_AVAILABLE"}
Rows == [status : Statuses, hash : Hashes \cup {NULL}, reason : Reasons]

(* What exactHashEvidence reports.  CONSUMED_LATEST and CONSUMED_PENDING   *)
(* are ABSENT with the latest, or only the pending, count past the nonce.  *)
Evidence == {"NONE", "RECEIPT_SUCCESS", "RECEIPT_REVERTED", "PENDING", "CONSUMED_LATEST",
             "CONSUMED_PENDING", "AVAILABLE", "INCONCLUSIVE"}

Labels == {"idle", "load", "acquire", "sign", "persist", "broadcast", "probe",
           "count", "classify", "receipt", "record"}

(* The locals of a call: attempt as submit computed it; row, the attempt   *)
(* the prepared transaction carries; loaded, that it came from the journal.*)
Jobs == [stage : Stages \cup {NULL}, attempt : Attempts, row : Attempts,
         hash : Hashes \cup {NULL}, loaded : BOOLEAN, accepted : BOOLEAN,
         seen : Evidence]

VARIABLES
    journal,   \* chain_transaction_journal: stage -> attempt -> row
    mutex,     \* nonce_mutex row of the wallet: no column names the holder
    pc,
    job

vars == <<journal, mutex, pc, job, chainVars>>

NoRow == [status |-> "ABSENT", hash |-> NULL, reason |-> "NONE"]
NewJob(s, n) == [stage |-> s, attempt |-> n, row |-> n, hash |-> NULL,
                 loaded |-> FALSE, accepted |-> FALSE, seen |-> "NONE"]
NoJob == NewJob(NULL, 0)

TypeOK ==
    /\ ChainTypeOK
    /\ journal \in [Stages -> [Attempts -> Rows]]
    /\ mutex \in {"FREE", "HELD", "EXPIRED"}
    /\ pc \in [Procs -> Labels]
    /\ job \in [Procs -> Jobs]

Init ==
    /\ ChainInit
    /\ journal = [s \in Stages |-> [a \in Attempts |-> NoRow]]
    /\ mutex = "FREE"
    /\ pc = [p \in Procs |-> "idle"]
    /\ job = [p \in Procs |-> NoJob]
-----------------------------------------------------------------------------
Present(s, a) == journal[s][a].status # "ABSENT"
Live(s, a) == journal[s][a].status \in {"PREPARED", "SUBMITTED"}

(* journalRow: ORDER BY attempt DESC LIMIT 1.                              *)
IsLatest(s, a) ==
    /\ a \in Attempts
    /\ Present(s, a)
    /\ \A b \in Attempts : Present(s, b) => b <= a

(* Faults: submitted means finished; confirmed means another try is due.   *)
NextAfterSubmitted(s, n) ==
    \/ n = 0 /\ \A a \in Attempts : ~Present(s, a)
    \/ IsLatest(s, n) /\ Live(s, n)
    \/ \E a \in Attempts :
          IsLatest(s, a) /\ journal[s][a].status \in {"SUBMITTED", "FAILED"} /\ n = a + 1

NextAfterConfirmed(s, n) ==
    \/ n = 0 /\ \A a \in Attempts : ~Present(s, a)
    \/ IsLatest(s, n) /\ Live(s, n)
    \/ \E a \in Attempts : IsLatest(s, a) /\ ~Live(s, a) /\ n = a + 1

(* The attempt number submit chooses; a CONFIRMED stage returns before.    *)
IsNextAttempt(s, n) ==
    \/ n = 0 /\ \A a \in Attempts : ~Present(s, a)
    \/ IsLatest(s, n) /\ Live(s, n)
    \/ \E a \in Attempts : IsLatest(s, a) /\ journal[s][a].status = "FAILED" /\ n = a + 1

Goto(p, label) == pc' = [pc EXCEPT ![p] = label]
(* Fault: the two bound columns are swapped.                               *)
SetStatusSwapped(s, a, status, reason) ==
    [journal EXCEPT ![s][a] = [status |-> reason, hash |-> @.hash, reason |-> status]]

SetStatus(s, a, status, reason) ==
    [journal EXCEPT ![s][a] = [status |-> status, hash |-> @.hash, reason |-> reason]]

Continue(p, label) == Goto(p, label) /\ UNCHANGED job
Return(p) == Goto(p, "idle") /\ job' = [job EXCEPT ![p] = NoJob]

(* releaseNonceMutex deletes by wallet: whoever holds it now loses it.     *)
Release == mutex' = "FREE"
-----------------------------------------------------------------------------
(* submit, broadcastDurableTransaction: admission                          *)

ReadJournal(p, s) ==
    /\ pc[p] = "idle"
    /\ \E n \in Attempts :
          /\ IsNextAttempt(s, n)
          /\ job' = [job EXCEPT ![p] = NewJob(s, n)]
    /\ Goto(p, "load")
    /\ UNCHANGED <<journal, mutex, chainVars>>

LoadJournal(p) ==
    LET s == job[p].stage IN
    /\ pc[p] = "load"
    /\ \/ \E a \in Attempts :
             /\ IsLatest(s, a) /\ Live(s, a)
             /\ job' = [job EXCEPT ![p].row = a, ![p].hash = journal[s][a].hash,
                                   ![p].loaded = TRUE]
       \/ /\ \A a \in Attempts : IsLatest(s, a) => ~Live(s, a)
          /\ UNCHANGED job
    /\ Goto(p, "acquire")
    /\ UNCHANGED <<journal, mutex, chainVars>>

AcquireNonceMutex(p) ==
    /\ pc[p] = "acquire"
    /\ \/ /\ mutex # "HELD"
          /\ mutex' = "HELD"
          /\ Continue(p, IF job[p].loaded THEN "probe" ELSE "sign")
       \/ /\ Return(p)               \* NONCE_MUTEX_HELD or SQLITE_BUSY
          /\ UNCHANGED mutex
    /\ UNCHANGED <<journal, chainVars>>

(* The TTL of 300 s runs out while the holder waits for a provider, or     *)
(* after it crashed: the row then no longer refuses the next caller.       *)
ExpireNonceMutex ==
    /\ mutex = "HELD"
    /\ mutex' = "EXPIRED"
    /\ UNCHANGED <<journal, pc, job, chainVars>>
-----------------------------------------------------------------------------
(* Sign, journal, broadcast                                                *)

Sign(p) ==
    /\ pc[p] = "sign"
    /\ \/ \E n \in Nonces, v \in Variants :
             /\ IsPendingNonce(n)
             /\ job' = [job EXCEPT ![p].hash = [stage |-> job[p].stage, nonce |-> n, variant |-> v]]
          /\ Goto(p, "persist")
          /\ UNCHANGED mutex
       \/ Release /\ Return(p)             \* gas cap, provider or signer error
    /\ UNCHANGED <<journal, chainVars>>

(* Fault: the nonce is checked within the stage only.                      *)
NonceTakenInStage(h) ==
    \E a \in Attempts :
        /\ journal[h.stage][a].status \in {"PREPARED", "SUBMITTED", "CONFIRMED"}
        /\ journal[h.stage][a].hash.nonce = h.nonce
        /\ journal[h.stage][a].hash # h

NonceTaken(h) ==
    \E s \in Stages, a \in Attempts :
        /\ journal[s][a].status \in {"PREPARED", "SUBMITTED", "CONFIRMED"}
        /\ journal[s][a].hash.nonce = h.nonce
        /\ journal[s][a].hash # h

HashTaken(h) == \E s \in Stages, a \in Attempts : journal[s][a].hash = h

(* Fault: a write that fails is left to the recovery hand-off.             *)
PersistBestEffort(p) ==
    /\ pc[p] = "persist"
    /\ \/ UNCHANGED journal
       \/ /\ ~Present(job[p].stage, job[p].attempt)
          /\ journal' = [journal EXCEPT ![job[p].stage][job[p].attempt] =
                [status |-> "PREPARED", hash |-> job[p].hash, reason |-> "NONE"]]
    /\ Continue(p, "broadcast")
    /\ UNCHANGED <<mutex, chainVars>>

(* persistChainPreparedTransaction: an equal row of the attempt is         *)
(* accepted as it is, whatever its status; everything else inserts under   *)
(* the nonce check and UNIQUE(expected_hash), or throws.                   *)
PersistPrepared(p) ==
    LET s == job[p].stage
        a == job[p].attempt
        h == job[p].hash
    IN
    /\ pc[p] = "persist"
    /\ \/ /\ Present(s, a) /\ journal[s][a].hash = h
          /\ Continue(p, "broadcast")
          /\ UNCHANGED <<journal, mutex>>
       \/ /\ ~Present(s, a) /\ ~NonceTaken(h) /\ ~HashTaken(h)
          /\ journal' = [journal EXCEPT
                ![s][a] = [status |-> "PREPARED", hash |-> h, reason |-> "NONE"]]
          /\ Continue(p, "broadcast")
          /\ UNCHANGED mutex
       \/ /\ Release /\ Return(p)          \* conflict, lost admission or SQLITE_BUSY
          /\ UNCHANGED journal
    /\ UNCHANGED chainVars

Broadcast(p) ==
    LET h == job[p].hash IN
    /\ pc[p] = "broadcast"
    /\ \/ /\ SendAccepted(h)
          /\ job' = [job EXCEPT ![p].accepted = TRUE]
       \/ /\ SendErrored(h)
          /\ UNCHANGED job
    /\ Goto(p, "probe")
    /\ UNCHANGED <<journal, mutex>>
-----------------------------------------------------------------------------
(* exactHashEvidence, for executors and reconcilers.  Several providers    *)
(* that disagree, fail or answer nonsense make it INCONCLUSIVE.  The       *)
(* repeated probes of boundedPostBroadcastExactHashProbe that settle       *)
(* nothing leave no trace, so one probe at any later time stands for them. *)

AfterProbe(p) == IF p \in Executors THEN "classify" ELSE "record"

(* Fault: off by one, the next nonce of the wallet counts as used.         *)
CountEvidenceOffByOne(h) == IF h.nonce <= latest THEN "CONSUMED_LATEST" ELSE "AVAILABLE"

CountEvidence(h) ==
    IF h.nonce < latest THEN "CONSUMED_LATEST"
    ELSE IF \E n \in 0..(MaxNonce + 1) : IsPendingNonce(n) /\ h.nonce < n THEN "CONSUMED_PENDING"
    ELSE "AVAILABLE"

See(p, evidence) == job' = [job EXCEPT ![p].seen = evidence]

ProbeConclusive(p) ==
    LET h == job[p].hash IN
    /\ pc[p] = "probe"
    /\ \/ h \in executed /\ See(p, "RECEIPT_SUCCESS") /\ Goto(p, AfterProbe(p))
       \/ h \in reverted /\ See(p, "RECEIPT_REVERTED") /\ Goto(p, AfterProbe(p))
       \/ h \in pool /\ See(p, "PENDING") /\ Goto(p, AfterProbe(p))
       \/ /\ ~Landed(h) /\ h \notin pool
          /\ See(p, IF AtomicEvidence THEN CountEvidence(h) ELSE "NONE")
          /\ Goto(p, "count")
    /\ UNCHANGED <<journal, mutex, chainVars>>

CountNonces(p) ==
    /\ pc[p] = "count"
    /\ IF AtomicEvidence THEN UNCHANGED job ELSE See(p, CountEvidence(job[p].hash))
    /\ Goto(p, AfterProbe(p))
    /\ UNCHANGED <<journal, mutex, chainVars>>

ProbeInconclusive(p) ==
    /\ pc[p] \in {"probe", "count"}
    /\ See(p, "INCONCLUSIVE")
    /\ Goto(p, AfterProbe(p))
    /\ UNCHANGED <<journal, mutex, chainVars>>
-----------------------------------------------------------------------------
(* The two writers of evidence into the journal                            *)

(* Faults: no look at the receipt's status; no terminal check.             *)
ReconciledAnyReceipt(s, a, evidence) ==
    IF ~Live(s, a) THEN journal
    ELSE IF evidence \in {"RECEIPT_SUCCESS", "RECEIPT_REVERTED"}
         THEN SetStatus(s, a, "CONFIRMED", "NONE")
         ELSE SetStatus(s, a, "FAILED", "NONCE_NO_LONGER_AVAILABLE")

ReconciledUnguarded(s, a, evidence) ==
    IF evidence = "RECEIPT_SUCCESS" THEN SetStatus(s, a, "CONFIRMED", "NONE")
    ELSE SetStatus(s, a, "FAILED", "NONCE_NO_LONGER_AVAILABLE")

(* reconcileDurableChainTransaction: a terminal row absorbs any evidence.  *)
Reconciled(s, a, evidence) ==
    IF ~Live(s, a) THEN journal
    ELSE CASE evidence = "RECEIPT_SUCCESS" -> SetStatus(s, a, "CONFIRMED", "NONE")
           [] evidence = "RECEIPT_REVERTED" -> SetStatus(s, a, "FAILED", "TRANSACTION_REVERTED")
           [] OTHER -> SetStatus(s, a, "FAILED", "NONCE_NO_LONGER_AVAILABLE")

(* journal.markSubmitted looks at the latest row but moves the row of the  *)
(* caller's attempt: when these differ the compare-and-set throws.         *)
SubmitConflict(s, a) ==
    \E b \in Attempts : /\ IsLatest(s, b) /\ journal[s][b].status = "PREPARED"
                        /\ journal[s][a].status # "PREPARED"
Submitted(s, a) ==
    IF journal[s][a].status = "PREPARED" /\ IsLatest(s, a)
    THEN SetStatus(s, a, "SUBMITTED", "NONE") ELSE journal
-----------------------------------------------------------------------------
(* classify, then the finally block that releases the mutex                *)

(* The row of the receipt is settled before markSubmitted looks.           *)
ClassifyReceipt(p) ==
    LET s == job[p].stage IN
    /\ job[p].seen \in {"RECEIPT_SUCCESS", "RECEIPT_REVERTED"}
    /\ journal' = Reconciled(s, job[p].row, job[p].seen)
    /\ IF /\ job[p].seen = "RECEIPT_SUCCESS"
          /\ \E b \in Attempts \ {job[p].row} :
                IsLatest(s, b) /\ journal[s][b].status = "PREPARED"
       THEN Return(p) ELSE Continue(p, "receipt")

ClassifySubmitted(p) ==
    LET s == job[p].stage
        a == job[p].attempt
    IN
    /\ \/ job[p].seen = "PENDING"
       \/ job[p].accepted /\ job[p].seen \notin {"RECEIPT_SUCCESS", "RECEIPT_REVERTED"}
    /\ \/ SubmitConflict(s, a) /\ Return(p) /\ UNCHANGED journal
       \/ /\ ~SubmitConflict(s, a)
          /\ journal' = Submitted(s, a)
          /\ IF job[p].accepted THEN Continue(p, "receipt") ELSE Return(p)

ClassifyConsumed(p) ==
    /\ ~job[p].accepted
    /\ job[p].seen \in {"CONSUMED_LATEST", "CONSUMED_PENDING"}
    /\ journal' = Reconciled(job[p].stage, job[p].row, job[p].seen)
    /\ Return(p)

(* Unresolved evidence, or a write that stayed SQLITE_BUSY: the row stays  *)
(* as it is and DurableTransactionReconciliationPendingError is thrown.    *)
ClassifyPending(p) ==
    /\ Return(p)
    /\ UNCHANGED journal

Classify(p) ==
    /\ pc[p] = "classify"
    /\ \/ ClassifyReceipt(p)
       \/ ClassifySubmitted(p)
       \/ ClassifyConsumed(p)
       \/ ClassifyPending(p)
    /\ Release
    /\ UNCHANGED chainVars
-----------------------------------------------------------------------------
(* submit after the boundary returned: waitForTransactionReceipt and the   *)
(* terminal transition.  A success moves the row of the caller's attempt,  *)
(* a revert the row that is latest when the receipt arrives.               *)

ReceiptSuccess(p) ==
    LET s == job[p].stage
        a == job[p].attempt
    IN
    /\ pc[p] = "receipt" /\ job[p].hash \in executed
    /\ \/ /\ IsLatest(s, a) /\ journal[s][a].status = "PREPARED"
          /\ journal' = SetStatus(s, a, "SUBMITTED", "NONE")
          /\ UNCHANGED <<pc, job>>
       \/ /\ IsLatest(s, a) /\ journal[s][a].status = "SUBMITTED"
          /\ journal' = SetStatus(s, a, "CONFIRMED", "NONE")
          /\ Return(p)
       \/ /\ ~(IsLatest(s, a) /\ Live(s, a))
          /\ Return(p)
          /\ UNCHANGED journal
    /\ UNCHANGED <<mutex, chainVars>>

ReceiptReverted(p) ==
    LET s == job[p].stage IN
    /\ pc[p] = "receipt" /\ job[p].hash \in reverted
    /\ \/ \E a \in Attempts :
             /\ IsLatest(s, a) /\ Live(s, a)
             /\ journal' = SetStatus(s, a, "FAILED", "TRANSACTION_REVERTED")
       \/ /\ \A a \in Attempts : IsLatest(s, a) => ~Live(s, a)
          /\ UNCHANGED journal
    /\ Return(p)
    /\ UNCHANGED <<mutex, chainVars>>

ReceiptTimeout(p) ==
    /\ pc[p] = "receipt"
    /\ Return(p)
    /\ UNCHANGED <<journal, mutex, chainVars>>
-----------------------------------------------------------------------------
(* reconcileDurableV4Journals                                              *)

PickCandidate(r, s, a) ==
    /\ pc[r] = "idle"
    /\ Live(s, a)
    /\ job' = [job EXCEPT ![r] = [NewJob(s, a) EXCEPT !.hash = journal[s][a].hash]]
    /\ Goto(r, "probe")
    /\ UNCHANGED <<journal, mutex, chainVars>>

(* Faults: the pending count is trusted; an absent hash is never settled.  *)
RecordPendingCount(r) ==
    /\ pc[r] = "record"
    /\ journal' = IF job[r].seen \in {"RECEIPT_SUCCESS", "RECEIPT_REVERTED",
                                      "CONSUMED_LATEST", "CONSUMED_PENDING"}
                  THEN Reconciled(job[r].stage, job[r].row, job[r].seen)
                  ELSE journal
    /\ Return(r)
    /\ UNCHANGED <<mutex, chainVars>>

RecordReceiptsOnly(r) ==
    /\ pc[r] = "record"
    /\ journal' = IF job[r].seen \in {"RECEIPT_SUCCESS", "RECEIPT_REVERTED"}
                  THEN Reconciled(job[r].stage, job[r].row, job[r].seen)
                  ELSE journal
    /\ Return(r)
    /\ UNCHANGED <<mutex, chainVars>>

RecordEvidence(r) ==
    /\ pc[r] = "record"
    /\ journal' = IF job[r].seen \in {"RECEIPT_SUCCESS", "RECEIPT_REVERTED", "CONSUMED_LATEST"}
                  THEN Reconciled(job[r].stage, job[r].row, job[r].seen)
                  ELSE journal
    /\ Return(r)
    /\ UNCHANGED <<mutex, chainVars>>

RecordBusy(r) ==                            \* FINALIZATION_FAILED, retried
    /\ pc[r] = "record"
    /\ Return(r)
    /\ UNCHANGED <<journal, mutex, chainVars>>

(* The process dies: its locals are gone, its mutex row stays.             *)
Crash(p) ==
    /\ pc[p] # "idle"
    /\ Return(p)
    /\ UNCHANGED <<journal, mutex, chainVars>>
-----------------------------------------------------------------------------
ExecutorStep(p) ==
    \/ \E s \in Stages : ReadJournal(p, s)
    \/ LoadJournal(p) \/ AcquireNonceMutex(p)
    \/ Sign(p) \/ PersistPrepared(p) \/ Broadcast(p)
    \/ Classify(p)
    \/ ReceiptSuccess(p) \/ ReceiptReverted(p) \/ ReceiptTimeout(p)

ReconcilerStep(r) ==
    \/ \E s \in Stages, a \in Attempts : PickCandidate(r, s, a)
    \/ RecordEvidence(r) \/ RecordBusy(r)

ProbeStep(p) == ProbeConclusive(p) \/ CountNonces(p) \/ ProbeInconclusive(p)

Next ==
    \/ \E p \in Executors : ExecutorStep(p)
    \/ \E r \in Reconcilers : ReconcilerStep(r)
    \/ \E p \in Procs : ProbeStep(p) \/ Crash(p)
    \/ ExpireNonceMutex
    \/ ChainStep /\ UNCHANGED <<journal, mutex, pc, job>>

Spec == Init /\ [][Next]_vars

(* The process of a job: the row it looks at.                              *)
Handles(r, s, a) == job[r].stage = s /\ job[r].row = a
-----------------------------------------------------------------------------
(* Properties                                                              *)

(* Nothing that any node, mempool or block has seen of ours is missing     *)
(* from the journal: persistPrepared commits before the raw bytes leave,   *)
(* in every interleaving of executors and at every crash.                  *)
JournalBeforeBroadcast ==
    \A h \in pool \cup flight \cup executed \cup reverted :
        \E a \in Attempts : journal[h.stage][a].hash = h

(* A stage gets a new attempt only when every earlier one is FAILED, even  *)
(* though submit picks the attempt number before it owns the nonce mutex   *)
(* and the mutex can expire or be released by somebody else.               *)
AttemptsInOrder ==
    \A s \in Stages : \A a, b \in Attempts :
        a < b /\ Present(s, b) => journal[s][a].status = "FAILED"

(* Two different transactions are never both open for, or confirmed at,    *)
(* the same nonce, and no transaction is journalled twice.                 *)
NonceExclusive ==
    \A s, t \in Stages : \A a, b \in Attempts :
        /\ journal[s][a].status \notin {"ABSENT", "FAILED"}
        /\ journal[t][b].status \notin {"ABSENT", "FAILED"}
        /\ journal[s][a].hash.nonce = journal[t][b].hash.nonce
        => s = t /\ a = b

(* CONFIRMED is written for the row whose own transaction succeeded, by    *)
(* whichever of executor and reconciler gets there first.                  *)
ConfirmedExecuted ==
    \A s \in Stages, a \in Attempts :
        journal[s][a].status = "CONFIRMED" => journal[s][a].hash \in executed

(* Of all the rows of a stage one succeeds on chain at most, so a stage    *)
(* (a mint, a close, a collect) takes economic effect at most once.        *)
SingleExecution ==
    \A g, h \in executed : g.stage = h.stage => g = h

(* A row given up because its nonce is gone is a transaction that did not  *)
(* and will not take effect: the retry it allows is not a second one.      *)
FailedNeverLands ==
    \A s \in Stages, a \in Attempts :
        journal[s][a].reason = "NONCE_NO_LONGER_AVAILABLE" => ~Landed(journal[s][a].hash)

(* A row keeps its transaction for ever, and a CONFIRMED or FAILED row is  *)
(* never written again, whatever evidence a slow process still holds.      *)
RowsSettleOnce ==
    [][\A s \in Stages, a \in Attempts :
          /\ Present(s, a) => journal'[s][a].hash = journal[s][a].hash
          /\ journal[s][a].status \in {"CONFIRMED", "FAILED"}
             => journal'[s][a] = journal[s][a]]_vars

(* Refinement: the journal implements StageAuthority.                      *)
HashOfStatus(s, statuses) ==
    IF \E a \in Attempts : journal[s][a].status \in statuses
    THEN journal[s][CHOOSE a \in Attempts : journal[s][a].status \in statuses].hash
    ELSE NULL

Grant == [s \in Stages |-> HashOfStatus(s, {"PREPARED", "SUBMITTED"})]
Done == [s \in Stages |-> HashOfStatus(s, {"CONFIRMED"})]

Authority == INSTANCE StageAuthority WITH grant <- Grant, done <- Done

ImplementsAuthority == Authority!Spec
=============================================================================
