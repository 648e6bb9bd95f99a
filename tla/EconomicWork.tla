----------------------------- MODULE EconomicWork -----------------------------
(***************************************************************************)
(* The durable work queue of the reconcile worker, on top of the journal.  *)
(*                                                                         *)
(* runEconomicReconciliationCycle discovers journal rows that need care,   *)
(* leases their rows of economic_reconciliation_work, and for each one     *)
(* runs reconcileDurableV4Journals: settle the journal row from evidence,  *)
(* then bring the ladder's local projection up to the confirmed receipt.   *)
(* The executor does the same projection inline after its own receipt.     *)
(* Several cycles may be alive at once (the PM2 worker, a manual           *)
(* reconcile-all): the lease owner is the wallet address, so they all      *)
(* lease under one name and the queue cannot tell them apart.              *)
(***************************************************************************)
EXTENDS DurableTransaction

CONSTANT BatchStages   \* stages with a projection; the others are approvals

ASSUME BatchStagesAssumption == BatchStages \subseteq Stages

Items == Stages \X Attempts

(* PENDING stands for PENDING and RETRYABLE, EXPIRED for a LEASED row past *)
(* leased_until_ms.                                                        *)
WorkStatuses == {"NONE", "PENDING", "LEASED", "EXPIRED", "COMPLETED", "FAILED_CLOSED"}

Phases == {"idle", "lease", "work", "probe", "finalize", "done", "retry", "failed"}

VARIABLES
    work,         \* economic_reconciliation_work: item -> status
    projection,   \* the ladder's positions and deposits for a stage
    cycle,        \* the locals of a cycle: phase, leased items left, item
    inline        \* the stage an executor is projecting itself, or NULL

workVars == <<work, projection, cycle, inline>>
allVars == <<vars, workVars>>

NoCycle == [phase |-> "idle", todo |-> {}, cur |-> NULL]

WorkTypeOK ==
    /\ TypeOK
    /\ work \in [Items -> WorkStatuses]
    /\ projection \in [Stages -> {"NONE", "PROJECTED", "DONE"}]
    /\ cycle \in [Reconcilers -> [phase : Phases, todo : SUBSET Items, cur : Items \cup {NULL}]]
    /\ inline \in [Executors -> Stages \cup {NULL}]

WorkInit ==
    /\ Init
    /\ work = [i \in Items |-> "NONE"]
    /\ projection = [s \in Stages |-> "NONE"]
    /\ cycle = [r \in Reconcilers |-> NoCycle]
    /\ inline = [p \in Executors |-> NULL]
-----------------------------------------------------------------------------
Leased(i) == work[i] \in {"LEASED", "EXPIRED"}

Unprojected(s, a) ==
    s \in BatchStages /\ journal[s][a].status = "CONFIRMED" /\ projection[s] # "DONE"

Candidate(i) == Live(i[1], i[2]) \/ Unprojected(i[1], i[2])

(* Faults: an item in its end state is due again; confirmed is finished.   *)
EnsuredAgain(D) ==
    [i \in Items |-> IF i \in D /\ ~Leased(i) THEN "PENDING" ELSE work[i]]

UndiscoveredOpenOnly == {i \in Items : Live(i[1], i[2]) /\ work[i] = "NONE"}

(* ensureEconomicReconciliationWork: ON CONFLICT only raises the priority  *)
(* or the availability of an existing row, whatever became of it.          *)
Ensured(D) == [i \in Items |-> IF i \in D /\ work[i] = "NONE" THEN "PENDING" ELSE work[i]]

Undiscovered == {i \in Items : Candidate(i) /\ work[i] = "NONE"}

(* The last step of the projection: deposits, which are inserted or ignored. *)
Deposited(s) == [projection EXCEPT ![s] = "DONE"]

(* One step of the idempotent projection: positions, then deposits.        *)
Advanced(s) ==
    IF projection[s] = "NONE" THEN [projection EXCEPT ![s] = "PROJECTED"] ELSE Deposited(s)

(* The journal row the projection insists on is the stage's latest.        *)
ReceiptAuthoritative(s) ==
    \E a \in Attempts : IsLatest(s, a) /\ journal[s][a].status = "CONFIRMED"

At(r, phase) == cycle[r].phase = phase
Enter(r, phase) == cycle' = [cycle EXCEPT ![r].phase = phase]

(* The item is left to its work row; the cycle goes on with the next one.  *)
NextItem(r) ==
    cycle' = [cycle EXCEPT ![r].phase = "work", ![r].todo = @ \ {cycle[r].cur},
                           ![r].cur = NULL]
-----------------------------------------------------------------------------
(* The cycle.  A background write may give way to foreground demand or to  *)
(* a locked database at any of its writes.                                 *)

(* A cycle that fails inside discovery has handed over a part of it.       *)
Discover(r) ==
    /\ At(r, "idle")
    /\ \E D \in SUBSET Undiscovered :
          /\ work' = Ensured(D)
          /\ IF D = Undiscovered THEN Enter(r, "lease") ELSE UNCHANGED cycle
    /\ UNCHANGED <<vars, projection, inline>>

(* Any items that are due: a RETRYABLE one may still have to wait.         *)
LeaseDue(r, D) ==
    /\ At(r, "lease")
    /\ D \subseteq {i \in Items : work[i] \in {"PENDING", "EXPIRED"}}
    /\ work' = [i \in Items |-> IF i \in D THEN "LEASED" ELSE work[i]]
    /\ cycle' = [cycle EXCEPT ![r] = [phase |-> "work", todo |-> D, cur |-> NULL]]
    /\ UNCHANGED <<vars, projection, inline>>

EndCycle(r) ==
    /\ At(r, "work") /\ cycle[r].todo = {}
    /\ cycle' = [cycle EXCEPT ![r] = NoCycle]
    /\ UNCHANGED <<vars, work, projection, inline>>

ExpireLease(i) ==
    /\ work[i] = "LEASED"
    /\ work' = [work EXCEPT ![i] = "EXPIRED"]
    /\ UNCHANGED <<vars, projection, cycle, inline>>

(* durableV4RecoveryCandidates with this one journal id.                   *)
TakeItem(r, i) ==
    LET take(phase) == cycle' = [cycle EXCEPT ![r].phase = phase, ![r].cur = i] IN
    /\ At(r, "work") /\ i \in cycle[r].todo
    /\ \/ PickCandidate(r, i[1], i[2]) /\ take("probe")
       \/ Unprojected(i[1], i[2]) /\ take("finalize") /\ UNCHANGED vars
       \/ ~Candidate(i) /\ take("done") /\ UNCHANGED vars
    /\ UNCHANGED <<work, projection, inline>>

Probe(r) ==
    /\ ProbeStep(r)
    /\ UNCHANGED workVars

(* Faults: no outcome but a failure keeps the item; pending is written.    *)
OutcomeForgiving(s, seen) ==
    CASE seen = "RECEIPT_SUCCESS" -> IF s \in BatchStages THEN "finalize" ELSE "done"
      [] seen \in {"RECEIPT_REVERTED", "CONSUMED_LATEST"} -> "failed"
      [] OTHER -> "done"

SettlePending(r) ==
    /\ pc[r] = "record"
    /\ journal' = IF job[r].seen = "PENDING"
                  THEN SetStatus(job[r].stage, job[r].row, "SUBMITTED", "NONE") ELSE journal
    /\ Return(r) /\ Enter(r, "retry")
    /\ UNCHANGED <<mutex, chainVars, work, projection, inline>>

Outcome(s, seen) ==
    CASE seen = "RECEIPT_SUCCESS" -> IF s \in BatchStages THEN "finalize" ELSE "done"
      [] seen \in {"RECEIPT_REVERTED", "CONSUMED_LATEST"} -> "failed"
      [] OTHER -> "retry"

SettleEvidence(r) ==
    /\ \/ RecordEvidence(r) /\ Enter(r, Outcome(job[r].stage, job[r].seen))
       \/ RecordBusy(r) /\ Enter(r, "retry")
    /\ UNCHANGED <<work, projection, inline>>

Finalize(r) ==
    LET s == cycle[r].cur[1] IN
    /\ At(r, "finalize")
    /\ IF projection[s] = "DONE" THEN Enter(r, "done") /\ UNCHANGED projection
       ELSE /\ ReceiptAuthoritative(s)
            /\ projection' = Advanced(s)
            /\ UNCHANGED cycle
    /\ UNCHANGED <<vars, work, inline>>

FinalizeFails(r) ==
    /\ At(r, "finalize")
    /\ Enter(r, "retry")
    /\ UNCHANGED <<vars, work, projection, inline>>

(* Faults: an error completes the item; the lease is not looked at.        *)
WrittenAnyLease(r, status) ==
    work' = [work EXCEPT ![cycle[r].cur] = status]

(* complete and retry are compare-and-set on LEASED under the owner's      *)
(* name, which is everybody's: a lost lease that was taken anew passes.    *)
Written(r, status) ==
    work' = [work EXCEPT ![cycle[r].cur] = IF Leased(cycle[r].cur) THEN status ELSE @]

CompleteItem(r) ==
    /\ At(r, "done")
    /\ Written(r, "COMPLETED") /\ NextItem(r)
    /\ UNCHANGED <<vars, projection, inline>>

FailItem(r) ==
    /\ At(r, "failed")
    /\ Written(r, "FAILED_CLOSED") /\ NextItem(r)
    /\ UNCHANGED <<vars, projection, inline>>

RetryItem(r) ==
    /\ At(r, "retry")
    /\ Written(r, "PENDING") /\ NextItem(r)
    /\ UNCHANGED <<vars, projection, inline>>

(* The terminal write throws: the catch clause asks for a retry.           *)
WriteFails(r) ==
    /\ At(r, "done") \/ At(r, "failed")
    /\ Enter(r, "retry")
    /\ UNCHANGED <<vars, work, projection, inline>>

(* The retry write throws too, or the process dies: leases stay behind.    *)
AbortCycle(r) ==
    /\ ~At(r, "idle")
    /\ cycle' = [cycle EXCEPT ![r] = NoCycle]
    /\ IF pc[r] = "idle" THEN UNCHANGED vars ELSE Crash(r)
    /\ UNCHANGED <<work, projection, inline>>
-----------------------------------------------------------------------------
(* The executor's side                                                     *)

(* The best-effort handoff of an unresolved transaction.  It is a          *)
(* background write inside a foreground commit and so waits for the marker *)
(* of that very commit (ForegroundDemand): it is turned away and swallowed *)
(* unless the process slept until its own marker had expired.              *)
HandoffRecovery(p) ==
    /\ pc[p] = "classify"
    /\ ClassifyPending(p) /\ Release /\ UNCHANGED chainVars
    /\ work' \in {work, Ensured({<<job[p].stage, job[p].row>>})}
    /\ UNCHANGED <<projection, cycle, inline>>

(* submit returns a success receipt: the caller projects it inline.        *)
SubmitReturns(p) ==
    /\ ReceiptSuccess(p)
    /\ inline' = IF pc'[p] = "idle" /\ job[p].stage \in BatchStages
                 THEN [inline EXCEPT ![p] = job[p].stage] ELSE inline
    /\ UNCHANGED <<work, projection, cycle>>

(* A repeated confirmation finds the receipt in the journal.               *)
ReuseReceipt(p, s) ==
    /\ pc[p] = "idle" /\ inline[p] = NULL
    /\ s \in BatchStages /\ ReceiptAuthoritative(s)
    /\ inline' = [inline EXCEPT ![p] = s]
    /\ UNCHANGED <<vars, work, projection, cycle>>

(* inlineCanonicalBidLadderReceipt: a durable handoff first, if it can.    *)
InlineHandoff(p) ==
    LET s == inline[p] IN
    /\ s # NULL
    /\ \E a \in Attempts :
          /\ IsLatest(s, a) /\ journal[s][a].status = "CONFIRMED"
          /\ work' = Ensured({<<s, a>>})
    /\ UNCHANGED <<vars, projection, cycle, inline>>

InlineProject(p) ==
    LET s == inline[p] IN
    /\ s # NULL
    /\ ReceiptAuthoritative(s) /\ projection[s] # "DONE"
    /\ projection' = Advanced(s)
    /\ UNCHANGED <<vars, work, cycle, inline>>

(* Finished, or AUTOMATIC_RECOVERY_ACTIVE, or the process died.            *)
InlineEnds(p) ==
    /\ inline[p] # NULL
    /\ inline' = [inline EXCEPT ![p] = NULL]
    /\ UNCHANGED <<vars, work, projection, cycle>>

JournalStep(p) ==
    /\ inline[p] = NULL
    /\ \/ \E s \in Stages : ReadJournal(p, s)
       \/ LoadJournal(p) \/ AcquireNonceMutex(p)
       \/ Sign(p) \/ PersistPrepared(p) \/ Broadcast(p) \/ ProbeStep(p)
       \/ Classify(p)
       \/ ReceiptReverted(p) \/ ReceiptTimeout(p) \/ Crash(p)
    /\ UNCHANGED workVars

WorkExecutorStep(p) ==
    \/ JournalStep(p) \/ HandoffRecovery(p) \/ SubmitReturns(p)
    \/ \E s \in Stages : ReuseReceipt(p, s)
    \/ InlineHandoff(p) \/ InlineProject(p) \/ InlineEnds(p)

CycleStep(r) ==
    \/ Discover(r) \/ EndCycle(r)
    \/ \E D \in SUBSET Items : LeaseDue(r, D)
    \/ \E i \in Items : TakeItem(r, i)
    \/ Probe(r) \/ SettleEvidence(r)
    \/ Finalize(r) \/ FinalizeFails(r)
    \/ CompleteItem(r) \/ FailItem(r) \/ RetryItem(r) \/ WriteFails(r)

WorkNext ==
    \/ \E p \in Executors : WorkExecutorStep(p)
    \/ \E r \in Reconcilers : CycleStep(r) \/ AbortCycle(r)
    \/ \E i \in Items : ExpireLease(i)
    \/ ExpireNonceMutex /\ UNCHANGED workVars
    \/ ChainStep /\ UNCHANGED <<journal, mutex, pc, job, workVars>>

WorkSpec == WorkInit /\ [][WorkNext]_allVars

(* The reconcile worker runs for ever (infra/pm2/reconcile-worker.sh), and *)
(* no provider, database or foreground demand defeats it every time; the   *)
(* time a lease was given passes.  Of executors, locks and the chain       *)
(* nothing is assumed.                                                     *)
WorkFairness ==
    /\ \A i \in Items : WF_allVars(ExpireLease(i))
    /\ \A r \in Reconcilers :
        /\ WF_allVars(CycleStep(r))
        /\ SF_allVars(Discover(r) /\ cycle'[r].phase = "lease")
        /\ \A i \in Items :
              /\ SF_allVars(\E D \in SUBSET Items : i \in D /\ LeaseDue(r, D))
              /\ SF_allVars(TakeItem(r, i))
              /\ \A answer \in {"probe", "count"} :
                    SF_allVars(/\ Handles(r, i[1], i[2]) /\ pc[r] = answer
                               /\ Probe(r) /\ job'[r].seen # "INCONCLUSIVE")
              /\ SF_allVars(/\ Handles(r, i[1], i[2]) /\ job[r].seen # "INCONCLUSIVE"
                            /\ RecordEvidence(r) /\ SettleEvidence(r))
              /\ SF_allVars(cycle[r].cur = i /\ Finalize(r))

FairWorkSpec == WorkSpec /\ WorkFairness
-----------------------------------------------------------------------------
(* Properties                                                              *)

(* The queue has no authority of its own: whatever cycles, lost leases and *)
(* aborted writes do, the journal only takes steps that it could take with *)
(* an ideal worker, so every invariant of the journal carries over.        *)
ImplementsJournal == Spec

(* A row the worker may still have to look at is within its reach, for an   *)
(* end state is never left and discovery does not revive it: the item of an *)
(* open row has no end state, whatever evidence a slow cycle writes it from, *)
(* and that of a confirmed row is not COMPLETED before it is projected.  It  *)
(* may be FAILED_CLOSED, see ConfirmedProjected.                            *)
OpenRowsReachable ==
    \A i \in Items :
        /\ Live(i[1], i[2]) => work[i] \notin {"COMPLETED", "FAILED_CLOSED"}
        /\ Unprojected(i[1], i[2]) => work[i] # "COMPLETED"

(* An item ends once: a cycle that lost its lease and comes back late does *)
(* not reopen, complete or fail what another one finished.                 *)
WorkEndsOnce ==
    [][\A i \in Items : work[i] \in {"COMPLETED", "FAILED_CLOSED"} => work'[i] = work[i]]_allVars

(* A row whose nonce is used up does not stay open as long as the worker   *)
(* keeps running, although the executor that wrote it may be dead, cycles  *)
(* abort and leases run out.                                               *)
ConsumedRowSettles ==
    \A s \in Stages, a \in Attempts :
        Live(s, a) /\ journal[s][a].hash.nonce < latest ~> ~Live(s, a)

(* A confirmed stage is projected in the end without its executor, unless  *)
(* its item was closed on evidence from before the receipt: a cycle that   *)
(* found neither receipt nor transaction and then the nonce used closes the *)
(* item as failed, although the journal has kept the row CONFIRMED that    *)
(* another process settled meanwhile, and nothing opens the item again.    *)
ConfirmedProjected ==
    \A s \in BatchStages, a \in Attempts :
        journal[s][a].status = "CONFIRMED"
            ~> projection[s] = "DONE" \/ work[<<s, a>>] = "FAILED_CLOSED"
=============================================================================
