--------------------------- MODULE EconomicWorkProofs ---------------------------
(***************************************************************************)
(* Theorems about the work queue, for any number of cycles under the one   *)
(* owner name, of executors, stages and attempts: the queue adds nothing   *)
(* to what the journal may do, an item ends once, not while its row is     *)
(* open, and as COMPLETED not before its row is projected.                 *)
(***************************************************************************)
EXTENDS EconomicWork, DurableTransactionProofs

(* What the variables of the queue alone look like.                        *)
QueueTyped ==
    /\ work \in [Items -> WorkStatuses]
    /\ projection \in [Stages -> {"NONE", "PROJECTED", "DONE"}]
    /\ cycle \in [Reconcilers -> [phase : Phases, todo : SUBSET Items, cur : Items \cup {NULL}]]
    /\ inline \in [Executors -> Stages \cup {NULL}]

LEMMA ItemParts ==
    ASSUME NEW i \in Items
    PROVE  i[1] \in Stages /\ i[2] \in Attempts /\ i = <<i[1], i[2]>>
  BY DEF Items
-----------------------------------------------------------------------------
(* Every step is a step of DurableTransaction or leaves the journal alone. *)
LEMMA ExecutorImplements ==
    ASSUME NEW p \in Executors, WorkExecutorStep(p)
    PROVE  [Next]_vars
  <1>1. p \in Procs
    BY DEF Procs
  <1>2. CASE JournalStep(p)
    BY <1>1, <1>2 DEF JournalStep, Next, ExecutorStep
  <1>3. CASE HandoffRecovery(p)
    <2>1. Classify(p)
      BY <1>3 DEF HandoffRecovery, Classify
    <2> QED  BY <2>1 DEF Next, ExecutorStep
  <1>4. CASE SubmitReturns(p)
    <2>1. ReceiptSuccess(p)
      BY <1>4 DEF SubmitReturns
    <2> QED  BY <2>1 DEF Next, ExecutorStep
  <1>5. CASE (\E s \in Stages : ReuseReceipt(p, s)) \/ InlineHandoff(p) \/ InlineProject(p)
             \/ InlineEnds(p)
    BY <1>5 DEF ReuseReceipt, InlineHandoff, InlineProject, InlineEnds
  <1> QED  BY <1>2, <1>3, <1>4, <1>5 DEF WorkExecutorStep

LEMMA CycleImplements ==
    ASSUME NEW r \in Reconcilers, CycleStep(r) \/ AbortCycle(r)
    PROVE  [Next]_vars
  <1>1. r \in Procs
    BY DEF Procs
  <1>2. ASSUME NEW i \in Items, TakeItem(r, i) PROVE [Next]_vars
    BY <1>2, ItemParts DEF TakeItem, Next, ReconcilerStep
  <1>3. CASE Probe(r)
    BY <1>1, <1>3 DEF Probe, Next
  <1>4. CASE SettleEvidence(r)
    BY <1>4 DEF SettleEvidence, Next, ReconcilerStep
  <1>5. CASE AbortCycle(r)
    BY <1>1, <1>5 DEF AbortCycle, Next
  <1>6. CASE \/ Discover(r) \/ EndCycle(r) \/ (\E D \in SUBSET Items : LeaseDue(r, D))
             \/ Finalize(r) \/ FinalizeFails(r) \/ CompleteItem(r) \/ FailItem(r)
             \/ RetryItem(r) \/ WriteFails(r)
    BY <1>6 DEF Discover, EndCycle, LeaseDue, Finalize, FinalizeFails, CompleteItem, FailItem,
       RetryItem, WriteFails
  <1> QED  BY <1>2, <1>3, <1>4, <1>5, <1>6 DEF CycleStep

LEMMA StepImplements ==
    ASSUME [WorkNext]_allVars
    PROVE  [Next]_vars
  <1>1. ASSUME NEW i \in Items, ExpireLease(i) PROVE [Next]_vars
    BY <1>1 DEF ExpireLease
  <1>2. CASE ExpireNonceMutex \/ (ChainStep /\ UNCHANGED <<journal, mutex, pc, job, workVars>>)
    BY <1>2 DEF Next
  <1>3. CASE UNCHANGED allVars
    BY <1>3 DEF allVars
  <1> QED  BY <1>1, <1>2, <1>3, ExecutorImplements, CycleImplements DEF WorkNext

(* The queue has no authority of its own: whatever cycles, lost leases,    *)
(* aborted writes and inline projections do, the journal takes the steps   *)
(* it takes without a queue, so that its theorems hold here too.           *)
THEOREM QueueKeepsToJournal == WorkSpec => ImplementsJournal
  <1>1. WorkInit => Init
    BY DEF WorkInit
  <1>2. [WorkNext]_allVars => [Next]_vars
    BY StepImplements
  <1> QED  BY <1>1, <1>2, PTL DEF WorkSpec, ImplementsJournal, Spec
-----------------------------------------------------------------------------
(* How one item may change, and through whom.                              *)
WrittenBy(r, i) ==
    /\ cycle[r].cur = i
    /\ Leased(i)
    /\ \/ At(r, "done") /\ work'[i] = "COMPLETED"
       \/ At(r, "failed") /\ work'[i] = "FAILED_CLOSED"
       \/ At(r, "retry") /\ work'[i] = "PENDING"

WorkMove(i) ==
    \/ work'[i] = work[i]
    \/ work[i] = "NONE" /\ work'[i] = "PENDING" /\ Present(i[1], i[2])
    \/ work[i] \in {"PENDING", "EXPIRED"} /\ work'[i] = "LEASED"
    \/ work[i] = "LEASED" /\ work'[i] = "EXPIRED"
    \/ \E r \in Reconcilers : WrittenBy(r, i)

(* A cycle between two of its steps: whose row it works for, and that the  *)
(* item it holds has been made.                                            *)
Holding == {"probe", "finalize", "done", "retry", "failed"}

Worker(r) ==
    /\ \A i \in cycle[r].todo : work[i] # "NONE"
    /\ cycle[r].phase \in Holding => cycle[r].cur \in Items /\ work[cycle[r].cur] # "NONE"
    /\ At(r, "probe") => /\ pc[r] \in {"probe", "count", "record"}
                         /\ Handles(r, cycle[r].cur[1], cycle[r].cur[2])
    /\ ~At(r, "probe") => pc[r] = "idle"
    /\ At(r, "finalize") => ~Live(cycle[r].cur[1], cycle[r].cur[2])

ItemsHaveRows == \A i \in Items : work[i] # "NONE" => Present(i[1], i[2])

QueueInv == QueueTyped /\ ItemsHaveRows /\ \A r \in Reconcilers : Worker(r)

(* An item ends, and a cycle is about to end it, only when its row is not  *)
(* open, and with success only when it needs nothing any more.             *)
MayEnd(i, end) ==
    /\ end \in {"done", "COMPLETED"} => ~Candidate(i)
    /\ end \in {"failed", "FAILED_CLOSED"} => ~Live(i[1], i[2])

ReachInv ==
    /\ \A i \in Items : MayEnd(i, work[i])
    /\ \A r \in Reconcilers : MayEnd(cycle[r].cur, cycle[r].phase)

LEMMA EnsuredTyped ==
    ASSUME QueueTyped, NEW D
    PROVE  Ensured(D) \in [Items -> WorkStatuses]
  BY DEF QueueTyped, Ensured, WorkStatuses

LEMMA AdvancedTyped ==
    ASSUME QueueTyped, NEW s \in Stages
    PROVE  /\ Advanced(s) \in [Stages -> {"NONE", "PROJECTED", "DONE"}]
           /\ \A t \in Stages : projection[t] = "DONE" => Advanced(s)[t] = "DONE"
  BY DEF QueueTyped, Advanced, Deposited

LEMMA NoCycleTyped ==
    NoCycle \in [phase : Phases, todo : SUBSET Items, cur : Items \cup {NULL}]
  BY DEF NoCycle, Phases

LEMMA EnterTyped ==
    ASSUME QueueTyped, NEW r \in Reconcilers, NEW phase \in Phases, Enter(r, phase)
    PROVE  cycle' \in [Reconcilers -> [phase : Phases, todo : SUBSET Items, cur : Items \cup {NULL}]]
  BY DEF QueueTyped, Enter

LEMMA NextItemTyped ==
    ASSUME QueueTyped, NEW r \in Reconcilers, NextItem(r)
    PROVE  cycle' \in [Reconcilers -> [phase : Phases, todo : SUBSET Items, cur : Items \cup {NULL}]]
  <1> DEFINE c == [cycle[r] EXCEPT !.phase = "work", !.todo = @ \ {cycle[r].cur}, !.cur = NULL]
  <1>1. c \in [phase : Phases, todo : SUBSET Items, cur : Items \cup {NULL}]
    BY DEF QueueTyped, Phases
  <1>2. cycle' = [cycle EXCEPT ![r] = c]
    BY DEF NextItem, QueueTyped
  <1> QED  BY <1>1, <1>2 DEF QueueTyped

LEMMA ExecutorQueueTyped ==
    ASSUME TypeInv, QueueTyped, NEW p \in Executors, WorkExecutorStep(p)
    PROVE  QueueTyped'
  <1>1. CASE JournalStep(p)
    BY <1>1 DEF JournalStep, workVars, QueueTyped
  <1>2. CASE HandoffRecovery(p)
    BY <1>2, EnsuredTyped DEF HandoffRecovery, QueueTyped
  <1>3. CASE SubmitReturns(p)
    <2>1. job[p].stage \in Stages
      BY <1>3 DEF SubmitReturns, ReceiptSuccess, TypeInv, ProcsOK, Procs
    <2> QED  BY <1>3, <2>1 DEF SubmitReturns, QueueTyped
  <1>4. ASSUME NEW s \in Stages, ReuseReceipt(p, s) PROVE QueueTyped'
    BY <1>4 DEF ReuseReceipt, QueueTyped
  <1>5. CASE InlineHandoff(p)
    BY <1>5, EnsuredTyped DEF InlineHandoff, QueueTyped
  <1>6. CASE InlineProject(p)
    <2>1. inline[p] \in Stages /\ projection' = Advanced(inline[p])
          /\ UNCHANGED <<work, cycle, inline>>
      BY <1>6 DEF InlineProject, QueueTyped
    <2> QED  BY <2>1, AdvancedTyped DEF QueueTyped
  <1>7. CASE InlineEnds(p)
    BY <1>7 DEF InlineEnds, QueueTyped
  <1> QED  BY <1>1, <1>2, <1>3, <1>4, <1>5, <1>6, <1>7 DEF WorkExecutorStep

LEMMA CycleQueueTyped ==
    ASSUME QueueTyped, NEW r \in Reconcilers, Worker(r), CycleStep(r) \/ AbortCycle(r)
    PROVE  QueueTyped'
  <1>1. CASE Discover(r)
    <2>1. PICK D : work' = Ensured(D) /\ (Enter(r, "lease") \/ UNCHANGED cycle)
      BY <1>1 DEF Discover
    <2>2. "lease" \in Phases /\ UNCHANGED <<projection, inline>>
      BY <1>1 DEF Discover, Phases
    <2> QED  BY <2>1, <2>2, EnsuredTyped, EnterTyped DEF QueueTyped
  <1>2. ASSUME NEW D \in SUBSET Items, LeaseDue(r, D) PROVE QueueTyped'
    <2> DEFINE c == [phase |-> "work", todo |-> D, cur |-> NULL]
    <2>1. c \in [phase : Phases, todo : SUBSET Items, cur : Items \cup {NULL}]
      BY DEF Phases
    <2>2. /\ work' = [i \in Items |-> IF i \in D THEN "LEASED" ELSE work[i]]
          /\ cycle' = [cycle EXCEPT ![r] = c] /\ UNCHANGED <<projection, inline>>
      BY <1>2 DEF LeaseDue
    <2>3. work' \in [Items -> WorkStatuses]
      BY <2>2 DEF QueueTyped, WorkStatuses
    <2> HIDE DEF c
    <2> QED  BY <2>1, <2>2, <2>3 DEF QueueTyped
  <1>3. CASE EndCycle(r) \/ AbortCycle(r)
    BY <1>3, NoCycleTyped DEF EndCycle, AbortCycle, QueueTyped
  <1>4. ASSUME NEW i \in Items, TakeItem(r, i) PROVE QueueTyped'
    <2>1. PICK phase \in {"probe", "finalize", "done"} :
            cycle' = [cycle EXCEPT ![r].phase = phase, ![r].cur = i]
      BY <1>4 DEF TakeItem
    <2> DEFINE c == [cycle[r] EXCEPT !.phase = phase, !.cur = i]
    <2>2. c \in [phase : Phases, todo : SUBSET Items, cur : Items \cup {NULL}]
      BY DEF QueueTyped, Phases
    <2>3. cycle' = [cycle EXCEPT ![r] = c] /\ UNCHANGED <<work, projection, inline>>
      BY <1>4, <2>1 DEF TakeItem, QueueTyped
    <2> HIDE DEF c
    <2> QED  BY <2>2, <2>3 DEF QueueTyped
  <1>5. CASE Probe(r)
    BY <1>5 DEF Probe, workVars, QueueTyped
  <1>6. CASE SettleEvidence(r)
    <2>1. \A s, e : Outcome(s, e) \in Phases /\ "retry" \in Phases
      BY DEF Outcome, Phases
    <2> QED  BY <1>6, <2>1, EnterTyped DEF SettleEvidence, QueueTyped
  <1>7. CASE Finalize(r)
    <2>1. cycle[r].cur \in Items
      BY <1>7 DEF Worker, Finalize, At, Holding
    <2>2. cycle[r].cur[1] \in Stages /\ "done" \in Phases
      BY <2>1, ItemParts DEF Phases
    <2> QED  BY <1>7, <2>2, EnterTyped, AdvancedTyped DEF Finalize, QueueTyped
  <1>8. CASE FinalizeFails(r) \/ WriteFails(r)
    <2>1. "retry" \in Phases
      BY DEF Phases
    <2> QED  BY <1>8, <2>1, EnterTyped DEF FinalizeFails, WriteFails, QueueTyped
  <1>9. CASE CompleteItem(r) \/ FailItem(r) \/ RetryItem(r)
    BY <1>9, NextItemTyped DEF CompleteItem, FailItem, RetryItem, Written, WorkStatuses, QueueTyped
  <1> QED  BY <1>1, <1>2, <1>3, <1>4, <1>5, <1>6, <1>7, <1>8, <1>9 DEF CycleStep

LEMMA QueueTypedStep ==
    ASSUME TypeInv, QueueInv, [WorkNext]_allVars
    PROVE  QueueTyped'
  <1>1. ASSUME NEW i \in Items, ExpireLease(i) PROVE QueueTyped'
    BY <1>1 DEF ExpireLease, QueueTyped, QueueInv, WorkStatuses
  <1>2. CASE UNCHANGED workVars
    BY <1>2 DEF workVars, QueueTyped, QueueInv
  <1> QED
    BY <1>1, <1>2, ExecutorQueueTyped, CycleQueueTyped DEF WorkNext, allVars, workVars, QueueInv
-----------------------------------------------------------------------------
LEMMA EnsuredMoves ==
    ASSUME QueueTyped, NEW D, work' = Ensured(D),
           \A i \in Items : i \in D => Present(i[1], i[2]), NEW i \in Items
    PROVE  WorkMove(i)
  BY DEF Ensured, WorkMove

LEMMA WorkMoves ==
    ASSUME TypeInv, \A p \in Procs : JobInv(p), QueueInv, [WorkNext]_allVars, NEW i \in Items
    PROVE  WorkMove(i)
  <1> USE DEF QueueInv
  <1>1. CASE UNCHANGED work
    BY <1>1 DEF WorkMove
  <1>2. ASSUME NEW p \in Executors, WorkExecutorStep(p) PROVE WorkMove(i)
    <2>1. CASE HandoffRecovery(p)
      <3>1. Present(job[p].stage, job[p].row)
        BY <2>1 DEF HandoffRecovery, JobInv, Bound, RowLabels, HoldsRow, Procs
      <3>2. \A j \in Items : j \in {<<job[p].stage, job[p].row>>} => Present(j[1], j[2])
        BY <3>1
      <3> QED  BY <1>1, <2>1, <3>2, EnsuredMoves DEF HandoffRecovery
    <2>2. CASE InlineHandoff(p)
      <3>1. PICK s, a : IsLatest(s, a) /\ work' = Ensured({<<s, a>>})
        BY <2>2 DEF InlineHandoff
      <3>2. \A j \in Items : j \in {<<s, a>>} => Present(j[1], j[2])
        BY <3>1 DEF IsLatest
      <3> QED  BY <3>1, <3>2, EnsuredMoves
    <2>3. CASE ~HandoffRecovery(p) /\ ~InlineHandoff(p)
      BY <1>1, <1>2, <2>3 DEF WorkExecutorStep, JournalStep, SubmitReturns, ReuseReceipt,
         InlineProject, InlineEnds, workVars
    <2> QED  BY <2>1, <2>2, <2>3
  <1>3. ASSUME NEW r \in Reconcilers, CycleStep(r) \/ AbortCycle(r) PROVE WorkMove(i)
    <2>1. CASE Discover(r)
      <3>1. PICK D \in SUBSET Undiscovered : work' = Ensured(D)
        BY <2>1 DEF Discover
      <3>2. \A j \in Items : j \in D => Present(j[1], j[2])
        BY <3>1 DEF Undiscovered, Candidate, Live, Unprojected, Present
      <3> QED  BY <3>1, <3>2, EnsuredMoves
    <2>2. ASSUME NEW D \in SUBSET Items, LeaseDue(r, D) PROVE WorkMove(i)
      BY <2>2 DEF LeaseDue, WorkMove
    <2>3. CASE CompleteItem(r) \/ FailItem(r) \/ RetryItem(r)
      <3>1. CASE cycle[r].cur = i /\ Leased(i)
        <4>1. WrittenBy(r, i)
          BY <2>3, <3>1 DEF CompleteItem, FailItem, RetryItem, Written, WrittenBy, QueueTyped
        <4> QED  BY <4>1 DEF WorkMove
      <3>2. CASE ~(cycle[r].cur = i /\ Leased(i))
        <4>1. work'[i] = work[i]
          BY <2>3, <3>2 DEF CompleteItem, FailItem, RetryItem, Written, QueueTyped
        <4> QED  BY <4>1 DEF WorkMove
      <3> QED  BY <3>1, <3>2
    <2>4. CASE ~(\/ Discover(r) \/ (\E D \in SUBSET Items : LeaseDue(r, D))
                 \/ CompleteItem(r) \/ FailItem(r) \/ RetryItem(r))
      BY <1>1, <1>3, <2>4 DEF CycleStep, AbortCycle, EndCycle, TakeItem, Probe, SettleEvidence,
         Finalize, FinalizeFails, WriteFails, workVars
    <2> QED  BY <2>1, <2>2, <2>3, <2>4
  <1>4. ASSUME NEW j \in Items, ExpireLease(j) PROVE WorkMove(i)
    BY <1>4 DEF ExpireLease, WorkMove, QueueTyped
  <1> QED  BY <1>1, <1>2, <1>3, <1>4 DEF WorkNext, allVars, workVars
-----------------------------------------------------------------------------
(* QueueInv is inductive.                                                  *)
LEMMA OverStays ==
    ASSUME TypeInv, [Next]_vars, NEW s \in Stages, NEW a \in Attempts, Present(s, a), ~Live(s, a)
    PROVE  journal'[s][a] = journal[s][a]
  <1>1. RowStep(s, a)
    BY NextStep DEF StepOK, JournalMove
  <1> QED  BY <1>1 DEF RowStep

LEMMA ReconciledOver ==
    ASSUME TypeInv, NEW s \in Stages, NEW a \in Attempts, NEW e, journal' = Reconciled(s, a, e)
    PROVE  ~Live(s, a)'
  <1>1. CASE ~Live(s, a)
    BY <1>1 DEF Reconciled, Live
  <1>2. CASE Live(s, a)
    <2>1. PICK status \in {"CONFIRMED", "FAILED"}, reason \in Reasons :
            journal' = SetStatus(s, a, status, reason)
      BY <1>2 DEF Reconciled, Reasons
    <2> QED  BY <2>1 DEF SetStatus, Live, TypeInv, TypeOK
  <1> QED  BY <1>1, <1>2

LEMMA ItemsKeepRows ==
    ASSUME TypeInv, \A p \in Procs : JobInv(p), QueueInv, [WorkNext]_allVars
    PROVE  ItemsHaveRows'
  <1> SUFFICES ASSUME NEW i \in Items, work'[i] # "NONE" PROVE Present(i[1], i[2])'
    BY DEF ItemsHaveRows, Present
  <1>1. JournalMove /\ i[1] \in Stages /\ i[2] \in Attempts
    BY StepImplements, NextStep, ItemParts DEF StepOK
  <1>2. WorkMove(i)
    BY WorkMoves
  <1>3. Present(i[1], i[2])
    BY <1>2 DEF WorkMove, WrittenBy, Leased, QueueInv, ItemsHaveRows
  <1> QED  BY <1>1, <1>3, RowStays

(* A cycle keeps its place when another process steps.                     *)
Aside(r) == cycle'[r] = cycle[r] /\ pc'[r] = pc[r] /\ job'[r] = job[r]

LEMMA ExecutorLeavesCycles ==
    ASSUME TypeInv, NEW p \in Executors, WorkExecutorStep(p), NEW r \in Reconcilers
    PROVE  Aside(r)
  <1>1. p \in Procs /\ r \in Procs /\ r # p
    BY ProcessesAssumption DEF Procs
  <1>2. UNCHANGED cycle
    BY DEF WorkExecutorStep, JournalStep, HandoffRecovery, SubmitReturns, ReuseReceipt,
       InlineHandoff, InlineProject, InlineEnds, workVars
  <1>3. ExecutorStep(p) \/ ProbeStep(p) \/ Crash(p) \/ UNCHANGED <<pc, job>>
    <2>1. HandoffRecovery(p) => Classify(p)
      BY DEF HandoffRecovery, Classify
    <2> QED
      BY <2>1 DEF WorkExecutorStep, JournalStep, SubmitReturns, ReuseReceipt,
         InlineHandoff, InlineProject, InlineEnds, ExecutorStep, vars
  <1>4. CASE UNCHANGED <<pc, job>>
    BY <1>2, <1>4 DEF Aside
  <1>5. CASE ExecutorStep(p) \/ ProbeStep(p) \/ Crash(p)
    <2>1. ActsAt(p)
      BY <1>1, <1>5, ActsAtStep
    <2> QED  BY <1>1, <1>2, <2>1 DEF ActsAt, Aside
  <1> QED  BY <1>3, <1>4, <1>5

LEMMA CycleLeavesCycles ==
    ASSUME TypeInv, QueueTyped, NEW q \in Reconcilers, CycleStep(q) \/ AbortCycle(q),
           NEW r \in Reconcilers, r # q
    PROVE  Aside(r)
  <1>1. q \in Procs /\ r \in Procs
    BY DEF Procs
  <1>2. cycle'[r] = cycle[r]
    BY DEF CycleStep, AbortCycle, Discover, EndCycle, LeaseDue, TakeItem, Probe, SettleEvidence,
       Finalize, FinalizeFails, CompleteItem, FailItem, RetryItem, WriteFails, Enter, NextItem,
       QueueTyped, workVars
  <1>3. ReconcilerStep(q) \/ ProbeStep(q) \/ Crash(q) \/ UNCHANGED <<pc, job>>
    <2>1. ASSUME NEW i \in Items, TakeItem(q, i) PROVE ReconcilerStep(q) \/ UNCHANGED <<pc, job>>
      BY <2>1, ItemParts DEF TakeItem, ReconcilerStep, vars
    <2> QED
      BY <2>1 DEF CycleStep, AbortCycle, Discover, EndCycle, LeaseDue, Probe, SettleEvidence,
         Finalize, FinalizeFails, CompleteItem, FailItem, RetryItem, WriteFails, ReconcilerStep, vars
  <1>4. CASE UNCHANGED <<pc, job>>
    BY <1>2, <1>4 DEF Aside
  <1>5. CASE ReconcilerStep(q) \/ ProbeStep(q) \/ Crash(q)
    <2>1. ActsAt(q)
      BY <1>1, <1>5, ActsAtStep
    <2> QED  BY <1>1, <1>2, <2>1 DEF ActsAt, Aside
  <1> QED  BY <1>3, <1>4, <1>5

LEMMA AsideKeeps ==
    ASSUME TypeInv, QueueInv, [WorkNext]_allVars, NEW r \in Reconcilers, Aside(r),
           \A i \in Items : work[i] # "NONE" => work'[i] # "NONE"
    PROVE  Worker(r)'
  <1>1. Worker(r) /\ cycle[r].todo \subseteq Items
    BY DEF QueueInv, QueueTyped
  <1>2. ASSUME At(r, "finalize") PROVE ~Live(cycle[r].cur[1], cycle[r].cur[2])'
    <2>1. PICK i \in Items : i = cycle[r].cur /\ Present(i[1], i[2]) /\ ~Live(i[1], i[2])
      BY <1>1, <1>2 DEF Worker, At, Holding, QueueInv, ItemsHaveRows
    <2>2. journal'[i[1]][i[2]] = journal[i[1]][i[2]]
      BY <2>1, StepImplements, OverStays, ItemParts
    <2> QED  BY <2>1, <2>2 DEF Live, Aside
  <1> QED  BY <1>1, <1>2 DEF Worker, Aside, At, Handles, Live

(* The cycle's own steps.                                                  *)
LEMMA WorkerOwn ==
    ASSUME TypeInv, QueueInv, [WorkNext]_allVars, NEW r \in Reconcilers,
           CycleStep(r) \/ AbortCycle(r),
           \A i \in Items : work[i] # "NONE" => work'[i] # "NONE"
    PROVE  Worker(r)'
  <1>1. /\ Worker(r) /\ r \in Procs /\ r \notin Executors
        /\ pc \in [Procs -> Labels] /\ job \in [Procs -> Jobs]
        /\ cycle[r].todo \subseteq Items /\ cycle[r] \in [phase : Phases, todo : SUBSET Items,
                                                            cur : Items \cup {NULL}]
        /\ cycle \in [Reconcilers -> [phase : Phases, todo : SUBSET Items, cur : Items \cup {NULL}]]
    BY ProcessesAssumption DEF QueueInv, QueueTyped, Procs, TypeInv, ProcsOK
  <1>2. ASSUME NEW phase \in {"lease", "retry", "done", "failed"}, Enter(r, phase),
               phase \in Holding => cycle[r].phase \in Holding, pc'[r] = "idle"
        PROVE  Worker(r)'
    <2>1. /\ cycle'[r].phase = phase /\ cycle'[r].todo = cycle[r].todo
          /\ cycle'[r].cur = cycle[r].cur
      BY <1>1, <1>2 DEF Enter
    <2> QED  BY <1>1, <1>2, <2>1 DEF Worker, At, Holding
  <1>3. ASSUME NextItem(r), pc'[r] = "idle" PROVE Worker(r)'
    <2>1. cycle'[r].phase = "work" /\ cycle'[r].todo \subseteq cycle[r].todo
      BY <1>1, <1>3 DEF NextItem
    <2> QED  BY <1>1, <1>3, <2>1 DEF Worker, At, Holding
  <1>4. ASSUME ~At(r, "probe"), UNCHANGED pc PROVE pc'[r] = "idle"
    BY <1>1, <1>4 DEF Worker
  <1>5. CASE Discover(r)
    <2>1. UNCHANGED vars /\ ~At(r, "probe") /\ At(r, "idle")
      BY <1>5 DEF Discover, At
    <2>2. CASE UNCHANGED cycle
      <3>1. Aside(r)
        BY <2>1, <2>2 DEF Aside, vars
      <3> QED  BY <3>1, AsideKeeps
    <2>3. CASE Enter(r, "lease")
      BY <1>2, <1>4, <2>1, <2>3 DEF vars, Holding
    <2> QED  BY <1>5, <2>2, <2>3 DEF Discover
  <1>6. ASSUME NEW D \in SUBSET Items, LeaseDue(r, D) PROVE Worker(r)'
    <2>1. /\ cycle'[r].phase = "work" /\ cycle'[r].todo = D /\ pc'[r] = "idle"
          /\ \A i \in D : work[i] # "NONE"
      BY <1>1, <1>4, <1>6 DEF LeaseDue, At, vars
    <2> QED  BY <2>1 DEF Worker, At, Holding
  <1>7. CASE EndCycle(r) \/ AbortCycle(r)
    <2>1. cycle'[r].phase = "idle" /\ cycle'[r].todo = {}
      BY <1>1, <1>7 DEF EndCycle, AbortCycle, NoCycle
    <2>2. pc'[r] = "idle"
      <3>1. CASE EndCycle(r)
        BY <1>4, <3>1 DEF EndCycle, At, vars
      <3>2. CASE AbortCycle(r)
        BY <1>1, <3>2 DEF AbortCycle, Crash, Return, Goto, vars
      <3> QED  BY <1>7, <3>1, <3>2
    <2> QED  BY <2>1, <2>2 DEF Worker, At, Holding
  <1>8. ASSUME NEW i \in Items, TakeItem(r, i) PROVE Worker(r)'
    <2>1. PICK phase \in {"probe", "finalize", "done"} :
            /\ cycle' = [cycle EXCEPT ![r].phase = phase, ![r].cur = i]
            /\ \/ phase = "probe" /\ PickCandidate(r, i[1], i[2])
               \/ phase = "finalize" /\ Unprojected(i[1], i[2]) /\ UNCHANGED vars
               \/ phase = "done" /\ UNCHANGED vars
      BY <1>8 DEF TakeItem
    <2>2. /\ cycle'[r].phase = phase /\ cycle'[r].todo = cycle[r].todo /\ cycle'[r].cur = i
          /\ ~At(r, "probe") /\ work[i] # "NONE"
      BY <1>1, <1>8, <2>1 DEF TakeItem, At, Worker
    <2>3. work'[i] # "NONE" /\ \A j \in cycle'[r].todo : work'[j] # "NONE"
      BY <1>1, <2>2 DEF Worker
    <2>4. CASE phase = "probe" /\ PickCandidate(r, i[1], i[2])
      <3>1. pc'[r] = "probe" /\ job'[r] = [NewJob(i[1], i[2]) EXCEPT !.hash = journal[i[1]][i[2]].hash]
        BY <1>1, <2>4 DEF PickCandidate, Goto
      <3>2. job'[r].stage = i[1] /\ job'[r].row = i[2]
        BY <3>1 DEF NewJob
      <3> QED  BY <2>2, <2>3, <2>4, <3>1, <3>2 DEF Worker, At, Holding, Handles
    <2>5. CASE phase \in {"finalize", "done"} /\ UNCHANGED vars
      <3>1. pc'[r] = "idle" /\ UNCHANGED journal
        BY <1>4, <2>2, <2>5 DEF vars
      <3>2. phase = "finalize" => ~Live(i[1], i[2])
        BY <2>1 DEF Unprojected, Live
      <3> QED  BY <2>2, <2>3, <2>5, <3>1, <3>2 DEF Worker, At, Holding, Live
    <2> QED  BY <2>1, <2>4, <2>5
  <1>9. CASE Probe(r)
    <2>1. /\ pc[r] \in {"probe", "count"} /\ UNCHANGED <<journal, work, cycle>>
          /\ Goto(r, "count") \/ Goto(r, AfterProbe(r))
          /\ UNCHANGED job \/ \E e : See(r, e)
      BY <1>9 DEF Probe, ProbeStep, ProbeConclusive, CountNonces, ProbeInconclusive, workVars
    <2>2. /\ pc'[r] \in {"count", "record"} /\ At(r, "probe")
          /\ job'[r].stage = job[r].stage /\ job'[r].row = job[r].row
      BY <1>1, <2>1 DEF Goto, AfterProbe, See, Jobs, Worker
    <2> QED  BY <1>1, <2>1, <2>2 DEF Worker, At, Handles, Holding
  <1>10. CASE SettleEvidence(r)
    <2>1. pc[r] = "record" /\ Return(r) /\ At(r, "probe")
      BY <1>1, <1>10 DEF SettleEvidence, RecordEvidence, RecordBusy, Worker
    <2>2. pc'[r] = "idle"
      BY <1>1, <2>1 DEF Return, Goto
    <2>3. \/ \E phase \in {"retry", "done", "failed"} : Enter(r, phase)
          \/ Enter(r, "finalize") /\ RecordEvidence(r) /\ job[r].seen = "RECEIPT_SUCCESS"
      BY <1>10 DEF SettleEvidence, Outcome
    <2>4. cycle[r].phase \in Holding
      BY <2>1 DEF At, Holding
    <2>5. CASE Enter(r, "finalize") /\ RecordEvidence(r) /\ job[r].seen = "RECEIPT_SUCCESS"
      <3>1. /\ cycle'[r].phase = "finalize" /\ cycle'[r].todo = cycle[r].todo
            /\ cycle'[r].cur = cycle[r].cur
        BY <1>1, <2>5 DEF Enter
      <3>2. PICK s \in Stages, a \in Attempts :
              s = cycle[r].cur[1] /\ a = cycle[r].cur[2] /\ s = job[r].stage /\ a = job[r].row
        BY <1>1, <2>1 DEF Worker, Handles, TypeInv, ProcsOK, Jobs
      <3>3. ~Live(s, a)'
        BY <2>5, <3>2, ReconciledOver DEF RecordEvidence
      <3>4. journal'[s][a].status \notin {"PREPARED", "SUBMITTED"}
        BY <3>3 DEF Live
      <3>5. ~(journal'[cycle'[r].cur[1]][cycle'[r].cur[2]].status \in {"PREPARED", "SUBMITTED"})
        BY <3>1, <3>2, <3>4
      <3> QED  BY <1>1, <2>2, <2>4, <3>1, <3>5 DEF Worker, At, Holding, Live
    <2>6. CASE \E phase \in {"retry", "done", "failed"} : Enter(r, phase)
      BY <1>2, <2>2, <2>4, <2>6
    <2> QED  BY <2>3, <2>5, <2>6
  <1>11. CASE Finalize(r)
    <2>1. UNCHANGED vars /\ At(r, "finalize") /\ ~At(r, "probe")
      BY <1>11 DEF Finalize, At
    <2>2. CASE UNCHANGED cycle
      <3>1. Aside(r)
        BY <2>1, <2>2 DEF Aside, vars
      <3> QED  BY <3>1, AsideKeeps
    <2>3. CASE Enter(r, "done")
      BY <1>2, <1>4, <2>1, <2>3 DEF vars, At, Holding
    <2> QED  BY <1>11, <2>2, <2>3 DEF Finalize
  <1>12. CASE FinalizeFails(r) \/ WriteFails(r)
    <2>1. Enter(r, "retry") /\ UNCHANGED pc /\ cycle[r].phase \in Holding /\ ~At(r, "probe")
      BY <1>12 DEF FinalizeFails, WriteFails, At, Holding, vars
    <2> QED  BY <1>2, <1>4, <2>1
  <1>13. CASE CompleteItem(r) \/ FailItem(r) \/ RetryItem(r)
    <2>1. NextItem(r) /\ UNCHANGED pc /\ ~At(r, "probe")
      BY <1>13 DEF CompleteItem, FailItem, RetryItem, At, vars
    <2> QED  BY <1>3, <1>4, <2>1
  <1> QED  BY <1>5, <1>6, <1>7, <1>8, <1>9, <1>10, <1>11, <1>12, <1>13 DEF CycleStep

LEMMA MadeStays ==
    ASSUME TypeInv, \A p \in Procs : JobInv(p), QueueInv, [WorkNext]_allVars,
           NEW i \in Items, work[i] # "NONE"
    PROVE  work'[i] # "NONE"
  BY WorkMoves DEF WorkMove, WrittenBy

(* A step is the cycle's own or leaves it where it is.                     *)
LEMMA OwnOrAside ==
    ASSUME TypeInv, QueueInv, [WorkNext]_allVars, NEW r \in Reconcilers
    PROVE  CycleStep(r) \/ AbortCycle(r) \/ Aside(r)
  <1>1. CASE UNCHANGED <<cycle, pc, job>>
    BY <1>1 DEF Aside
  <1>2. ASSUME NEW p \in Executors, WorkExecutorStep(p) PROVE Aside(r)
    BY <1>2, ExecutorLeavesCycles
  <1>3. ASSUME NEW q \in Reconcilers, CycleStep(q) \/ AbortCycle(q)
        PROVE  CycleStep(r) \/ AbortCycle(r) \/ Aside(r)
    BY <1>3, CycleLeavesCycles DEF QueueInv
  <1>4. ASSUME NEW i \in Items, ExpireLease(i) PROVE Aside(r)
    BY <1>4 DEF ExpireLease, vars, Aside
  <1>5. CASE \/ ExpireNonceMutex /\ UNCHANGED workVars
             \/ ChainStep /\ UNCHANGED <<journal, mutex, pc, job, workVars>>
             \/ UNCHANGED allVars
    BY <1>1, <1>5 DEF ExpireNonceMutex, workVars, allVars, vars
  <1> QED  BY <1>2, <1>3, <1>4, <1>5 DEF WorkNext

LEMMA QueueInvStep ==
    ASSUME TypeInv, ConfirmInv, QueueInv, [WorkNext]_allVars
    PROVE  QueueInv'
  <1>1. \A p \in Procs : JobInv(p)
    BY DEF ConfirmInv
  <1>2. \A i \in Items : work[i] # "NONE" => work'[i] # "NONE"
    BY <1>1, MadeStays
  <1>3. ASSUME NEW r \in Reconcilers PROVE Worker(r)'
    BY <1>2, OwnOrAside, WorkerOwn, AsideKeeps
  <1> QED  BY <1>1, <1>3, QueueTypedStep, ItemsKeepRows DEF QueueInv

LEMMA WorkInvariant == WorkSpec => [](TypeInv /\ OrderInv /\ ConfirmInv /\ QueueInv)
  <1>1. WorkInit => ConfirmInv /\ QueueInv
    <2> SUFFICES ASSUME WorkInit PROVE ConfirmInv /\ QueueInv
      OBVIOUS
    <2>1. ConfirmInv
      BY InitConfirmed DEF WorkInit
    <2>2. QueueTyped /\ ItemsHaveRows
      BY NoCycleTyped DEF WorkInit, QueueTyped, ItemsHaveRows, WorkStatuses
    <2>3. ASSUME NEW r \in Reconcilers PROVE Worker(r)
      <3>1. cycle[r].phase = "idle" /\ cycle[r].todo = {} /\ pc[r] = "idle"
        BY DEF WorkInit, NoCycle, Init, Procs
      <3> QED  BY <3>1 DEF Worker, At, Holding
    <2> QED  BY <2>1, <2>2, <2>3 DEF QueueInv
  <1>2. TypeInv /\ OrderInv /\ ConfirmInv /\ QueueInv /\ [WorkNext]_allVars => ConfirmInv' /\ QueueInv'
    BY StepImplements, ConfirmStep, QueueInvStep
  <1> QED
    BY <1>1, <1>2, QueueKeepsToJournal, TypeInvariant, OrderInvariant, PTL
       DEF WorkSpec, ImplementsJournal

(* The variables of the queue and of the journal keep their types: among   *)
(* them that a cycle never works on an item that is not one.               *)
THEOREM WorkTyped == WorkSpec => []WorkTypeOK
  <1>1. TypeInv /\ QueueInv => WorkTypeOK
    BY DEF TypeInv, QueueInv, QueueTyped, WorkTypeOK
  <1> QED  BY <1>1, WorkInvariant, PTL

(* An item that is completed or has failed is never written again, by a    *)
(* cycle that lost its lease, by discovery or by a hand-off: complete, fail *)
(* and retry change a leased item only, and ensuring makes only new ones.  *)
THEOREM ItemsEndOnce == WorkSpec => WorkEndsOnce
  <1> DEFINE Kept == \A i \in Items : work[i] \in {"COMPLETED", "FAILED_CLOSED"} => work'[i] = work[i]
  <1>1. TypeInv /\ ConfirmInv /\ QueueInv /\ [WorkNext]_allVars => [Kept]_allVars
    <2> SUFFICES ASSUME TypeInv, ConfirmInv, QueueInv, [WorkNext]_allVars,
                        NEW i \in Items, work[i] \in {"COMPLETED", "FAILED_CLOSED"}
                 PROVE  work'[i] = work[i]
      OBVIOUS
    <2>1. WorkMove(i)
      BY WorkMoves DEF ConfirmInv
    <2> QED  BY <2>1 DEF WorkMove, WrittenBy, Leased
  <1> QED  BY <1>1, WorkInvariant, PTL DEF WorkSpec, WorkEndsOnce
-----------------------------------------------------------------------------
(* What is over stays over.                                                *)
LEMMA ProjectedStays ==
    ASSUME QueueInv, [WorkNext]_allVars, NEW s \in Stages, projection[s] = "DONE"
    PROVE  projection'[s] = "DONE"
  <1> USE DEF QueueInv
  <1>1. CASE UNCHANGED projection
    BY <1>1
  <1>2. ASSUME NEW p \in Executors, WorkExecutorStep(p) PROVE projection'[s] = "DONE"
    <2>1. CASE InlineProject(p)
      <3>1. inline[p] \in Stages /\ projection' = Advanced(inline[p])
        BY <2>1 DEF InlineProject, QueueTyped
      <3> QED  BY <3>1, AdvancedTyped
    <2> QED
      BY <1>1, <1>2, <2>1 DEF WorkExecutorStep, JournalStep, HandoffRecovery, SubmitReturns,
         ReuseReceipt, InlineHandoff, InlineEnds, workVars
  <1>3. ASSUME NEW r \in Reconcilers, CycleStep(r) \/ AbortCycle(r) PROVE projection'[s] = "DONE"
    <2>1. CASE Finalize(r)
      <3>1. cycle[r].cur \in Items
        BY <2>1 DEF Worker, Finalize, At, Holding
      <3>2. cycle[r].cur[1] \in Stages
        BY <3>1, ItemParts
      <3> QED  BY <1>1, <2>1, <3>2, AdvancedTyped DEF Finalize
    <2> QED
      BY <1>1, <1>3, <2>1 DEF CycleStep, AbortCycle, Discover, EndCycle, LeaseDue, TakeItem, Probe,
         SettleEvidence, FinalizeFails, CompleteItem, FailItem, RetryItem, WriteFails, workVars
  <1>4. ASSUME NEW i \in Items, ExpireLease(i) PROVE projection'[s] = "DONE"
    BY <1>1, <1>4 DEF ExpireLease
  <1> QED  BY <1>1, <1>2, <1>3, <1>4 DEF WorkNext, allVars, workVars

LEMMA SettledStays ==
    ASSUME TypeInv, QueueInv, [WorkNext]_allVars,
           NEW i \in Items, work[i] # "NONE", ~Candidate(i)
    PROVE  ~Candidate(i)'
  <1>1. i[1] \in Stages /\ i[2] \in Attempts /\ Present(i[1], i[2]) /\ ~Live(i[1], i[2])
    BY ItemParts DEF QueueInv, ItemsHaveRows, Candidate
  <1>2. journal'[i[1]][i[2]] = journal[i[1]][i[2]]
    BY <1>1, StepImplements, OverStays
  <1>3. projection[i[1]] = "DONE" => projection'[i[1]] = "DONE"
    BY <1>1, ProjectedStays
  <1> QED  BY <1>1, <1>2, <1>3 DEF Candidate, Live, Unprojected

LEMMA EndStays ==
    ASSUME TypeInv, QueueInv, [WorkNext]_allVars,
           NEW i \in Items, work[i] # "NONE", NEW end, MayEnd(i, end)
    PROVE  MayEnd(i, end)'
  <1>1. ~Live(i[1], i[2]) => ~Live(i[1], i[2])'
    <2>1. i[1] \in Stages /\ i[2] \in Attempts /\ Present(i[1], i[2])
      BY ItemParts DEF QueueInv, ItemsHaveRows
    <2>2. ~Live(i[1], i[2]) => journal'[i[1]][i[2]] = journal[i[1]][i[2]]
      BY <2>1, StepImplements, OverStays
    <2> QED  BY <2>2 DEF Live
  <1> QED  BY <1>1, SettledStays DEF MayEnd

LEMMA ReachStep ==
    ASSUME TypeInv, OrderInv, ConfirmInv, QueueInv, ReachInv, [WorkNext]_allVars
    PROVE  ReachInv'
  <1>1. ASSUME NEW i \in Items PROVE MayEnd(i, work[i])'
    <2>1. WorkMove(i)
      BY WorkMoves DEF ConfirmInv
    <2>2. CASE work'[i] = work[i] /\ work[i] # "NONE"
      <3>1. PICK end : end = work[i] /\ MayEnd(i, end)
        BY DEF ReachInv
      <3> QED  BY <2>2, <3>1, EndStays DEF MayEnd
    <2>3. ASSUME NEW r \in Reconcilers, WrittenBy(r, i) PROVE MayEnd(i, work[i])'
      <3>1. PICK end : end = cycle[r].phase /\ MayEnd(i, end)
        BY <2>3 DEF ReachInv, WrittenBy
      <3>2. work[i] # "NONE"
        BY <2>3 DEF WrittenBy, Leased
      <3>3. MayEnd(i, end)'
        BY <3>1, <3>2, EndStays
      <3> QED  BY <2>3, <3>1, <3>3 DEF WrittenBy, At, MayEnd
    <2>4. CASE work'[i] \in {"NONE", "PENDING", "LEASED", "EXPIRED"}
      BY <2>4 DEF MayEnd
    <2> QED  BY <2>1, <2>2, <2>3, <2>4 DEF WorkMove
  <1>2. ASSUME NEW r \in Reconcilers, cycle'[r].phase \in {"done", "failed"},
               NEW i \in Items, cycle'[r].cur = i
        PROVE  MayEnd(i, cycle[r].phase)'
    <2>1. /\ cycle \in [Reconcilers -> [phase : Phases, todo : SUBSET Items, cur : Items \cup {NULL}]]
          /\ Worker(r) /\ r \in Procs
      BY DEF QueueInv, QueueTyped, Procs
    <2>2. CASE cycle'[r].phase = cycle[r].phase /\ cycle[r].cur = i
      <3>1. work[i] # "NONE"
        BY <1>2, <2>1, <2>2 DEF Worker, Holding
      <3>2. PICK end : end = cycle[r].phase /\ MayEnd(i, end)
        BY <2>2 DEF ReachInv
      <3>3. MayEnd(i, end)'
        BY <3>1, <3>2, EndStays
      <3> QED  BY <2>2, <3>2, <3>3 DEF MayEnd
    <2>3. ASSUME NEW j \in Items, TakeItem(r, j) PROVE MayEnd(i, cycle[r].phase)'
      <3>1. PICK phase \in {"probe", "finalize", "done"} :
              /\ cycle' = [cycle EXCEPT ![r].phase = phase, ![r].cur = j]
              /\ phase = "done" => ~Candidate(j) /\ UNCHANGED vars
        BY <2>3 DEF TakeItem
      <3>2. cycle'[r].phase = phase /\ cycle'[r].cur = j /\ UNCHANGED projection
        BY <2>1, <2>3, <3>1 DEF TakeItem
      <3> QED  BY <1>2, <3>1, <3>2 DEF MayEnd, Candidate, Live, Unprojected, vars
    <2>4. CASE SettleEvidence(r)
      <3>1. PICK phase : /\ Enter(r, phase)
                         /\ phase # "retry" => /\ RecordEvidence(r)
                                               /\ phase = Outcome(job[r].stage, job[r].seen)
        BY <2>4 DEF SettleEvidence
      <3>2. cycle'[r].phase = phase /\ cycle'[r].cur = cycle[r].cur
        BY <2>1, <3>1 DEF Enter
      <3>3. RecordEvidence(r) /\ phase = Outcome(job[r].stage, job[r].seen)
        BY <1>2, <3>1, <3>2
      <3>4. PICK s \in Stages, a \in Attempts : s = i[1] /\ a = i[2] /\ s = job[r].stage /\ a = job[r].row
        <4>1. pc[r] = "record"
          BY <3>3 DEF RecordEvidence
        <4> QED  BY <1>2, <2>1, <3>2, <4>1, ItemParts DEF Worker, Handles
      <3>5. ~Live(s, a)'
        BY <1>2, <3>2, <3>3, <3>4, ReconciledOver DEF RecordEvidence, Outcome
      <3>6. phase = "done" => s \notin BatchStages
        BY <3>3, <3>4 DEF Outcome
      <3> QED  BY <1>2, <3>2, <3>4, <3>5, <3>6 DEF MayEnd, Candidate, Live, Unprojected
    <2>5. CASE Finalize(r)
      <3>1. /\ Enter(r, "done") \/ UNCHANGED cycle
            /\ cycle[r].phase = "finalize" /\ UNCHANGED vars
        BY <2>5 DEF Finalize, At
      <3>2. cycle'[r].cur = cycle[r].cur /\ Enter(r, "done")
        BY <1>2, <2>1, <3>1 DEF Enter
      <3>3. projection'[i[1]] = "DONE"
        <4>1. projection[i[1]] = "DONE" /\ UNCHANGED projection
          BY <1>2, <2>1, <2>5, <3>1, <3>2 DEF Finalize, Enter
        <4> QED  BY <4>1
      <3>4. ~Live(i[1], i[2])
        BY <1>2, <2>1, <3>1, <3>2 DEF Worker, At
      <3> QED  BY <3>1, <3>3, <3>4 DEF MayEnd, Candidate, Live, Unprojected, vars
    <2>6. CASE \/ Discover(r) \/ EndCycle(r) \/ (\E D \in SUBSET Items : LeaseDue(r, D)) \/ AbortCycle(r)
               \/ CompleteItem(r) \/ FailItem(r) \/ RetryItem(r) \/ FinalizeFails(r) \/ WriteFails(r)
      <3>1. CASE UNCHANGED cycle
        BY <1>2, <2>2, <3>1
      <3>2. CASE ~UNCHANGED cycle
        <4>1. cycle'[r].phase \in {"lease", "idle", "work", "retry"}
          BY <2>1, <2>6, <3>2 DEF Discover, EndCycle, LeaseDue, AbortCycle, CompleteItem, FailItem,
             RetryItem, FinalizeFails, WriteFails, Enter, NextItem, NoCycle
        <4> QED  BY <1>2, <4>1
      <3> QED  BY <3>1, <3>2
    <2>7. CASE Probe(r) \/ Aside(r)
      BY <1>2, <2>2, <2>7 DEF Probe, workVars, Aside
    <2> QED  BY <2>3, <2>4, <2>5, <2>6, <2>7, OwnOrAside DEF CycleStep
  <1>3. ASSUME NEW r \in Reconcilers PROVE MayEnd(cycle[r].cur, cycle[r].phase)'
    <2>1. CASE cycle'[r].phase \in {"done", "failed"}
      <3>1. PICK i \in Items : i = cycle'[r].cur
        BY <2>1, QueueInvStep DEF QueueInv, Worker, Holding
      <3>2. MayEnd(i, cycle[r].phase)'
        BY <1>2, <2>1, <3>1
      <3> QED  BY <3>1, <3>2 DEF MayEnd, Candidate, Live, Unprojected
    <2>2. CASE cycle'[r].phase \notin {"done", "failed"}
      <3>1. cycle'[r].phase \in Phases
        BY QueueInvStep DEF QueueInv, QueueTyped
      <3> QED  BY <2>2, <3>1 DEF MayEnd, Phases
    <2> QED  BY <2>1, <2>2
  <1> QED  BY <1>1, <1>3 DEF ReachInv

(* The item of an open row never has an end state, where neither a lease   *)
(* nor discovery would find it again, and none is COMPLETED before its     *)
(* confirmed row is projected, however many cycles share the owner's name, *)
(* wherever they abort and however old the evidence is they write from.    *)
THEOREM OpenRowsStayReachable == WorkSpec => []OpenRowsReachable
  <1>1. WorkInit => ReachInv
    BY DEF WorkInit, ReachInv, MayEnd, NoCycle
  <1>2. /\ TypeInv /\ OrderInv /\ ConfirmInv /\ QueueInv
        /\ ReachInv /\ [WorkNext]_allVars
        => ReachInv'
    BY ReachStep
  <1>3. ReachInv => OpenRowsReachable
    BY DEF ReachInv, MayEnd, OpenRowsReachable, Candidate
  <1> QED  BY <1>1, <1>2, <1>3, WorkInvariant, PTL DEF WorkSpec
=============================================================================
