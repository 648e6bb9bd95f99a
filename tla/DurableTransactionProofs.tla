----------------------- MODULE DurableTransactionProofs -----------------------
(***************************************************************************)
(* Theorems about DurableTransaction, for every number of executors,       *)
(* reconcilers, stages, attempts and nonces.                               *)
(***************************************************************************)
EXTENDS DurableTransaction, TLAPS

(* The inductive part of the type invariant: a call that is under way has  *)
(* a stage, one that is past the signer a hash signed for that stage, and  *)
(* so has every row of the journal.                                        *)
HashLabels == {"persist", "broadcast", "probe", "count", "classify", "receipt", "record"}

HasHash(p) == pc[p] \in HashLabels \/ (pc[p] \in {"load", "acquire"} /\ job[p].loaded)

SignedFor(h, s) == h \in Hashes /\ h.stage = s

ProcsOK ==
    /\ pc \in [Procs -> Labels]
    /\ job \in [Procs -> Jobs]
    /\ \A p \in Procs : pc[p] # "idle" => job[p].stage \in Stages
    /\ \A p \in Procs : HasHash(p) => SignedFor(job[p].hash, job[p].stage)

RowsOK == \A s \in Stages, a \in Attempts : Present(s, a) => SignedFor(journal[s][a].hash, s)

TypeInv == TypeOK /\ ProcsOK /\ RowsOK

LEMMA NewJobTyped ==
    ASSUME NEW s \in Stages \cup {NULL}, NEW n \in Attempts
    PROVE  NewJob(s, n) \in Jobs /\ NewJob(s, n).stage = s /\ ~NewJob(s, n).loaded
  BY DEF NewJob, Jobs, Evidence

LEMMA NoJobTyped == NoJob \in Jobs
  BY NewJobTyped, MaxAttemptAssumption DEF NoJob, Attempts

LEMMA ReturnTyped ==
    ASSUME ProcsOK, NEW p \in Procs, Return(p)
    PROVE  ProcsOK'
  BY NoJobTyped DEF ProcsOK, Return, Goto, Labels, HasHash, HashLabels

LEMMA AssignTyped ==
    ASSUME ProcsOK, NEW p \in Procs, NEW label \in Labels, Goto(p, label),
           NEW j \in Jobs, j.stage \in Stages, job' = [job EXCEPT ![p] = j],
           SignedFor(j.hash, j.stage) \/ label = "sign"
               \/ (label \in {"load", "acquire"} /\ ~j.loaded)
    PROVE  ProcsOK'
  BY DEF ProcsOK, Goto, HasHash, HashLabels

LEMMA ContinueTyped ==
    ASSUME ProcsOK, NEW p \in Procs, pc[p] # "idle", NEW label \in Labels, Continue(p, label),
           HasHash(p) \/ label = "sign"
    PROVE  ProcsOK'
  BY DEF ProcsOK, Continue, Goto, HasHash, HashLabels

LEMMA SeeTyped ==
    ASSUME ProcsOK, NEW p \in Procs, pc[p] \in HashLabels, NEW label \in Labels, Goto(p, label),
           NEW e \in Evidence, See(p, e)
    PROVE  ProcsOK'
  <1> DEFINE j == [job[p] EXCEPT !.seen = e]
  <1>1. /\ j \in Jobs
        /\ j.stage \in Stages
        /\ j.stage = job[p].stage
        /\ j.hash = job[p].hash
    BY DEF ProcsOK, Jobs, HashLabels
  <1>3. SignedFor(j.hash, j.stage)
    BY <1>1 DEF ProcsOK, HasHash
  <1>2. job' = [job EXCEPT ![p] = [job[p] EXCEPT !.seen = e]]
    BY DEF See, ProcsOK
  <1> QED  BY <1>1, <1>2, <1>3, AssignTyped

LEMMA SetStatusTyped ==
    ASSUME journal \in [Stages -> [Attempts -> Rows]], NEW s \in Stages,
           NEW a \in Attempts, NEW status \in Statuses, NEW reason \in Reasons
    PROVE  SetStatus(s, a, status, reason) \in [Stages -> [Attempts -> Rows]]
  <1> DEFINE row == [status |-> status, hash |-> journal[s][a].hash, reason |-> reason]
  <1>1. row \in Rows
    BY DEF Rows
  <1>2. [journal[s] EXCEPT ![a] = row] \in [Attempts -> Rows]
    BY <1>1
  <1>3. SetStatus(s, a, status, reason) = [journal EXCEPT ![s] = [journal[s] EXCEPT ![a] = row]]
    BY DEF SetStatus
  <1> HIDE DEF row
  <1> QED  BY <1>2, <1>3
-----------------------------------------------------------------------------
(* The chain keeps its types.                                              *)
LEMMA SendTyped ==
    ASSUME ChainTypeOK, NEW h \in Hashes, SendErrored(h)
    PROVE  ChainTypeOK'
  BY DEF SendErrored, SendAccepted, Admit, ChainTypeOK, chainVars

LEMMA ChainStepTyped ==
    ASSUME ChainTypeOK, ChainStep
    PROVE  ChainTypeOK'
  <1> USE MaxNonceAssumption
  <1>1. ASSUME NEW h \in flight, Deliver(h) PROVE ChainTypeOK'
    BY <1>1 DEF Deliver, Admit, ChainTypeOK
  <1>2. ASSUME NEW h \in pool, Mine(h) PROVE ChainTypeOK'
    <2>1. h.nonce \in 0..MaxNonce
      BY DEF ChainTypeOK, Hashes, Nonces
    <2> QED  BY <1>2, <2>1 DEF Mine, ChainTypeOK
  <1>3. ASSUME NEW h \in pool, Evict(h) PROVE ChainTypeOK'
    BY <1>3 DEF Evict, ChainTypeOK
  <1>4. ASSUME NEW n \in Nonces, ForeignSend(n) PROVE ChainTypeOK'
    BY <1>4 DEF ForeignSend, ChainTypeOK
  <1>5. ASSUME ForeignMine PROVE ChainTypeOK'
    BY <1>5 DEF ForeignMine, ChainTypeOK, Nonces
  <1> QED  BY <1>1, <1>2, <1>3, <1>4, <1>5 DEF ChainStep
-----------------------------------------------------------------------------
(* What any step may do to one row of the journal; a step changes one row  *)
(* at most.                                                                *)
Elsewhere(s, a) ==
    \A t \in Stages, b \in Attempts : t # s \/ b # a => journal'[t][b] = journal[t][b]

Inserted(s, a) ==
    \E p \in Executors :
        /\ pc[p] = "persist"
        /\ job[p].stage = s
        /\ job[p].attempt = a
        /\ journal'[s][a] = [status |-> "PREPARED", hash |-> job[p].hash, reason |-> "NONE"]
        /\ ~NonceTaken(job[p].hash) /\ ~HashTaken(job[p].hash)
        /\ Elsewhere(s, a)

RowStep(s, a) ==
    \/ journal'[s][a] = journal[s][a]
    \/ ~Present(s, a) /\ Inserted(s, a)
    \/ /\ Live(s, a)
       /\ journal'[s][a].hash = journal[s][a].hash
       /\ journal'[s][a].status \in {"SUBMITTED", "CONFIRMED", "FAILED"}
       /\ Elsewhere(s, a)

JournalMove ==
    /\ journal' \in [Stages -> [Attempts -> Rows]]
    /\ \A s \in Stages, a \in Attempts : RowStep(s, a)

LEMMA UnchangedMove ==
    ASSUME journal \in [Stages -> [Attempts -> Rows]], UNCHANGED journal
    PROVE  JournalMove
  BY DEF JournalMove, RowStep

LEMMA SetStatusMove ==
    ASSUME journal \in [Stages -> [Attempts -> Rows]], NEW s \in Stages, NEW a \in Attempts,
           Live(s, a), NEW status \in {"SUBMITTED", "CONFIRMED", "FAILED"},
           NEW reason \in Reasons, journal' = SetStatus(s, a, status, reason)
    PROVE  JournalMove
  <1>1. journal' \in [Stages -> [Attempts -> Rows]]
    BY SetStatusTyped DEF Statuses
  <1>2. ASSUME NEW t \in Stages, NEW b \in Attempts
        PROVE  RowStep(t, b)
    BY DEF RowStep, SetStatus, Elsewhere
  <1> QED  BY <1>1, <1>2 DEF JournalMove

LEMMA ReconciledMove ==
    ASSUME journal \in [Stages -> [Attempts -> Rows]], NEW s \in Stages, NEW a \in Attempts,
           NEW e, journal' = Reconciled(s, a, e)
    PROVE  JournalMove
  <1>1. CASE ~Live(s, a)
    BY <1>1, UnchangedMove DEF Reconciled
  <1>2. CASE Live(s, a)
    <2>1. CASE e = "RECEIPT_SUCCESS"
      BY <1>2, <2>1, SetStatusMove DEF Reconciled, Reasons
    <2>2. CASE e = "RECEIPT_REVERTED"
      BY <1>2, <2>2, SetStatusMove DEF Reconciled, Reasons
    <2>3. CASE e \notin {"RECEIPT_SUCCESS", "RECEIPT_REVERTED"}
      BY <1>2, <2>3, SetStatusMove DEF Reconciled, Reasons
    <2> QED  BY <2>1, <2>2, <2>3
  <1> QED  BY <1>1, <1>2

LEMMA SubmittedMove ==
    ASSUME journal \in [Stages -> [Attempts -> Rows]], NEW s \in Stages, NEW a \in Attempts,
           journal' = Submitted(s, a)
    PROVE  JournalMove
  <1>1. CASE journal[s][a].status = "PREPARED" /\ IsLatest(s, a)
    BY <1>1, SetStatusMove DEF Submitted, Live, Reasons
  <1>2. CASE ~(journal[s][a].status = "PREPARED" /\ IsLatest(s, a))
    BY <1>2, UnchangedMove DEF Submitted
  <1> QED  BY <1>1, <1>2
-----------------------------------------------------------------------------
(* Every action keeps the types and moves the journal by RowSteps.         *)
StepOK == TypeOK' /\ ProcsOK' /\ RowsOK' /\ JournalMove

LEMMA RowsMove ==
    ASSUME TypeInv, JournalMove
    PROVE  RowsOK'
  <1> SUFFICES ASSUME NEW s \in Stages, NEW a \in Attempts, Present(s, a)'
               PROVE  SignedFor(journal'[s][a].hash, s)
    BY DEF RowsOK, SignedFor
  <1>1. CASE journal'[s][a] = journal[s][a]
    BY <1>1 DEF TypeInv, RowsOK, Present
  <1>2. CASE Inserted(s, a)
    BY <1>2 DEF Inserted, TypeInv, ProcsOK, HasHash, HashLabels, Procs
  <1>3. CASE Live(s, a) /\ journal'[s][a].hash = journal[s][a].hash
    BY <1>3 DEF TypeInv, RowsOK, Live, Present
  <1> QED  BY <1>1, <1>2, <1>3 DEF JournalMove, RowStep

LEMMA StepParts ==
    ASSUME TypeInv, ProcsOK', JournalMove, ChainTypeOK',
           mutex' \in {mutex, "FREE", "HELD", "EXPIRED"}
    PROVE  StepOK
  BY RowsMove DEF TypeInv, TypeOK, ProcsOK, JournalMove, StepOK

LEMMA QuietStep ==
    ASSUME TypeInv, ProcsOK', UNCHANGED <<journal, chainVars>>,
           mutex' \in {mutex, "FREE", "HELD", "EXPIRED"}
    PROVE  StepOK
  <1>1. ChainTypeOK'
    BY DEF TypeInv, TypeOK, ChainTypeOK, chainVars
  <1>2. JournalMove
    BY UnchangedMove DEF TypeInv, TypeOK
  <1> QED  BY <1>1, <1>2, StepParts

LEMMA ReadJournalStep ==
    ASSUME TypeInv, NEW p \in Executors, NEW s \in Stages, ReadJournal(p, s)
    PROVE  StepOK
  <1>1. PICK n \in Attempts : job' = [job EXCEPT ![p] = NewJob(s, n)]
    BY DEF ReadJournal
  <1>2. NewJob(s, n) \in Jobs /\ NewJob(s, n).stage \in Stages /\ ~NewJob(s, n).loaded
    BY NewJobTyped
  <1>3. ProcsOK'
    BY <1>1, <1>2, AssignTyped DEF ReadJournal, TypeInv, Procs, Labels
  <1> QED  BY <1>3, QuietStep DEF ReadJournal

LEMMA LoadJournalStep ==
    ASSUME TypeInv, NEW p \in Executors, LoadJournal(p)
    PROVE  StepOK
  <1> DEFINE s == job[p].stage
  <1>1. p \in Procs /\ s \in Stages /\ job[p] \in Jobs /\ "acquire" \in Labels
    BY DEF TypeInv, ProcsOK, LoadJournal, Procs, Labels
  <1>2. ProcsOK'
    <2>1. CASE UNCHANGED job
      BY <1>1, <2>1 DEF LoadJournal, TypeInv, ProcsOK, Goto, HasHash, HashLabels
    <2>2. CASE job' # job
      <3>1. PICK a \in Attempts :
              /\ Present(s, a)
              /\ job' = [job EXCEPT ![p].row = a, ![p].hash = journal[s][a].hash, ![p].loaded = TRUE]
        BY <2>2 DEF LoadJournal, IsLatest
      <3>2. SignedFor(journal[s][a].hash, s)
        BY <1>1, <3>1 DEF TypeInv, RowsOK
      <3> DEFINE j == [job[p] EXCEPT !.row = a, !.hash = journal[s][a].hash, !.loaded = TRUE]
      <3>3. j \in Jobs /\ j.stage \in Stages /\ SignedFor(j.hash, j.stage)
        BY <1>1, <3>2 DEF Jobs, SignedFor
      <3>4. job' = [job EXCEPT ![p] = j]
        BY <3>1 DEF TypeInv, ProcsOK
      <3> QED  BY <1>1, <3>3, <3>4, AssignTyped DEF LoadJournal, TypeInv
    <2> QED  BY <2>1, <2>2
  <1> QED  BY <1>2, QuietStep DEF LoadJournal

LEMMA AcquireNonceMutexStep ==
    ASSUME TypeInv, NEW p \in Executors, AcquireNonceMutex(p)
    PROVE  StepOK
  <1>1. ProcsOK'
    <2>1. CASE Return(p)
      BY <2>1, ReturnTyped DEF TypeInv, Procs
    <2>2. CASE job[p].loaded /\ Continue(p, "probe")
      BY <2>2, ContinueTyped DEF AcquireNonceMutex, TypeInv, Procs, Labels, HasHash
    <2>3. CASE Continue(p, "sign")
      BY <2>3, ContinueTyped DEF AcquireNonceMutex, TypeInv, Procs, Labels
    <2> QED  BY <2>1, <2>2, <2>3 DEF AcquireNonceMutex
  <1> QED  BY <1>1, QuietStep DEF AcquireNonceMutex

LEMMA SignStep ==
    ASSUME TypeInv, NEW p \in Executors, Sign(p)
    PROVE  StepOK
  <1>1. ProcsOK'
    <2>1. CASE Return(p)
      BY <2>1, ReturnTyped DEF TypeInv, Procs
    <2>2. CASE ~Return(p)
      <3>1. PICK n \in Nonces, v \in Variants :
              job' = [job EXCEPT ![p].hash = [stage |-> job[p].stage, nonce |-> n, variant |-> v]]
        BY <2>2 DEF Sign
      <3>2. job[p] \in Jobs /\ job[p].stage \in Stages
        BY DEF Sign, TypeInv, ProcsOK, Procs
      <3> DEFINE h == [stage |-> job[p].stage, nonce |-> n, variant |-> v]
                 j == [job[p] EXCEPT !.hash = h]
      <3>3. h \in Hashes
        BY <3>2 DEF Hashes
      <3>4. j \in Jobs /\ j.stage \in Stages /\ SignedFor(j.hash, j.stage)
        BY <3>2, <3>3 DEF Jobs, SignedFor
      <3>5. job' = [job EXCEPT ![p] = j]
        BY <3>1 DEF TypeInv, ProcsOK
      <3>6. Goto(p, "persist") /\ "persist" \in Labels
        BY <2>2 DEF Sign, Labels
      <3> QED  BY <3>4, <3>5, <3>6, AssignTyped DEF TypeInv, Procs
    <2> QED  BY <2>1, <2>2
  <1> QED  BY <1>1, QuietStep DEF Sign, Release

LEMMA PersistPreparedStep ==
    ASSUME TypeInv, NEW p \in Executors, PersistPrepared(p)
    PROVE  StepOK
  <1> DEFINE s == job[p].stage
             a == job[p].attempt
             new == [status |-> "PREPARED", hash |-> job[p].hash, reason |-> "NONE"]
  <1>1. s \in Stages /\ a \in Attempts /\ new \in Rows /\ pc[p] = "persist"
    BY DEF PersistPrepared, TypeInv, ProcsOK, Procs, Jobs, Rows, Statuses, Reasons
  <1>2. ProcsOK'
    <2>1. p \in Procs /\ HasHash(p) /\ "broadcast" \in Labels
      BY <1>1 DEF Procs, HasHash, HashLabels, Labels
    <2> QED  BY <1>1, <2>1, ReturnTyped, ContinueTyped DEF PersistPrepared, TypeInv
  <1>3. JournalMove
    <2>1. CASE UNCHANGED journal
      BY <2>1, UnchangedMove DEF TypeInv, TypeOK
    <2>2. CASE ~UNCHANGED journal
      <3>1. /\ ~Present(s, a) /\ journal' = [journal EXCEPT ![s][a] = new]
            /\ ~NonceTaken(job[p].hash) /\ ~HashTaken(job[p].hash)
        BY <2>2 DEF PersistPrepared
      <3>2. journal' \in [Stages -> [Attempts -> Rows]]
        BY <1>1, <3>1 DEF TypeInv, TypeOK
      <3>3. Inserted(s, a)
        BY <1>1, <3>1 DEF Inserted, Elsewhere, TypeInv, TypeOK
      <3>4. ASSUME NEW t \in Stages, NEW b \in Attempts PROVE RowStep(t, b)
        BY <1>1, <3>1, <3>3 DEF RowStep, TypeInv, TypeOK
      <3> QED  BY <3>2, <3>4 DEF JournalMove
    <2> QED  BY <2>1, <2>2
  <1>4. ChainTypeOK'
    BY DEF PersistPrepared, TypeInv, TypeOK, ChainTypeOK, chainVars
  <1> QED  BY <1>2, <1>3, <1>4, StepParts DEF PersistPrepared, Release

LEMMA BroadcastStep ==
    ASSUME TypeInv, NEW p \in Executors, Broadcast(p)
    PROVE  StepOK
  <1>1. p \in Procs /\ pc[p] = "broadcast" /\ HasHash(p) /\ "probe" \in Labels
    BY DEF Broadcast, Procs, HasHash, HashLabels, Labels
  <1>2. job[p] \in Jobs /\ job[p].stage \in Stages /\ SignedFor(job[p].hash, job[p].stage)
    BY <1>1 DEF TypeInv, ProcsOK
  <1>3. ChainTypeOK'
    BY <1>2, SendTyped DEF Broadcast, SendErrored, SignedFor, TypeInv, TypeOK
  <1>4. ProcsOK'
    <2>1. CASE UNCHANGED job
      BY <1>1, <2>1, ContinueTyped DEF Broadcast, Continue, TypeInv
    <2>2. CASE ~UNCHANGED job
      <3> DEFINE j == [job[p] EXCEPT !.accepted = TRUE]
      <3>1. j \in Jobs /\ j.stage \in Stages /\ SignedFor(j.hash, j.stage)
        BY <1>2 DEF Jobs, SignedFor
      <3>2. job' = [job EXCEPT ![p] = j]
        BY <2>2 DEF Broadcast, TypeInv, ProcsOK
      <3> QED  BY <1>1, <3>1, <3>2, AssignTyped DEF Broadcast, TypeInv
    <2> QED  BY <2>1, <2>2
  <1>5. JournalMove
    BY UnchangedMove DEF Broadcast, TypeInv, TypeOK
  <1> QED  BY <1>3, <1>4, <1>5, StepParts DEF Broadcast

LEMMA ProbeTyped ==
    ASSUME NEW p \in Procs
    PROVE  /\ AfterProbe(p) \in Labels
           /\ \A h : CountEvidence(h) \in Evidence
  BY DEF AfterProbe, CountEvidence, Labels, Evidence

LEMMA ProbeStepStep ==
    ASSUME TypeInv, NEW p \in Procs, ProbeStep(p)
    PROVE  StepOK
  <1>1. pc[p] \in HashLabels /\ pc[p] # "idle" /\ HasHash(p) /\ "count" \in Labels
    BY DEF ProbeStep, ProbeConclusive, CountNonces, ProbeInconclusive, HashLabels, HasHash, Labels
  <1>2. \E label \in {"count", AfterProbe(p)} :
            Continue(p, label) \/ \E e \in Evidence : See(p, e) /\ Goto(p, label)
    BY ProbeTyped DEF Continue, ProbeStep, ProbeConclusive, CountNonces, ProbeInconclusive, Evidence
  <1>3. ProcsOK'
    BY <1>1, <1>2, ProbeTyped, ContinueTyped, SeeTyped DEF TypeInv
  <1> QED  BY <1>3, QuietStep DEF ProbeStep, ProbeConclusive, CountNonces, ProbeInconclusive

LEMMA ClassifyStep ==
    ASSUME TypeInv, NEW p \in Executors, Classify(p)
    PROVE  StepOK
  <1>1. /\ p \in Procs /\ pc[p] # "idle" /\ HasHash(p) /\ "receipt" \in Labels
        /\ job[p].stage \in Stages /\ job[p].attempt \in Attempts /\ job[p].row \in Attempts
        /\ journal \in [Stages -> [Attempts -> Rows]]
    BY DEF Classify, Procs, HasHash, HashLabels, Labels, TypeInv, TypeOK, ProcsOK, Jobs
  <1>2. Return(p) \/ Continue(p, "receipt")
    BY DEF Classify, ClassifyReceipt, ClassifySubmitted, ClassifyConsumed, ClassifyPending
  <1>3. ProcsOK'
    BY <1>1, <1>2, ReturnTyped, ContinueTyped DEF TypeInv
  <1>4. JournalMove
    <2>1. CASE ClassifyReceipt(p)
      BY <1>1, <2>1, ReconciledMove DEF ClassifyReceipt
    <2>2. CASE ClassifySubmitted(p)
      BY <1>1, <2>2, SubmittedMove, UnchangedMove DEF ClassifySubmitted
    <2>3. CASE ClassifyConsumed(p)
      BY <1>1, <2>3, ReconciledMove DEF ClassifyConsumed
    <2>4. CASE ClassifyPending(p)
      BY <1>1, <2>4, UnchangedMove DEF ClassifyPending
    <2> QED  BY <2>1, <2>2, <2>3, <2>4 DEF Classify
  <1>5. ChainTypeOK'
    BY DEF Classify, TypeInv, TypeOK, ChainTypeOK, chainVars
  <1> QED  BY <1>3, <1>4, <1>5, StepParts DEF Classify, Release

LEMMA ReceiptStep ==
    ASSUME TypeInv, NEW p \in Executors,
           ReceiptSuccess(p) \/ ReceiptReverted(p) \/ ReceiptTimeout(p)
    PROVE  StepOK
  <1>1. /\ p \in Procs /\ pc[p] # "idle"
        /\ job[p].stage \in Stages /\ job[p].attempt \in Attempts
        /\ journal \in [Stages -> [Attempts -> Rows]]
    BY DEF ReceiptSuccess, ReceiptReverted, ReceiptTimeout, Procs, TypeInv, TypeOK, ProcsOK, Jobs
  <1>2. Return(p) \/ UNCHANGED <<pc, job>>
    BY DEF ReceiptSuccess, ReceiptReverted, ReceiptTimeout
  <1>3. ProcsOK'
    BY <1>1, <1>2, ReturnTyped DEF TypeInv, ProcsOK, HasHash
  <1>4. JournalMove
    <2>1. CASE ReceiptSuccess(p)
      BY <1>1, <2>1, SetStatusMove, UnchangedMove DEF ReceiptSuccess, Live, Reasons
    <2>2. CASE ReceiptReverted(p)
      BY <1>1, <2>2, SetStatusMove, UnchangedMove DEF ReceiptReverted, Reasons
    <2>3. CASE ReceiptTimeout(p)
      BY <1>1, <2>3, UnchangedMove DEF ReceiptTimeout
    <2> QED  BY <2>1, <2>2, <2>3
  <1>5. ChainTypeOK' /\ UNCHANGED mutex
    BY DEF ReceiptSuccess, ReceiptReverted, ReceiptTimeout, TypeInv, TypeOK, ChainTypeOK, chainVars
  <1> QED  BY <1>3, <1>4, <1>5, StepParts

LEMMA ReconcilerStepStep ==
    ASSUME TypeInv, NEW r \in Reconcilers, ReconcilerStep(r)
    PROVE  StepOK
  <1>1. r \in Procs /\ journal \in [Stages -> [Attempts -> Rows]]
    BY DEF Procs, TypeInv, TypeOK
  <1>2. ASSUME NEW s \in Stages, NEW a \in Attempts, PickCandidate(r, s, a)
        PROVE  StepOK
    <2> DEFINE j == [NewJob(s, a) EXCEPT !.hash = journal[s][a].hash]
    <2>1. SignedFor(journal[s][a].hash, s)
      BY <1>2 DEF PickCandidate, Live, Present, TypeInv, RowsOK
    <2>2. j \in Jobs /\ j.stage \in Stages /\ SignedFor(j.hash, j.stage)
      BY <2>1, NewJobTyped DEF Jobs, SignedFor
    <2>3. job' = [job EXCEPT ![r] = j] /\ Goto(r, "probe") /\ "probe" \in Labels
      BY <1>2 DEF PickCandidate, Labels
    <2>4. ProcsOK'
      BY <1>1, <2>2, <2>3, AssignTyped DEF TypeInv
    <2> QED  BY <1>2, <2>4, QuietStep DEF PickCandidate
  <1>3. CASE RecordEvidence(r)
    <2>1. job[r].stage \in Stages /\ job[r].row \in Attempts
      BY <1>1, <1>3 DEF RecordEvidence, TypeInv, ProcsOK, Jobs
    <2>2. JournalMove
      BY <1>1, <1>3, <2>1, ReconciledMove, UnchangedMove DEF RecordEvidence
    <2>3. ProcsOK'
      BY <1>1, <1>3, ReturnTyped DEF RecordEvidence, TypeInv
    <2>4. ChainTypeOK' /\ UNCHANGED mutex
      BY <1>3 DEF RecordEvidence, TypeInv, TypeOK, ChainTypeOK, chainVars
    <2> QED  BY <2>2, <2>3, <2>4, StepParts
  <1>4. CASE RecordBusy(r)
    BY <1>1, <1>4, ReturnTyped, QuietStep DEF RecordBusy, TypeInv
  <1> QED  BY <1>2, <1>3, <1>4 DEF ReconcilerStep

LEMMA OtherStep ==
    ASSUME TypeInv,
           \/ \E p \in Procs : Crash(p)
           \/ ExpireNonceMutex
           \/ ChainStep /\ UNCHANGED <<journal, mutex, pc, job>>
           \/ UNCHANGED vars
    PROVE  StepOK
  <1>1. ASSUME NEW p \in Procs, Crash(p) PROVE StepOK
    BY <1>1, ReturnTyped, QuietStep DEF Crash, TypeInv
  <1>2. ASSUME UNCHANGED <<pc, job>> PROVE ProcsOK'
    BY <1>2 DEF TypeInv, ProcsOK, HasHash
  <1>3. CASE ExpireNonceMutex
    BY <1>2, <1>3, QuietStep DEF ExpireNonceMutex
  <1>4. CASE ChainStep /\ UNCHANGED <<journal, mutex, pc, job>>
    BY <1>2, <1>4, ChainStepTyped, UnchangedMove, StepParts DEF TypeInv, TypeOK
  <1>5. CASE UNCHANGED vars
    BY <1>2, <1>5, QuietStep DEF vars
  <1> QED  BY <1>1, <1>3, <1>4, <1>5

LEMMA NextStep ==
    ASSUME TypeInv, [Next]_vars
    PROVE  StepOK
  <1>1. ASSUME NEW p \in Executors, ExecutorStep(p) PROVE StepOK
    BY <1>1, ReadJournalStep, LoadJournalStep, AcquireNonceMutexStep, SignStep,
       PersistPreparedStep, BroadcastStep, ClassifyStep, ReceiptStep DEF ExecutorStep
  <1> QED  BY <1>1, ReconcilerStepStep, ProbeStepStep, OtherStep DEF Next
-----------------------------------------------------------------------------
LEMMA InitTyped == Init => TypeInv
  <1> SUFFICES ASSUME Init PROVE TypeInv
    OBVIOUS
  <1>1. ChainTypeOK
    BY MaxNonceAssumption DEF Init, ChainInit, ChainTypeOK
  <1>2. NoRow \in Rows
    BY DEF NoRow, Rows, Statuses, Reasons
  <1>3. ProcsOK
    BY NoJobTyped DEF Init, ProcsOK, Labels, HasHash, HashLabels
  <1>4. RowsOK
    BY DEF Init, RowsOK, Present, NoRow
  <1> QED  BY <1>1, <1>2, <1>3, <1>4 DEF Init, TypeInv, TypeOK, ProcsOK

LEMMA TypeInvariant == Spec => []TypeInv
  <1>1. TypeInv /\ [Next]_vars => TypeInv'
    BY NextStep DEF StepOK, TypeInv
  <1> QED  BY InitTyped, <1>1, PTL DEF Spec

(* Type correctness of the journal, its processes and the chain.           *)
THEOREM TypeCorrect == Spec => []TypeOK
  <1>1. TypeInv => TypeOK
    BY DEF TypeInv
  <1> QED  BY TypeInvariant, <1>1, PTL
-----------------------------------------------------------------------------
(* A row keeps its transaction and settles at most once: immediate from    *)
(* the shape of a RowStep, whoever takes the step.                         *)
THEOREM RowsSettle == Spec => RowsSettleOnce
  <1> DEFINE Settle ==
        \A s \in Stages, a \in Attempts :
          /\ Present(s, a) => journal'[s][a].hash = journal[s][a].hash
          /\ journal[s][a].status \in {"CONFIRMED", "FAILED"} => journal'[s][a] = journal[s][a]
  <1>1. ASSUME TypeInv, [Next]_vars PROVE Settle
    <2> SUFFICES ASSUME NEW s \in Stages, NEW a \in Attempts
                 PROVE  /\ Present(s, a) => journal'[s][a].hash = journal[s][a].hash
                        /\ journal[s][a].status \in {"CONFIRMED", "FAILED"}
                           => journal'[s][a] = journal[s][a]
      OBVIOUS
    <2>1. RowStep(s, a)
      BY <1>1, NextStep DEF StepOK, JournalMove
    <2> QED  BY <2>1 DEF RowStep, Live, Present
  <1>2. TypeInv /\ [Next]_vars => [Settle]_vars
    BY <1>1
  <1> HIDE DEF Settle
  <1>3. Spec => [][Settle]_vars
    BY TypeInvariant, <1>2, PTL DEF Spec
  <1> QED  BY <1>3 DEF RowsSettleOnce, Settle
-----------------------------------------------------------------------------
(* No two open or confirmed rows of the wallet share a nonce: a step opens *)
(* at most one row, in the transaction that looks for its nonce in all the *)
(* others, and never reopens a failed one.                                 *)
InUse(s, a) == journal[s][a].status \notin {"ABSENT", "FAILED"}

LEMMA InUseBefore ==
    ASSUME TypeInv, JournalMove, NEW s \in Stages, NEW a \in Attempts, InUse(s, a)'
    PROVE  \/ InUse(s, a) /\ journal'[s][a].hash = journal[s][a].hash
           \/ Inserted(s, a)
  BY DEF JournalMove, RowStep, InUse, Present, Live

LEMMA InsertedAlone ==
    ASSUME TypeInv, NEW s \in Stages, NEW a \in Attempts, Inserted(s, a),
           NEW t \in Stages, NEW b \in Attempts, InUse(t, b)',
           journal'[t][b].hash.nonce = journal'[s][a].hash.nonce
    PROVE  s = t /\ a = b
  <1> SUFFICES ASSUME t # s \/ b # a PROVE FALSE
    OBVIOUS
  <1>1. PICK p \in Executors :
          /\ journal'[s][a].hash = job[p].hash
          /\ ~NonceTaken(job[p].hash) /\ ~HashTaken(job[p].hash)
          /\ journal'[t][b] = journal[t][b]
    BY DEF Inserted, Elsewhere
  <1>2. journal[t][b].status \in {"PREPARED", "SUBMITTED", "CONFIRMED"}
    BY <1>1 DEF InUse, TypeInv, TypeOK, Rows, Statuses
  <1>3. journal[t][b].hash.nonce = job[p].hash.nonce
    BY <1>1
  <1> QED  BY <1>1, <1>2, <1>3 DEF NonceTaken, HashTaken

THEOREM NonceExclusion == Spec => []NonceExclusive
  <1>1. Init => NonceExclusive
    BY DEF Init, NonceExclusive, NoRow
  <1>2. TypeInv /\ NonceExclusive /\ [Next]_vars => NonceExclusive'
    <2> SUFFICES ASSUME TypeInv, NonceExclusive, [Next]_vars,
                        NEW s \in Stages, NEW t \in Stages, NEW a \in Attempts, NEW b \in Attempts,
                        InUse(s, a)', InUse(t, b)',
                        journal'[s][a].hash.nonce = journal'[t][b].hash.nonce
                 PROVE  s = t /\ a = b
      BY DEF NonceExclusive, InUse
    <2>1. JournalMove
      BY NextStep DEF StepOK
    <2>2. CASE Inserted(s, a) \/ Inserted(t, b)
      BY <2>2, InsertedAlone
    <2>3. CASE ~Inserted(s, a) /\ ~Inserted(t, b)
      <3>1. /\ InUse(s, a) /\ journal'[s][a].hash = journal[s][a].hash
            /\ InUse(t, b) /\ journal'[t][b].hash = journal[t][b].hash
        BY <2>1, <2>3, InUseBefore
      <3> QED  BY <3>1 DEF NonceExclusive, InUse
    <2> QED  BY <2>2, <2>3
  <1> QED  BY <1>1, <1>2, TypeInvariant, PTL DEF Spec
-----------------------------------------------------------------------------
(* What any step may do to an executor: end its call, begin one, or keep   *)
(* its stage and attempt; and it only comes to its broadcast with the      *)
(* journal holding the transaction it signed.                              *)
Keeps(p) ==
    /\ pc[p] # "idle"
    /\ job'[p].stage = job[p].stage
    /\ job'[p].attempt = job[p].attempt
    /\ pc'[p] = "broadcast" =>
          /\ job'[p].hash = job[p].hash
          /\ \/ pc[p] = "broadcast"
             \/ journal'[job[p].stage][job[p].attempt].hash = job[p].hash

ExecutorMove(p) == pc'[p] = "idle" \/ (\E s \in Stages : ReadJournal(p, s)) \/ Keeps(p)

LEMMA OthersKeep ==
    ASSUME TypeInv, NEW p \in Procs, pc'[p] = pc[p], job'[p] = job[p]
    PROVE  ExecutorMove(p)
  BY DEF ExecutorMove, Keeps

LEMMA OwnMove ==
    ASSUME TypeInv, NEW p \in Executors, ExecutorStep(p)
    PROVE  ExecutorMove(p)
  <1>1. /\ p \in Procs /\ pc \in [Procs -> Labels] /\ job \in [Procs -> Jobs]
        /\ pc[p] = "persist" =>
              job[p].stage \in Stages /\ job[p].attempt \in Attempts
        /\ journal \in [Stages -> [Attempts -> Rows]]
    BY DEF Procs, TypeInv, TypeOK, ProcsOK, Jobs
  <1>2. ASSUME Return(p) PROVE ExecutorMove(p)
    BY <1>1, <1>2 DEF Return, Goto, ExecutorMove
  <1>3. ASSUME NEW label \in Labels \ {"broadcast"}, pc[p] # "idle", Continue(p, label)
        PROVE  ExecutorMove(p)
    BY <1>1, <1>3 DEF Continue, Goto, ExecutorMove, Keeps
  <1>4. CASE \E s \in Stages : ReadJournal(p, s)
    BY <1>4 DEF ExecutorMove
  <1>5. CASE LoadJournal(p)
    <2>1. pc[p] # "idle" /\ pc'[p] = "acquire"
      BY <1>1, <1>5 DEF LoadJournal, Goto
    <2>2. job'[p].stage = job[p].stage /\ job'[p].attempt = job[p].attempt
      <3>1. CASE UNCHANGED job
        BY <3>1
      <3>2. ASSUME NEW a, NEW h, job' = [job EXCEPT ![p].row = a, ![p].hash = h, ![p].loaded = TRUE]
            PROVE  job'[p].stage = job[p].stage /\ job'[p].attempt = job[p].attempt
        <4>1. job'[p] = [job[p] EXCEPT !.row = a, !.hash = h, !.loaded = TRUE]
          BY <1>1, <3>2
        <4> QED  BY <1>1, <4>1 DEF Jobs
      <3> QED  BY <1>5, <3>1, <3>2 DEF LoadJournal
    <2> QED  BY <2>1, <2>2 DEF ExecutorMove, Keeps
  <1>6. CASE AcquireNonceMutex(p)
    BY <1>2, <1>3, <1>6 DEF AcquireNonceMutex, Labels
  <1>7. CASE Sign(p)
    <2>1. CASE Return(p)
      BY <2>1, <1>2
    <2>2. CASE ~Return(p)
      BY <1>1, <1>7, <2>2 DEF Sign, Goto, ExecutorMove, Keeps, Jobs
    <2> QED  BY <2>1, <2>2
  <1>8. CASE PersistPrepared(p)
    <2>1. CASE Return(p)
      BY <2>1, <1>2
    <2>2. CASE ~Return(p)
      <3>1. /\ pc[p] = "persist" /\ Continue(p, "broadcast")
            /\ journal'[job[p].stage][job[p].attempt].hash = job[p].hash
        BY <1>1, <1>8, <2>2 DEF PersistPrepared
      <3> QED  BY <1>1, <3>1 DEF Continue, Goto, ExecutorMove, Keeps
    <2> QED  BY <2>1, <2>2
  <1>9. CASE Broadcast(p)
    BY <1>1, <1>9 DEF Broadcast, Goto, ExecutorMove, Keeps, Jobs
  <1>10. CASE Classify(p)
    BY <1>2, <1>3, <1>10 DEF Classify, ClassifyReceipt, ClassifySubmitted, ClassifyConsumed,
       ClassifyPending, Labels
  <1>11. CASE ReceiptSuccess(p) \/ ReceiptReverted(p) \/ ReceiptTimeout(p)
    BY <1>1, <1>2, <1>11, OthersKeep DEF ReceiptSuccess, ReceiptReverted, ReceiptTimeout
  <1> QED  BY <1>4, <1>5, <1>6, <1>7, <1>8, <1>9, <1>10, <1>11 DEF ExecutorStep

(* An action of q assigns to pc[q] and job[q] only.                        *)
ActsAt(q) ==
    /\ \A p \in Procs \ {q} : pc'[p] = pc[p] /\ job'[p] = job[p]

LEMMA ActsAtStep ==
    ASSUME TypeInv, NEW q \in Procs,
           \/ q \in Executors /\ ExecutorStep(q)
           \/ q \in Reconcilers /\ ReconcilerStep(q)
           \/ ProbeStep(q)
           \/ Crash(q)
    PROVE  ActsAt(q)
  <1> USE DEF ActsAt, Goto, Return, Continue, See, TypeInv, ProcsOK
  <1>1. CASE q \in Executors /\ ExecutorStep(q)
    <2>1. CASE \E s \in Stages : ReadJournal(q, s)
      BY <2>1 DEF ReadJournal
    <2>2. CASE LoadJournal(q)
      BY <2>2 DEF LoadJournal
    <2>3. CASE AcquireNonceMutex(q)
      BY <2>3 DEF AcquireNonceMutex
    <2>4. CASE Sign(q)
      BY <2>4 DEF Sign
    <2>5. CASE PersistPrepared(q)
      BY <2>5 DEF PersistPrepared
    <2>6. CASE Broadcast(q)
      BY <2>6 DEF Broadcast
    <2>7. CASE Classify(q)
      BY <2>7 DEF Classify, ClassifyReceipt, ClassifySubmitted, ClassifyConsumed, ClassifyPending
    <2>8. CASE ReceiptSuccess(q) \/ ReceiptReverted(q) \/ ReceiptTimeout(q)
      BY <2>8 DEF ReceiptSuccess, ReceiptReverted, ReceiptTimeout
    <2> QED  BY <1>1, <2>1, <2>2, <2>3, <2>4, <2>5, <2>6, <2>7, <2>8 DEF ExecutorStep
  <1>2. CASE q \in Reconcilers /\ ReconcilerStep(q)
    BY <1>2 DEF ReconcilerStep, PickCandidate, RecordEvidence, RecordBusy
  <1>3. CASE ProbeStep(q)
    BY <1>3 DEF ProbeStep, ProbeConclusive, CountNonces, ProbeInconclusive
  <1>4. CASE Crash(q)
    BY <1>4 DEF Crash
  <1> QED  BY <1>1, <1>2, <1>3, <1>4

LEMMA ExecutorsMove ==
    ASSUME TypeInv, [Next]_vars, NEW p \in Executors
    PROVE  ExecutorMove(p)
  <1>1. p \in Procs
    BY DEF Procs
  <1>2. ASSUME NEW q \in Procs, q # p, ActsAt(q) PROVE ExecutorMove(p)
    BY <1>1, <1>2, OthersKeep DEF ActsAt
  <1>3. ASSUME NEW q \in Executors, ExecutorStep(q) PROVE ExecutorMove(p)
    BY <1>2, <1>3, OwnMove, ActsAtStep DEF Procs
  <1>4. ASSUME NEW r \in Reconcilers, ReconcilerStep(r) PROVE ExecutorMove(p)
    BY <1>2, <1>4, ActsAtStep, ProcessesAssumption DEF Procs
  <1>5. ASSUME NEW q \in Procs, ProbeStep(q) PROVE ExecutorMove(p)
    <2>1. CASE q # p
      BY <1>2, <1>5, <2>1, ActsAtStep
    <2>2. CASE q = p
      <3>1. pc[p] \in {"probe", "count"} /\ pc \in [Procs -> Labels] /\ job \in [Procs -> Jobs]
        BY <1>5, <2>2 DEF ProbeStep, ProbeConclusive, CountNonces, ProbeInconclusive,
           TypeInv, ProcsOK
      <3>2. /\ \E label \in {"count", "classify"} : Goto(p, label)
            /\ UNCHANGED job \/ \E e : See(p, e)
        BY <1>5, <2>2 DEF ProbeStep, ProbeConclusive, CountNonces, ProbeInconclusive,
           Continue, AfterProbe
      <3>3. pc'[p] \in {"count", "classify"}
        BY <1>1, <3>1, <3>2 DEF Goto
      <3>4. job'[p].stage = job[p].stage /\ job'[p].attempt = job[p].attempt
        BY <1>1, <3>1, <3>2 DEF See, Jobs
      <3> QED  BY <3>1, <3>3, <3>4 DEF ExecutorMove, Keeps
    <2> QED  BY <2>1, <2>2
  <1>6. ASSUME NEW q \in Procs, Crash(q) PROVE ExecutorMove(p)
    <2>1. CASE q # p
      BY <1>2, <1>6, <2>1, ActsAtStep
    <2>2. CASE q = p
      BY <1>1, <1>6, <2>2 DEF Crash, Return, Goto, ExecutorMove, TypeInv, ProcsOK
    <2> QED  BY <2>1, <2>2
  <1>7. CASE UNCHANGED <<pc, job>>
    BY <1>1, <1>7, OthersKeep
  <1> QED  BY <1>3, <1>4, <1>5, <1>6, <1>7 DEF Next, ExpireNonceMutex, vars
-----------------------------------------------------------------------------
(* AttemptsInOrder is not inductive alone: a call computes its attempt     *)
(* number long before it writes the row.  What carries it over is that a   *)
(* FAILED row stays FAILED, so the number stays justified.                 *)
EarlierFailed ==
    \A p \in Executors : pc[p] # "idle" =>
        \A c \in Attempts : c < job[p].attempt => journal[job[p].stage][c].status = "FAILED"

OrderInv == AttemptsInOrder /\ EarlierFailed

LEMMA FailedStays ==
    ASSUME JournalMove, NEW s \in Stages, NEW a \in Attempts, journal[s][a].status = "FAILED"
    PROVE  journal'[s][a].status = "FAILED"
  BY DEF JournalMove, RowStep, Present, Live

LEMMA OrderStep ==
    ASSUME TypeInv, OrderInv, [Next]_vars
    PROVE  OrderInv'
  <1> USE DEF OrderInv
  <1>1. StepOK
    BY NextStep
  <1>2. AttemptsInOrder'
    <2> SUFFICES ASSUME NEW s \in Stages, NEW a \in Attempts, NEW b \in Attempts,
                        a < b, Present(s, b)'
                 PROVE  journal'[s][a].status = "FAILED"
      BY DEF AttemptsInOrder
    <2>1. CASE Present(s, b)
      BY <1>1, <2>1, FailedStays DEF AttemptsInOrder, StepOK
    <2>2. CASE ~Present(s, b)
      <3>1. Inserted(s, b)
        BY <1>1, <2>2 DEF StepOK, JournalMove, RowStep, Present, Live
      <3>2. journal[s][a].status = "FAILED"
        BY <3>1 DEF Inserted, EarlierFailed
      <3> QED  BY <1>1, <3>2, FailedStays DEF StepOK
    <2> QED  BY <2>1, <2>2
  <1>3. EarlierFailed'
    <2> SUFFICES ASSUME NEW p \in Executors, pc'[p] # "idle",
                        NEW c \in Attempts, c < job'[p].attempt
                 PROVE  journal'[job'[p].stage][c].status = "FAILED"
      BY DEF EarlierFailed
    <2>1. p \in Procs
      BY DEF Procs
    <2>2. ExecutorMove(p)
      BY ExecutorsMove
    <2>3. CASE Keeps(p)
      BY <1>1, <2>1, <2>3, FailedStays DEF Keeps, EarlierFailed, StepOK, TypeInv, ProcsOK
    <2>4. ASSUME NEW s \in Stages, ReadJournal(p, s)
          PROVE  journal'[job'[p].stage][c].status = "FAILED"
      <3>1. PICK n \in Attempts : IsNextAttempt(s, n) /\ job' = [job EXCEPT ![p] = NewJob(s, n)]
        BY <2>4 DEF ReadJournal
      <3>2. job'[p].stage = s /\ job'[p].attempt = n
        BY <2>1, <3>1 DEF TypeInv, ProcsOK, NewJob
      <3>3. journal[s][c].status = "FAILED"
        <4>1. CASE n = 0
          BY <3>2, <4>1 DEF Attempts
        <4>2. CASE IsLatest(s, n)
          BY <3>2, <4>2 DEF IsLatest, AttemptsInOrder
        <4>3. ASSUME NEW a \in Attempts, IsLatest(s, a), journal[s][a].status = "FAILED", n = a + 1
              PROVE  journal[s][c].status = "FAILED"
          <5>1. c = a \/ c < a
            BY <3>2, <4>3, MaxAttemptAssumption DEF Attempts
          <5> QED  BY <4>3, <5>1 DEF IsLatest, AttemptsInOrder
        <4> QED  BY <3>1, <4>1, <4>2, <4>3 DEF IsNextAttempt
      <3> QED  BY <1>1, <3>2, <3>3, FailedStays DEF StepOK
    <2> QED  BY <2>2, <2>3, <2>4 DEF ExecutorMove
  <1> QED  BY <1>2, <1>3

LEMMA OrderInvariant == Spec => []OrderInv
  <1>1. Init => OrderInv
    BY DEF Init, OrderInv, AttemptsInOrder, EarlierFailed, Present, NoRow, Procs
  <1>2. TypeInv /\ OrderInv /\ [Next]_vars => OrderInv'
    BY OrderStep
  <1> QED  BY <1>1, <1>2, TypeInvariant, PTL DEF Spec

(* A stage has a new attempt only when all the earlier ones are FAILED,    *)
(* however many executors chose their attempt number from a stale read and *)
(* whatever became of the nonce mutex.                                     *)
THEOREM AttemptsOrdered == Spec => []AttemptsInOrder
  <1>1. OrderInv => AttemptsInOrder
    BY DEF OrderInv
  <1> QED  BY OrderInvariant, <1>1, PTL
-----------------------------------------------------------------------------
(* Everything the chain has seen is journalled: inductive together with    *)
(* the executor about to broadcast holding the hash its row holds.         *)
OnChain == pool \cup flight \cup executed \cup reverted

Journalled(h) == \E a \in Attempts : Present(h.stage, a) /\ journal[h.stage][a].hash = h

AboutToSend ==
    \A p \in Executors : pc[p] = "broadcast" =>
        journal[job[p].stage][job[p].attempt].hash = job[p].hash

RowsHash == \A s \in Stages, a \in Attempts : ~Present(s, a) => journal[s][a].hash = NULL

SentInv == AboutToSend /\ RowsHash /\ \A h \in OnChain : Journalled(h)

LEMMA ChainSees ==
    ASSUME TypeInv, [Next]_vars, NEW h \in OnChain'
    PROVE  h \in OnChain \/ \E p \in Executors : pc[p] = "broadcast" /\ h = job[p].hash
  <1>1. ASSUME UNCHANGED chainVars PROVE h \in OnChain
    BY <1>1 DEF chainVars, OnChain
  <1>2. CASE ChainStep
    BY <1>2 DEF ChainStep, Deliver, Admit, Mine, Evict, ForeignSend, ForeignMine, OnChain
  <1>3. ASSUME NEW p \in Executors, Broadcast(p)
        PROVE  h \in OnChain \/ (pc[p] = "broadcast" /\ h = job[p].hash)
    <2>g. PICK g : g = job[p].hash
      OBVIOUS
    <2>0. pc[p] = "broadcast"
      BY <1>3 DEF Broadcast
    <2>1. SendErrored(g) \/ SendAccepted(g)
      BY <1>3, <2>g DEF Broadcast
    <2>2. CASE SendAccepted(g)
      <3>1. pool' \subseteq pool \cup {g} /\ UNCHANGED <<flight, executed, reverted>>
        BY <2>2 DEF SendAccepted, Admit
      <3>2. h \in OnChain \/ h = g
        BY <3>1 DEF OnChain
      <3> QED  BY <2>g, <2>0, <3>2
    <2>3. CASE SendErrored(g) /\ ~SendAccepted(g)
      <3>1. UNCHANGED chainVars \/ (flight' = flight \cup {g} /\ UNCHANGED <<pool, executed, reverted>>)
        BY <2>3 DEF SendErrored
      <3>2. h \in OnChain \/ h = g
        BY <1>1, <3>1 DEF OnChain
      <3> QED  BY <2>g, <2>0, <3>2
    <2> QED  BY <2>1, <2>2, <2>3
  <1>4. ASSUME NEW p \in Executors, ExecutorStep(p) PROVE UNCHANGED chainVars \/ Broadcast(p)
    BY <1>4 DEF ExecutorStep, ReadJournal, LoadJournal, AcquireNonceMutex, Sign, PersistPrepared,
       Classify, ReceiptSuccess, ReceiptReverted, ReceiptTimeout
  <1>5. ASSUME NEW r \in Reconcilers, ReconcilerStep(r) PROVE UNCHANGED chainVars
    BY <1>5 DEF ReconcilerStep, PickCandidate, RecordEvidence, RecordBusy
  <1>6. ASSUME NEW p \in Procs, ProbeStep(p) \/ Crash(p) PROVE UNCHANGED chainVars
    BY <1>6 DEF ProbeStep, ProbeConclusive, CountNonces, ProbeInconclusive, Crash
  <1>7. CASE ExpireNonceMutex \/ UNCHANGED vars
    BY <1>1, <1>7 DEF ExpireNonceMutex, vars
  <1> QED  BY <1>1, <1>2, <1>3, <1>4, <1>5, <1>6, <1>7 DEF Next

LEMMA SentStep ==
    ASSUME TypeInv, SentInv, [Next]_vars
    PROVE  SentInv'
  <1> USE DEF SentInv
  <1>1. StepOK
    BY NextStep
  <1>2. ASSUME NEW s \in Stages, NEW a \in Attempts, Present(s, a)
        PROVE  Present(s, a)' /\ journal'[s][a].hash = journal[s][a].hash
    BY <1>1, <1>2 DEF StepOK, JournalMove, RowStep, Present, Live
  <1>3. RowsHash'
    <2> SUFFICES ASSUME NEW s \in Stages, NEW a \in Attempts, ~Present(s, a)'
                 PROVE  journal'[s][a].hash = NULL
      BY DEF RowsHash
    <2>1. ~Present(s, a)
      BY <1>2
    <2>2. RowStep(s, a)
      BY <1>1 DEF StepOK, JournalMove
    <2>3. ~Inserted(s, a)
      <3>1. journal'[s][a].status = "ABSENT"
        BY DEF Present
      <3>2. ASSUME Inserted(s, a) PROVE FALSE
        <4>1. PICK p \in Executors : journal'[s][a] =
                [status |-> "PREPARED", hash |-> job[p].hash, reason |-> "NONE"]
          BY <3>2 DEF Inserted
        <4> QED  BY <3>1, <4>1
      <3> QED  BY <3>2
    <2>4. journal'[s][a] = journal[s][a]
      BY <2>1, <2>2, <2>3 DEF RowStep, Present, Live
    <2> QED  BY <2>1, <2>4 DEF RowsHash
  <1>4. ASSUME NEW p \in Executors, pc[p] = "broadcast"
        PROVE  /\ job[p].stage \in Stages /\ job[p].attempt \in Attempts
               /\ job[p].hash \in Hashes /\ job[p].hash.stage = job[p].stage
               /\ Present(job[p].stage, job[p].attempt)
    <2>1. /\ job[p].stage \in Stages /\ job[p].attempt \in Attempts
          /\ job[p].hash \in Hashes /\ job[p].hash.stage = job[p].stage
      BY <1>4 DEF TypeInv, ProcsOK, Procs, HasHash, HashLabels, SignedFor, Jobs
    <2>2. job[p].hash # NULL
      BY <2>1, NullAssumption
    <2> QED  BY <1>4, <2>1, <2>2 DEF AboutToSend, RowsHash
  <1>5. AboutToSend'
    <2> SUFFICES ASSUME NEW p \in Executors, pc'[p] = "broadcast"
                 PROVE  journal'[job'[p].stage][job'[p].attempt].hash = job'[p].hash
      BY DEF AboutToSend
    <2>1. Keeps(p)
      <3>1. ASSUME NEW s \in Stages, ReadJournal(p, s) PROVE FALSE
        <4>1. pc'[p] = "load"
          BY <3>1 DEF ReadJournal, Goto, TypeInv, ProcsOK, Procs
        <4> QED  BY <4>1
      <3> QED  BY <3>1, ExecutorsMove DEF ExecutorMove
    <2>2. CASE pc[p] = "broadcast"
      BY <1>2, <1>4, <2>1, <2>2 DEF Keeps, AboutToSend
    <2>3. CASE journal'[job[p].stage][job[p].attempt].hash = job[p].hash
      BY <2>1, <2>3 DEF Keeps
    <2> QED  BY <2>1, <2>2, <2>3 DEF Keeps
  <1>6. ASSUME NEW h \in OnChain' PROVE Journalled(h)'
    <2>1. h.stage \in Stages
      BY <1>1 DEF StepOK, TypeOK, ChainTypeOK, OnChain, Hashes
    <2>2. Journalled(h)
      <3>1. CASE h \in OnChain
        BY <3>1
      <3>2. ASSUME NEW p \in Executors, pc[p] = "broadcast", h = job[p].hash PROVE Journalled(h)
        BY <1>4, <3>2 DEF Journalled, AboutToSend
      <3> QED  BY <3>1, <3>2, ChainSees
    <2> QED  BY <1>2, <2>1, <2>2 DEF Journalled
  <1> QED  BY <1>3, <1>5, <1>6

LEMMA InitSent == Init => SentInv
  BY DEF Init, ChainInit, SentInv, AboutToSend, RowsHash, OnChain, Procs, NoRow

LEMMA SentInvariant == Spec => []SentInv
  <1>1. TypeInv /\ SentInv /\ [Next]_vars => SentInv'
    BY SentStep
  <1> QED  BY InitSent, <1>1, TypeInvariant, PTL DEF Spec

(* No transaction is anywhere outside the wallet that the journal does not *)
(* have, at any step of any interleaving, crash or lock expiry.            *)
THEOREM JournalledFirst == Spec => []JournalBeforeBroadcast
  <1>1. SentInv => JournalBeforeBroadcast
    BY DEF SentInv, OnChain, Journalled, JournalBeforeBroadcast
  <1> QED  BY <1>1, SentInvariant, PTL
-----------------------------------------------------------------------------
(* The journal implements StageAuthority, for every number of stages,      *)
(* processes, attempts and nonces.                                         *)

(* HashOfStatus of any journal value, so that it can be used before and    *)
(* after a step.                                                           *)
Pick(j, s, statuses) ==
    IF \E a \in Attempts : j[s][a].status \in statuses
    THEN j[s][CHOOSE a \in Attempts : j[s][a].status \in statuses].hash
    ELSE NULL

Open == {"PREPARED", "SUBMITTED"}
Closed == {"CONFIRMED"}
Over == {"ABSENT", "FAILED"}

(* At most one row of the stage is not over, and it is row a.              *)
Sole(j, s, a) == \A b \in Attempts : b # a => j[s][b].status \in Over

LEMMA PickSole ==
    ASSUME NEW j, NEW s, NEW a \in Attempts, NEW statuses, statuses \cap Over = {},
           Sole(j, s, a), j[s][a].status \in statuses
    PROVE  Pick(j, s, statuses) = j[s][a].hash
  <1>1. ASSUME NEW b \in Attempts, j[s][b].status \in statuses PROVE b = a
    BY <1>1 DEF Sole
  <1> QED  BY <1>1 DEF Pick

LEMMA PickNone ==
    ASSUME NEW j, NEW s, NEW a \in Attempts, NEW statuses, statuses \cap Over = {},
           Sole(j, s, a), j[s][a].status \notin statuses
    PROVE  Pick(j, s, statuses) = NULL
  BY DEF Pick, Sole

LEMMA Mapped ==
    /\ Grant = [s \in Stages |-> Pick(journal, s, Open)]
    /\ Done = [s \in Stages |-> Pick(journal, s, Closed)]
    /\ Grant' = [s \in Stages |-> Pick(journal', s, Open)]
    /\ Done' = [s \in Stages |-> Pick(journal', s, Closed)]
  BY DEF Grant, Done, HashOfStatus, Pick, Open, Closed

LEMMA PickedRow ==
    ASSUME NEW s \in Stages, NEW g, g = Pick(journal, s, Open) \/ g = Pick(journal, s, Closed),
           g # NULL
    PROVE  \E a \in Attempts : /\ journal[s][a].hash = g
                               /\ journal[s][a].status \in {"PREPARED", "SUBMITTED", "CONFIRMED"}
  BY DEF Pick, Open, Closed
-----------------------------------------------------------------------------
(* A row that changes is the stage's only row that is not over, before and *)
(* after the step, and no other stage changes.                             *)
LEMMA SoleRow ==
    ASSUME TypeInv, JournalMove, AttemptsInOrder, AttemptsInOrder',
           NEW s \in Stages, NEW a \in Attempts, journal'[s][a] # journal[s][a]
    PROVE  /\ Sole(journal, s, a) /\ Sole(journal', s, a)
           /\ \A t \in Stages : t # s => journal'[t] = journal[t]
  <1>1. RowStep(s, a) /\ journal' \in [Stages -> [Attempts -> Rows]]
        /\ journal \in [Stages -> [Attempts -> Rows]]
    BY DEF JournalMove, TypeInv, TypeOK
  <1>2. Elsewhere(s, a)
    BY <1>1 DEF RowStep, Inserted
  <1>3. journal'[s][a].status \in Statuses \ {"ABSENT"} /\ journal[s][a].status # "FAILED"
    <2>1. CASE Live(s, a)
      BY <1>1, <2>1 DEF RowStep, Live, Present, Statuses
    <2>2. CASE ~Live(s, a)
      <3>1. ~Present(s, a) /\ Inserted(s, a)
        BY <1>1, <2>2 DEF RowStep
      <3>2. PICK p \in Executors : journal'[s][a] =
              [status |-> "PREPARED", hash |-> job[p].hash, reason |-> "NONE"]
        BY <3>1 DEF Inserted
      <3> QED  BY <3>1, <3>2 DEF Present, Statuses
    <2> QED  BY <2>1, <2>2
  <1>4. ASSUME NEW b \in Attempts, b # a PROVE journal[s][b].status \in Over
    <2>1. journal'[s][b] = journal[s][b] /\ journal[s][b].status \in Statuses
      BY <1>1, <1>2, <1>4 DEF Elsewhere, Rows
    <2>2. CASE b < a
      BY <1>3, <2>1, <2>2 DEF AttemptsInOrder, Present, Over
    <2>3. CASE a < b
      <3>1. SUFFICES ASSUME Present(s, b)' PROVE FALSE
        BY <2>1 DEF Present, Over
      <3>2. journal'[s][a].status = "FAILED" /\ Present(s, b)
        BY <2>1, <2>3, <3>1 DEF AttemptsInOrder, Present
      <3>3. journal[s][a].status = "FAILED"
        BY <2>3, <3>2 DEF AttemptsInOrder
      <3> QED  BY <1>3, <3>3
    <2> QED  BY <1>4, <2>2, <2>3, MaxAttemptAssumption DEF Attempts
  <1>5. Sole(journal, s, a) /\ Sole(journal', s, a)
    BY <1>2, <1>4 DEF Sole, Elsewhere
  <1>6. ASSUME NEW t \in Stages, t # s PROVE journal'[t] = journal[t]
    BY <1>1, <1>2, <1>6 DEF Elsewhere
  <1> QED  BY <1>5, <1>6

(* Each kind of row change is one step of the authority.                   *)
LEMMA RowStepMaps ==
    ASSUME TypeInv, JournalMove, AttemptsInOrder, AttemptsInOrder',
           NEW s \in Stages, NEW a \in Attempts, journal'[s][a] # journal[s][a]
    PROVE  Authority!Next \/ UNCHANGED <<Grant, Done>>
  <1>1. /\ Sole(journal, s, a) /\ Sole(journal', s, a)
        /\ \A t \in Stages : t # s => journal'[t] = journal[t]
    BY SoleRow
  <1>2. Open \cap Over = {} /\ Closed \cap Over = {} /\ Open \cap Closed = {}
    BY DEF Open, Closed, Over
  <1>3. ASSUME NEW t \in Stages, t # s
        PROVE  Pick(journal', t, Open) = Pick(journal, t, Open)
               /\ Pick(journal', t, Closed) = Pick(journal, t, Closed)
    BY <1>1, <1>3 DEF Pick
  <1>4. CASE Live(s, a)
    <2>1. /\ journal'[s][a].hash = journal[s][a].hash
          /\ journal'[s][a].status \in {"SUBMITTED", "CONFIRMED", "FAILED"}
      BY <1>4 DEF JournalMove, RowStep, Inserted, Live, Present
    <2>2. Pick(journal, s, Open) = journal[s][a].hash /\ Pick(journal, s, Closed) = NULL
      <3>1. journal[s][a].status \in Open /\ journal[s][a].status \notin Closed
        BY <1>4 DEF Live, Open, Closed
      <3> QED  BY <1>1, <1>2, <3>1, PickSole, PickNone
    <2>3. Grant[s] = journal[s][a].hash /\ Grant[s] # NULL
      <3>1. journal[s][a].hash \in Hashes
        BY <1>4 DEF TypeInv, RowsOK, SignedFor, Live, Present
      <3> QED  BY <2>2, <3>1, Mapped, NullAssumption
    <2>4. CASE journal'[s][a].status = "SUBMITTED"
      <3>1. Pick(journal', s, Open) = journal[s][a].hash /\ Pick(journal', s, Closed) = NULL
        <4>1. journal'[s][a].status \in Open /\ journal'[s][a].status \notin Closed
          BY <2>4 DEF Open, Closed
        <4> QED  BY <1>1, <1>2, <2>1, <4>1, PickSole, PickNone
      <3>2. ASSUME NEW t \in Stages
            PROVE  Pick(journal', t, Open) = Pick(journal, t, Open)
                   /\ Pick(journal', t, Closed) = Pick(journal, t, Closed)
        BY <1>3, <2>2, <3>1
      <3> QED  BY <3>2, Mapped
    <2>5. CASE journal'[s][a].status = "CONFIRMED"
      <3>1. Pick(journal', s, Open) = NULL /\ Pick(journal', s, Closed) = journal[s][a].hash
        <4>1. journal'[s][a].status \notin Open /\ journal'[s][a].status \in Closed
          BY <2>5 DEF Open, Closed
        <4> QED  BY <1>1, <1>2, <2>1, <4>1, PickSole, PickNone
      <3>2. Grant' = [Grant EXCEPT ![s] = NULL] /\ Done' = [Done EXCEPT ![s] = Grant[s]]
        BY <1>3, <2>3, <3>1, Mapped
      <3> QED  BY <2>3, <3>2 DEF Authority!Next, Authority!Confirm
    <2>6. CASE journal'[s][a].status = "FAILED"
      <3>1. Pick(journal', s, Open) = NULL /\ Pick(journal', s, Closed) = NULL
        <4>1. journal'[s][a].status \notin Open /\ journal'[s][a].status \notin Closed
          BY <2>6 DEF Open, Closed
        <4> QED  BY <1>1, <1>2, <4>1, PickNone
      <3>2. Grant' = [Grant EXCEPT ![s] = NULL] /\ Done' = Done
        BY <1>3, <2>2, <3>1, Mapped
      <3> QED  BY <2>3, <3>2 DEF Authority!Next, Authority!Revoke
    <2> QED  BY <2>1, <2>4, <2>5, <2>6
  <1>5. CASE ~Live(s, a)
    <2>1. ~Present(s, a) /\ Inserted(s, a)
      BY <1>5 DEF JournalMove, RowStep
    <2>2. PICK p \in Executors :
            /\ pc[p] = "persist"
            /\ journal'[s][a] = [status |-> "PREPARED", hash |-> job[p].hash, reason |-> "NONE"]
            /\ ~NonceTaken(job[p].hash) /\ ~HashTaken(job[p].hash)
      BY <2>1 DEF Inserted
    <2>3. job[p].hash \in Hashes
      BY <2>2 DEF TypeInv, ProcsOK, HasHash, HashLabels, SignedFor, Procs
    <2>4. Pick(journal, s, Open) = NULL /\ Pick(journal, s, Closed) = NULL
      <3>1. journal[s][a].status \notin Open /\ journal[s][a].status \notin Closed
        BY <2>1 DEF Present, Open, Closed
      <3> QED  BY <1>1, <1>2, <3>1, PickNone
    <2>5. Pick(journal', s, Open) = job[p].hash /\ Pick(journal', s, Closed) = NULL
      <3>1. journal'[s][a].status \in Open /\ journal'[s][a].status \notin Closed
            /\ journal'[s][a].hash = job[p].hash
        BY <2>2 DEF Open, Closed
      <3> QED  BY <1>1, <1>2, <3>1, PickSole, PickNone
    <2>6. Grant' = [Grant EXCEPT ![s] = job[p].hash] /\ Done' = Done
      BY <1>3, <2>4, <2>5, Mapped
    <2>7. Grant[s] = NULL /\ Done[s] = NULL
      BY <2>4, Mapped
    <2>8. ASSUME NEW t \in Stages, NEW g \in {Grant[t], Done[t]} \ {NULL}
          PROVE  g.nonce # job[p].hash.nonce
      <3>1. PICK b \in Attempts :
              /\ journal[t][b].hash = g
              /\ journal[t][b].status \in {"PREPARED", "SUBMITTED", "CONFIRMED"}
        BY <2>8, Mapped, PickedRow
      <3> QED  BY <2>2, <3>1 DEF NonceTaken, HashTaken
    <2> QED
      BY <2>3, <2>6, <2>7, <2>8 DEF Authority!Next, Authority!Authorise, Authority!InUse
  <1> QED  BY <1>4, <1>5

(* Whatever the processes, the network and the lock do, the journal of     *)
(* signed transactions behaves like one authority that grants a stage one  *)
(* transaction at a time, never two stages one nonce, and never a          *)
(* confirmed stage again.                                                  *)
THEOREM JournalIsAuthority == Spec => ImplementsAuthority
  <1>1. Init => Authority!Init
    <2> SUFFICES ASSUME Init PROVE Authority!Init
      OBVIOUS
    <2>1. ASSUME NEW s \in Stages
          PROVE  Pick(journal, s, Open) = NULL /\ Pick(journal, s, Closed) = NULL
      BY DEF Init, NoRow, Pick, Open, Closed
    <2> QED  BY <2>1, Mapped DEF Authority!Init
  <1>2. TypeInv /\ AttemptsInOrder /\ AttemptsInOrder' /\ [Next]_vars
          => [Authority!Next]_<<Grant, Done>>
    <2> SUFFICES ASSUME TypeInv, AttemptsInOrder, AttemptsInOrder', [Next]_vars
                 PROVE  Authority!Next \/ UNCHANGED <<Grant, Done>>
      OBVIOUS
    <2>1. JournalMove
      BY NextStep DEF StepOK
    <2>2. CASE \E s \in Stages, a \in Attempts : journal'[s][a] # journal[s][a]
      BY <2>1, <2>2, RowStepMaps
    <2>3. CASE \A s \in Stages, a \in Attempts : journal'[s][a] = journal[s][a]
      <3>1. journal' = journal
        BY <2>1, <2>3 DEF JournalMove, TypeInv, TypeOK
      <3> QED  BY <3>1, Mapped
    <2> QED  BY <2>2, <2>3
  <1>3. Authority!Spec <=> Authority!Init /\ [][Authority!Next]_<<Grant, Done>>
    BY DEF Authority!Spec, Authority!authority
  <1> QED
    BY <1>1, <1>2, <1>3, TypeInvariant, AttemptsOrdered, PTL DEF Spec, ImplementsAuthority
-----------------------------------------------------------------------------
(* CONFIRMED means executed, for every number of processes: the evidence a *)
(* process carries between its probe and its write stays true, and the row *)
(* it writes is the row of the hash it asked about.                        *)

(* The process works for a row that the journal holds: from the PREPARED   *)
(* commit on, or from the moment it loaded or picked the row.              *)
RowLabels == {"broadcast", "probe", "count", "classify", "receipt", "record"}

Bound(p) == pc[p] \in RowLabels \/ (pc[p] = "acquire" /\ job[p].loaded)

HoldsRow(p) ==
    /\ job[p].stage \in Stages
    /\ Present(job[p].stage, job[p].row)
    /\ journal[job[p].stage][job[p].row].hash = job[p].hash

Evident(p) ==
    pc[p] \in {"count", "classify", "record"} /\ job[p].seen = "RECEIPT_SUCCESS"
        => job[p].hash \in executed

(* The row of a job is the one of its attempt, or a later one it loaded.   *)
Fresh(p) == pc[p] \in {"load", "sign", "persist"} \/ (pc[p] = "acquire" /\ ~job[p].loaded)

RowOrder(p) ==
    /\ pc[p] # "idle" => job[p].row >= job[p].attempt
    /\ Fresh(p) => job[p].row = job[p].attempt
    /\ pc[p] = "load" => ~job[p].loaded

JobInv(p) == (Bound(p) => HoldsRow(p)) /\ Evident(p) /\ RowOrder(p)

ConfirmInv == ConfirmedExecuted /\ \A p \in Procs : JobInv(p)
-----------------------------------------------------------------------------
(* What never goes away: rows with their transaction, and receipts.        *)
LEMMA RowStays ==
    ASSUME JournalMove, NEW s \in Stages, NEW a \in Attempts, Present(s, a)
    PROVE  Present(s, a)' /\ journal'[s][a].hash = journal[s][a].hash
  BY DEF JournalMove, RowStep, Present, Live

LEMMA ReceiptStays ==
    ASSUME TypeInv, [Next]_vars
    PROVE  executed \subseteq executed'
  <1>1. CASE UNCHANGED chainVars
    BY <1>1 DEF chainVars
  <1>2. CASE ChainStep
    BY <1>2 DEF ChainStep, Deliver, Mine, Evict, ForeignSend, ForeignMine
  <1>3. ASSUME NEW p \in Executors, ExecutorStep(p) PROVE executed' = executed
    <2>1. CASE Broadcast(p)
      <3>1. PICK h : h = job[p].hash /\ (SendAccepted(h) \/ SendErrored(h))
        BY <2>1 DEF Broadcast
      <3> QED  BY <3>1 DEF SendAccepted, SendErrored, chainVars
    <2> QED  BY <1>3, <2>1 DEF ExecutorStep, ReadJournal, LoadJournal, AcquireNonceMutex, Sign,
             PersistPrepared, Classify, ReceiptSuccess, ReceiptReverted, ReceiptTimeout, chainVars
  <1>4. ASSUME NEW r \in Reconcilers, ReconcilerStep(r) PROVE executed' = executed
    BY <1>4 DEF ReconcilerStep, PickCandidate, RecordEvidence, RecordBusy, chainVars
  <1>5. ASSUME NEW p \in Procs, ProbeStep(p) \/ Crash(p) PROVE executed' = executed
    BY <1>5 DEF ProbeStep, ProbeConclusive, CountNonces, ProbeInconclusive, Crash, chainVars
  <1>6. CASE ExpireNonceMutex \/ UNCHANGED vars
    BY <1>6 DEF ExpireNonceMutex, vars, chainVars
  <1> QED  BY <1>1, <1>2, <1>3, <1>4, <1>5, <1>6 DEF Next

(* A process that takes no part in the step keeps what it knows.           *)
LEMMA BystanderKeeps ==
    ASSUME TypeInv, JournalMove, executed \subseteq executed', NEW p \in Procs, JobInv(p),
           pc'[p] = pc[p], job'[p] = job[p]
    PROVE  JobInv(p)'
  <1>1. Evident(p)' /\ RowOrder(p)'
    BY DEF JobInv, Evident, RowOrder, Fresh
  <1>2. ASSUME Bound(p)' PROVE HoldsRow(p)'
    <2>1. HoldsRow(p)
      BY <1>2 DEF Bound, JobInv
    <2>2. job[p].stage \in Stages /\ job[p].row \in Attempts
      BY <2>1 DEF HoldsRow, TypeInv, ProcsOK, Jobs
    <2> QED  BY <2>1, <2>2, RowStays DEF HoldsRow
  <1> QED  BY <1>1, <1>2 DEF JobInv

LEMMA IdleKnows ==
    ASSUME NEW p \in Procs, pc'[p] = "idle"
    PROVE  JobInv(p)'
  BY DEF JobInv, Bound, RowLabels, Evident, RowOrder, Fresh

LEMMA ReturnKnows ==
    ASSUME TypeInv, NEW p \in Procs, Return(p)
    PROVE  JobInv(p)'
  BY IdleKnows DEF Return, Goto, TypeInv, ProcsOK

(* Going on with the same job, from a label where its row is known.        *)
LEMMA ContinueKnows ==
    ASSUME TypeInv, JournalMove, executed \subseteq executed', NEW p \in Procs, JobInv(p),
           Bound(p), NEW label \in RowLabels \ {"count", "classify", "record"}, Continue(p, label)
    PROVE  JobInv(p)'
  <1>1. pc'[p] = label /\ job'[p] = job[p] /\ pc[p] # "idle"
    BY DEF Continue, Goto, TypeInv, ProcsOK, Bound, RowLabels
  <1>2. HoldsRow(p)
    BY DEF JobInv
  <1>3. job[p].stage \in Stages /\ job[p].row \in Attempts
    BY <1>2 DEF HoldsRow, TypeInv, ProcsOK, Jobs
  <1>4. HoldsRow(p)'
    BY <1>1, <1>2, <1>3, RowStays DEF HoldsRow
  <1>5. Evident(p)'
    BY <1>1 DEF Evident, RowLabels
  <1>6. RowOrder(p)'
    BY <1>1 DEF RowOrder, JobInv, Fresh, RowLabels
  <1> QED  BY <1>4, <1>5, <1>6 DEF JobInv
-----------------------------------------------------------------------------
(* The steps of the process itself.                                        *)
LEMMA AdmissionKnows ==
    ASSUME TypeInv, OrderInv, NEW p \in Executors, JobInv(p), UNCHANGED journal,
           JournalMove, executed \subseteq executed',
           \/ \E s \in Stages : ReadJournal(p, s)
           \/ LoadJournal(p) \/ AcquireNonceMutex(p) \/ Sign(p)
    PROVE  JobInv(p)'
  <1>1. p \in Procs /\ pc \in [Procs -> Labels] /\ job \in [Procs -> Jobs]
    BY DEF Procs, TypeInv, ProcsOK
  <1>2. ASSUME NEW s \in Stages, ReadJournal(p, s) PROVE JobInv(p)'
    <2>1. PICK n \in Attempts : job' = [job EXCEPT ![p] = NewJob(s, n)]
      BY <1>2 DEF ReadJournal
    <2>2. pc'[p] = "load" /\ job'[p] = NewJob(s, n)
      BY <1>1, <1>2, <2>1 DEF ReadJournal, Goto
    <2>3. /\ job'[p].row = n /\ job'[p].attempt = n /\ ~job'[p].loaded /\ n >= n
      BY <2>2, MaxAttemptAssumption DEF NewJob, Attempts
    <2> QED  BY <2>2, <2>3 DEF JobInv, Bound, RowLabels, Evident, RowOrder, Fresh
  <1>3. CASE LoadJournal(p)
    <2>1. /\ pc[p] = "load" /\ pc'[p] = "acquire" /\ job[p].stage \in Stages
          /\ ~job[p].loaded /\ job[p].row = job[p].attempt /\ job[p].attempt \in Attempts
      BY <1>1, <1>3 DEF LoadJournal, Goto, JobInv, RowOrder, Fresh, TypeInv, ProcsOK, Jobs
    <2>2. CASE UNCHANGED job
      BY <2>1, <2>2 DEF JobInv, Bound, RowLabels, Evident, RowOrder, Fresh
    <2>3. ASSUME NEW a \in Attempts, IsLatest(job[p].stage, a), Live(job[p].stage, a),
                 job' = [job EXCEPT ![p].row = a, ![p].hash = journal[job[p].stage][a].hash,
                                    ![p].loaded = TRUE]
          PROVE  JobInv(p)'
      <3>1. job'[p] = [job[p] EXCEPT !.row = a, !.hash = journal[job[p].stage][a].hash,
                                     !.loaded = TRUE]
        BY <1>1, <2>3
      <3>2. /\ job'[p].stage = job[p].stage /\ job'[p].attempt = job[p].attempt
            /\ job'[p].row = a /\ job'[p].loaded
            /\ job'[p].hash = journal[job[p].stage][a].hash
        BY <1>1, <3>1 DEF Jobs
      <3>3. a >= job[p].attempt
        <4>1. ~(a < job[p].attempt)
          BY <2>1, <2>3 DEF OrderInv, EarlierFailed, Live
        <4> QED  BY <2>1, <4>1, MaxAttemptAssumption DEF Attempts
      <3>4. HoldsRow(p)'
        BY <2>1, <2>3, <3>2 DEF HoldsRow, Present, Live
      <3> QED  BY <2>1, <3>2, <3>3, <3>4 DEF JobInv, Bound, RowLabels, Evident, RowOrder, Fresh
    <2> QED  BY <1>3, <2>2, <2>3 DEF LoadJournal
  <1>4. CASE AcquireNonceMutex(p)
    <2>1. CASE Return(p)
      BY <1>1, <2>1, ReturnKnows
    <2>2. CASE job[p].loaded /\ Continue(p, "probe")
      <3>1. Bound(p)
        BY <1>4, <2>2 DEF AcquireNonceMutex, Bound
      <3> QED  BY <1>1, <2>2, <3>1, ContinueKnows DEF RowLabels
    <2>3. CASE ~job[p].loaded /\ Continue(p, "sign")
      <3>1. pc'[p] = "sign" /\ job'[p] = job[p] /\ pc[p] = "acquire"
        BY <1>1, <1>4, <2>3 DEF Continue, Goto, AcquireNonceMutex
      <3> QED  BY <2>3, <3>1 DEF JobInv, Bound, RowLabels, Evident, RowOrder, Fresh
    <2> QED  BY <1>4, <2>1, <2>2, <2>3 DEF AcquireNonceMutex
  <1>5. CASE Sign(p)
    <2>1. CASE Return(p)
      BY <1>1, <2>1, ReturnKnows
    <2>2. ASSUME NEW h, job' = [job EXCEPT ![p].hash = h], Goto(p, "persist"), pc[p] = "sign"
          PROVE  JobInv(p)'
      <3>1. pc'[p] = "persist" /\ job'[p] = [job[p] EXCEPT !.hash = h]
        BY <1>1, <2>2 DEF Goto
      <3>2. job'[p].row = job[p].row /\ job'[p].attempt = job[p].attempt
        BY <1>1, <3>1 DEF Jobs
      <3> QED  BY <2>2, <3>1, <3>2 DEF JobInv, Bound, RowLabels, Evident, RowOrder, Fresh
    <2> QED  BY <1>5, <2>1, <2>2 DEF Sign
  <1> QED  BY <1>2, <1>3, <1>4, <1>5

LEMMA SendingKnows ==
    ASSUME TypeInv, NEW p \in Executors, JobInv(p),
           JournalMove, executed \subseteq executed', PersistPrepared(p) \/ Broadcast(p)
    PROVE  JobInv(p)'
  <1>1. /\ p \in Procs /\ pc \in [Procs -> Labels] /\ job \in [Procs -> Jobs]
        /\ journal \in [Stages -> [Attempts -> Rows]]
    BY DEF Procs, TypeInv, TypeOK, ProcsOK
  <1>2. CASE PersistPrepared(p)
    <2>1. CASE Return(p)
      BY <1>1, <2>1, ReturnKnows
    <2>2. CASE ~Return(p)
      <3>1. /\ pc[p] = "persist" /\ Continue(p, "broadcast")
            /\ job[p].stage \in Stages /\ job[p].attempt \in Attempts
            /\ job[p].row = job[p].attempt
        BY <1>1, <1>2, <2>2 DEF PersistPrepared, JobInv, RowOrder, Fresh, TypeInv, ProcsOK, Jobs
      <3>2. pc'[p] = "broadcast" /\ job'[p] = job[p]
        BY <1>1, <3>1 DEF Continue, Goto
      <3>3. HoldsRow(p)'
        <4>1. CASE /\ UNCHANGED journal
                   /\ Present(job[p].stage, job[p].attempt)
                   /\ journal[job[p].stage][job[p].attempt].hash = job[p].hash
          BY <3>1, <3>2, <4>1 DEF HoldsRow, Present
        <4>2. CASE journal' = [journal EXCEPT ![job[p].stage][job[p].attempt] =
                      [status |-> "PREPARED", hash |-> job[p].hash, reason |-> "NONE"]]
          BY <1>1, <3>1, <3>2, <4>2 DEF HoldsRow, Present
        <4> QED  BY <1>2, <2>2, <4>1, <4>2 DEF PersistPrepared
      <3> QED  BY <3>1, <3>2, <3>3 DEF JobInv, Bound, RowLabels, Evident, RowOrder, Fresh
    <2> QED  BY <2>1, <2>2
  <1>3. CASE Broadcast(p)
    <2>1. /\ pc[p] = "broadcast" /\ pc'[p] = "probe"
          /\ UNCHANGED job \/ job' = [job EXCEPT ![p].accepted = TRUE]
      BY <1>1, <1>3 DEF Broadcast, Goto
    <2>2. /\ job'[p].stage = job[p].stage /\ job'[p].attempt = job[p].attempt
          /\ job'[p].row = job[p].row /\ job'[p].hash = job[p].hash
      BY <1>1, <2>1 DEF Jobs
    <2>3. HoldsRow(p) /\ UNCHANGED journal
      BY <1>3, <2>1 DEF JobInv, Bound, RowLabels, Broadcast
    <2>4. HoldsRow(p)'
      BY <2>2, <2>3 DEF HoldsRow, Present
    <2> QED  BY <2>1, <2>2, <2>4 DEF JobInv, Bound, RowLabels, Evident, RowOrder, Fresh
  <1> QED  BY <1>2, <1>3

LEMMA ProbeKnows ==
    ASSUME TypeInv, NEW p \in Procs, JobInv(p), ProbeStep(p)
    PROVE  JobInv(p)'
  <1>1. /\ pc \in [Procs -> Labels] /\ job \in [Procs -> Jobs]
        /\ pc[p] \in {"probe", "count"} /\ UNCHANGED <<journal, executed>>
    BY DEF ProbeStep, ProbeConclusive, CountNonces, ProbeInconclusive, TypeInv, ProcsOK, chainVars
  <1>2. /\ Goto(p, "count") \/ Goto(p, AfterProbe(p))
        /\ \/ pc[p] = "count" /\ UNCHANGED job
           \/ \E e : See(p, e) /\ (e = "RECEIPT_SUCCESS" => job[p].hash \in executed)
    BY DEF ProbeStep, ProbeConclusive, CountNonces, ProbeInconclusive, CountEvidence
  <1>3. /\ pc'[p] \in {"count", "classify", "record"}
        /\ job'[p].stage = job[p].stage /\ job'[p].attempt = job[p].attempt
        /\ job'[p].row = job[p].row /\ job'[p].hash = job[p].hash
    BY <1>1, <1>2 DEF Goto, See, AfterProbe, Jobs
  <1>4. HoldsRow(p)
    BY <1>1 DEF JobInv, Bound, RowLabels
  <1>5. HoldsRow(p)'
    BY <1>1, <1>3, <1>4 DEF HoldsRow, Present
  <1>6. Evident(p)'
    <2>1. CASE pc[p] = "count" /\ UNCHANGED job
      BY <1>1, <2>1 DEF Evident, JobInv
    <2>2. ASSUME NEW e, See(p, e), e = "RECEIPT_SUCCESS" => job[p].hash \in executed
          PROVE  Evident(p)'
      <3>1. job'[p].seen = e
        BY <1>1, <2>2 DEF See, Jobs
      <3> QED  BY <1>1, <1>3, <2>2, <3>1 DEF Evident
    <2> QED  BY <1>2, <2>1, <2>2
  <1> QED  BY <1>1, <1>3, <1>5, <1>6 DEF JobInv, RowOrder, Fresh

LEMMA SettlingKnows ==
    ASSUME TypeInv, NEW p \in Executors, JobInv(p), JournalMove, executed \subseteq executed',
           Classify(p) \/ ReceiptSuccess(p) \/ ReceiptReverted(p) \/ ReceiptTimeout(p)
    PROVE  JobInv(p)'
  <1>1. p \in Procs
    BY DEF Procs
  <1>2. Return(p) \/ (pc[p] = "classify" /\ Continue(p, "receipt")) \/ UNCHANGED <<pc, job>>
    BY DEF Classify, ClassifyReceipt, ClassifySubmitted, ClassifyConsumed, ClassifyPending,
       ReceiptSuccess, ReceiptReverted, ReceiptTimeout
  <1>3. CASE Return(p)
    BY <1>1, <1>3, ReturnKnows
  <1>4. CASE pc[p] = "classify" /\ Continue(p, "receipt")
    BY <1>1, <1>4, ContinueKnows DEF Bound, RowLabels
  <1>5. CASE UNCHANGED <<pc, job>>
    BY <1>1, <1>5, BystanderKeeps
  <1> QED  BY <1>2, <1>3, <1>4, <1>5

LEMMA WorkerKnows ==
    ASSUME TypeInv, NEW r \in Reconcilers, JobInv(r), ReconcilerStep(r)
    PROVE  JobInv(r)'
  <1>1. r \in Procs /\ pc \in [Procs -> Labels] /\ job \in [Procs -> Jobs]
    BY DEF Procs, TypeInv, ProcsOK
  <1>2. CASE Return(r)
    BY <1>1, <1>2, ReturnKnows
  <1>3. ASSUME NEW s \in Stages, NEW a \in Attempts, PickCandidate(r, s, a) PROVE JobInv(r)'
    <2>1. /\ pc'[r] = "probe" /\ UNCHANGED journal /\ Live(s, a)
          /\ job'[r] = [NewJob(s, a) EXCEPT !.hash = journal[s][a].hash]
      BY <1>1, <1>3 DEF PickCandidate, Goto
    <2>2. /\ job'[r].stage = s /\ job'[r].row = a /\ job'[r].attempt = a
          /\ job'[r].hash = journal[s][a].hash /\ a >= a
      BY <2>1, MaxAttemptAssumption DEF NewJob, Attempts
    <2>3. HoldsRow(r)'
      BY <2>1, <2>2 DEF HoldsRow, Present, Live
    <2> QED  BY <2>1, <2>2, <2>3 DEF JobInv, Bound, RowLabels, Evident, RowOrder, Fresh
  <1> QED  BY <1>2, <1>3 DEF ReconcilerStep, RecordEvidence, RecordBusy

LEMMA JobsKnow ==
    ASSUME TypeInv, OrderInv, [Next]_vars, NEW p \in Procs, JobInv(p)
    PROVE  JobInv(p)'
  <1>1. JournalMove /\ executed \subseteq executed'
    BY NextStep, ReceiptStays DEF StepOK
  <1>2. ASSUME NEW q \in Procs, q # p, ActsAt(q) PROVE JobInv(p)'
    BY <1>1, <1>2, BystanderKeeps DEF ActsAt
  <1>3. ASSUME NEW q \in Executors, ExecutorStep(q) PROVE JobInv(p)'
    <2>1. CASE q # p
      BY <1>2, <1>3, <2>1, ActsAtStep DEF Procs
    <2>2. CASE q = p
      <3>1. CASE \/ \E s \in Stages : ReadJournal(p, s)
                 \/ LoadJournal(p) \/ AcquireNonceMutex(p) \/ Sign(p)
        <4>1. UNCHANGED journal
          BY <3>1 DEF ReadJournal, LoadJournal, AcquireNonceMutex, Sign
        <4> QED  BY <1>1, <1>3, <2>2, <3>1, <4>1, AdmissionKnows
      <3>2. CASE PersistPrepared(p) \/ Broadcast(p)
        BY <1>1, <1>3, <2>2, <3>2, SendingKnows
      <3>3. CASE Classify(p) \/ ReceiptSuccess(p) \/ ReceiptReverted(p) \/ ReceiptTimeout(p)
        BY <1>1, <1>3, <2>2, <3>3, SettlingKnows
      <3> QED  BY <1>3, <2>2, <3>1, <3>2, <3>3 DEF ExecutorStep
    <2> QED  BY <2>1, <2>2
  <1>4. ASSUME NEW r \in Reconcilers, ReconcilerStep(r) PROVE JobInv(p)'
    BY <1>2, <1>4, ActsAtStep, WorkerKnows DEF Procs
  <1>5. ASSUME NEW q \in Procs, ProbeStep(q) PROVE JobInv(p)'
    BY <1>2, <1>5, ActsAtStep, ProbeKnows
  <1>6. ASSUME NEW q \in Procs, Crash(q) PROVE JobInv(p)'
    BY <1>2, <1>6, ActsAtStep, ReturnKnows DEF Crash
  <1>7. CASE UNCHANGED <<pc, job>>
    BY <1>1, <1>7, BystanderKeeps
  <1> QED  BY <1>3, <1>4, <1>5, <1>6, <1>7 DEF Next, ExpireNonceMutex, vars
-----------------------------------------------------------------------------
(* A row becomes CONFIRMED in two ways only: by receipt evidence for its   *)
(* own hash, or by the executor whose receipt wait ended in success.       *)
LEMMA OnlyChange ==
    ASSUME TypeInv, NEW s \in Stages, NEW a \in Attempts, NEW t \in Stages, NEW b \in Attempts,
           NEW status, NEW reason, journal' = SetStatus(t, b, status, reason),
           journal'[s][a] # journal[s][a]
    PROVE  s = t /\ a = b /\ journal'[s][a].status = status
  BY DEF SetStatus, TypeInv, TypeOK

LEMMA ReconciledConfirms ==
    ASSUME TypeInv, NEW s \in Stages, NEW a \in Attempts, NEW t \in Stages, NEW b \in Attempts,
           NEW e, journal' = Reconciled(t, b, e),
           journal'[s][a].status = "CONFIRMED", journal[s][a].status # "CONFIRMED"
    PROVE  s = t /\ a = b /\ e = "RECEIPT_SUCCESS"
  BY OnlyChange DEF Reconciled

LEMMA ConfirmedByEvidence ==
    ASSUME TypeInv, [Next]_vars, \A p \in Procs : JobInv(p), NEW s \in Stages, NEW a \in Attempts,
           journal'[s][a].status = "CONFIRMED", journal[s][a].status # "CONFIRMED"
    PROVE  journal[s][a].hash \in executed
  <1>1. ASSUME NEW p \in Procs, pc[p] \in {"classify", "record"}, NEW e,
               e = job[p].seen, journal' = Reconciled(job[p].stage, job[p].row, e)
        PROVE  journal[s][a].hash \in executed
    <2>1. HoldsRow(p) /\ job[p].stage \in Stages /\ job[p].row \in Attempts
      BY <1>1 DEF JobInv, Bound, RowLabels, HoldsRow, TypeInv, ProcsOK, Jobs
    <2>2. s = job[p].stage /\ a = job[p].row /\ e = "RECEIPT_SUCCESS"
      BY <1>1, <2>1, ReconciledConfirms
    <2> QED  BY <1>1, <2>1, <2>2 DEF HoldsRow, JobInv, Evident
  <1>2. ASSUME NEW p \in Executors, Classify(p) PROVE journal[s][a].hash \in executed
    <2>1. p \in Procs /\ pc[p] = "classify"
      BY <1>2 DEF Procs, Classify
    <2>2. CASE ClassifyReceipt(p) \/ ClassifyConsumed(p)
      BY <1>1, <2>1, <2>2 DEF ClassifyReceipt, ClassifyConsumed
    <2>3. CASE ClassifySubmitted(p) \/ ClassifyPending(p)
      <3>1. journal' = journal \/ journal' = SetStatus(job[p].stage, job[p].attempt, "SUBMITTED", "NONE")
        BY <2>3 DEF ClassifySubmitted, ClassifyPending, Submitted
      <3>2. job[p].stage \in Stages /\ job[p].attempt \in Attempts
        BY <2>1 DEF TypeInv, ProcsOK, Jobs
      <3> QED  BY <3>1, <3>2, OnlyChange
    <2> QED  BY <1>2, <2>2, <2>3 DEF Classify
  <1>3. ASSUME NEW p \in Executors, ReceiptSuccess(p) PROVE journal[s][a].hash \in executed
    <2>1. /\ p \in Procs /\ pc[p] = "receipt" /\ job[p].hash \in executed
          /\ job[p].stage \in Stages /\ job[p].attempt \in Attempts /\ job[p].row \in Attempts
      BY <1>3 DEF Procs, ReceiptSuccess, TypeInv, ProcsOK, Jobs
    <2>2. /\ IsLatest(job[p].stage, job[p].attempt)
          /\ journal' = SetStatus(job[p].stage, job[p].attempt, "CONFIRMED", "NONE")
      <3>1. \/ journal' = journal
            \/ journal' = SetStatus(job[p].stage, job[p].attempt, "SUBMITTED", "NONE")
            \/ /\ IsLatest(job[p].stage, job[p].attempt)
               /\ journal' = SetStatus(job[p].stage, job[p].attempt, "CONFIRMED", "NONE")
        BY <1>3 DEF ReceiptSuccess
      <3> QED  BY <2>1, <3>1, OnlyChange
    <2>3. s = job[p].stage /\ a = job[p].attempt
      BY <2>1, <2>2, OnlyChange
    <2>4. HoldsRow(p) /\ job[p].row >= job[p].attempt
      BY <2>1 DEF JobInv, Bound, RowLabels, RowOrder
    <2>5. job[p].row = job[p].attempt
      BY <2>1, <2>2, <2>4, MaxAttemptAssumption DEF HoldsRow, IsLatest, Attempts
    <2> QED  BY <2>1, <2>3, <2>4, <2>5 DEF HoldsRow
  <1>4. ASSUME NEW p \in Executors, ReceiptReverted(p) PROVE FALSE
    <2>1. p \in Procs /\ job[p].stage \in Stages
      BY <1>4 DEF Procs, ReceiptReverted, TypeInv, ProcsOK
    <2>2. journal' = journal
          \/ \E b \in Attempts : journal' = SetStatus(job[p].stage, b, "FAILED", "TRANSACTION_REVERTED")
      BY <1>4 DEF ReceiptReverted
    <2> QED  BY <2>1, <2>2, OnlyChange
  <1>5. ASSUME NEW r \in Reconcilers, ReconcilerStep(r) PROVE journal[s][a].hash \in executed
    BY <1>1, <1>5 DEF Procs, ReconcilerStep, PickCandidate, RecordEvidence, RecordBusy
  <1>6. ASSUME NEW p \in Executors, PersistPrepared(p) PROVE FALSE
    <2>1. p \in Procs /\ job[p].stage \in Stages /\ job[p].attempt \in Attempts
      BY <1>6 DEF Procs, PersistPrepared, TypeInv, ProcsOK, Jobs
    <2>2. journal' = journal \/ journal' = [journal EXCEPT ![job[p].stage][job[p].attempt] =
                [status |-> "PREPARED", hash |-> job[p].hash, reason |-> "NONE"]]
      BY <1>6 DEF PersistPrepared
    <2> QED  BY <2>1, <2>2 DEF TypeInv, TypeOK
  <1>7. ASSUME NEW p \in Executors,
               \/ \E t \in Stages : ReadJournal(p, t)
               \/ LoadJournal(p) \/ AcquireNonceMutex(p) \/ Sign(p) \/ Broadcast(p)
               \/ ReceiptTimeout(p)
        PROVE FALSE
    BY <1>7 DEF ReadJournal, LoadJournal, AcquireNonceMutex, Sign, Broadcast, ReceiptTimeout
  <1>8. ASSUME NEW p \in Procs, ProbeStep(p) \/ Crash(p) PROVE FALSE
    BY <1>8 DEF ProbeStep, ProbeConclusive, CountNonces, ProbeInconclusive, Crash
  <1>9. journal' # journal
    OBVIOUS
  <1> QED
    BY <1>2, <1>3, <1>4, <1>5, <1>6, <1>7, <1>8, <1>9 DEF Next, ExecutorStep, ExpireNonceMutex, vars

LEMMA InitConfirmed == Init => ConfirmInv
  <1> SUFFICES ASSUME Init PROVE ConfirmInv
    OBVIOUS
  <1>1. ConfirmedExecuted
    BY DEF Init, ConfirmedExecuted, NoRow
  <1>2. ASSUME NEW p \in Procs PROVE JobInv(p)
    BY DEF Init, JobInv, Bound, RowLabels, Evident, RowOrder, Fresh
  <1> QED  BY <1>1, <1>2 DEF ConfirmInv

LEMMA ConfirmStep ==
    ASSUME TypeInv, OrderInv, ConfirmInv, [Next]_vars
    PROVE  ConfirmInv'
  <1>1. ASSUME NEW p \in Procs PROVE JobInv(p)'
    BY JobsKnow DEF ConfirmInv
  <1>2. ASSUME NEW s \in Stages, NEW a \in Attempts, journal'[s][a].status = "CONFIRMED"
        PROVE  journal'[s][a].hash \in executed'
    <2>1. executed \subseteq executed' /\ JournalMove
      BY ReceiptStays, NextStep DEF StepOK
    <2>2. journal[s][a].hash \in executed
      BY <1>2, ConfirmedByEvidence DEF ConfirmInv, ConfirmedExecuted
    <2>3. journal'[s][a].hash = journal[s][a].hash
      <3>1. CASE Present(s, a)
        BY <2>1, <3>1, RowStays
      <3>2. CASE ~Present(s, a)
        <4>1. journal'[s][a] = journal[s][a] \/ Inserted(s, a)
          BY <2>1, <3>2 DEF JournalMove, RowStep, Present, Live
        <4>2. CASE Inserted(s, a)
          <5>1. PICK p \in Executors : journal'[s][a] =
                  [status |-> "PREPARED", hash |-> job[p].hash, reason |-> "NONE"]
            BY <4>2 DEF Inserted
          <5> QED  BY <1>2, <5>1
        <4> QED  BY <4>1, <4>2
      <3> QED  BY <3>1, <3>2
    <2> QED  BY <2>1, <2>2, <2>3
  <1> QED  BY <1>1, <1>2 DEF ConfirmInv, ConfirmedExecuted

(* CONFIRMED is only ever written for the row of a transaction that        *)
(* succeeded on chain, by whichever of executor and reconciler came first, *)
(* however stale the evidence and whoever held the nonce mutex.            *)
THEOREM ConfirmedWasExecuted == Spec => []ConfirmedExecuted
  <1>1. TypeInv /\ OrderInv /\ ConfirmInv /\ [Next]_vars => ConfirmInv'
    BY ConfirmStep
  <1>2. ConfirmInv => ConfirmedExecuted
    BY DEF ConfirmInv
  <1> QED  BY <1>1, <1>2, InitConfirmed, TypeInvariant, OrderInvariant, PTL DEF Spec
-----------------------------------------------------------------------------
(* The journal calls no transaction FAILED that succeeded.                 *)
FailedFailed ==
    \A s \in Stages, a \in Attempts :
        journal[s][a].status = "FAILED" => journal[s][a].hash \notin executed

(* A stage takes effect a second time only after the journal has called a  *)
(* transaction FAILED that succeeded, which journal_failed_lands shows it  *)
(* does: no other order of confirmations, crashes, lost mutexes, resends   *)
(* and late bytes leads there, whatever the number of executors and        *)
(* however evidence is read.                                               *)
THEOREM OnlyMisjudgedRepeats == Spec => [](FailedFailed => SingleExecution)
  <1>1. ASSUME TypeInv, SentInv, AttemptsInOrder, JournalBeforeBroadcast, FailedFailed
        PROVE  SingleExecution
    <2> SUFFICES ASSUME NEW g \in executed, NEW h \in executed, g.stage = h.stage, g # h
                 PROVE  FALSE
      BY DEF SingleExecution
    <2>1. g.stage \in Stages
      BY <1>1 DEF TypeInv, TypeOK, ChainTypeOK, Hashes
    <2>2. PICK a \in Attempts : journal[g.stage][a].hash = g
      BY <1>1 DEF JournalBeforeBroadcast
    <2>3. PICK b \in Attempts : journal[g.stage][b].hash = h
      BY <1>1 DEF JournalBeforeBroadcast
    <2>4. a \in Nat /\ b \in Nat /\ (a < b \/ b < a)
      BY <2>2, <2>3, MaxAttemptAssumption DEF Attempts
    <2>5. Present(g.stage, a) /\ Present(g.stage, b)
      BY <1>1, <2>1, <2>2, <2>3, NullAssumption DEF SentInv, RowsHash, TypeInv, TypeOK, ChainTypeOK
    <2>6. journal[g.stage][a].status = "FAILED" \/ journal[g.stage][b].status = "FAILED"
      BY <1>1, <2>1, <2>4, <2>5 DEF AttemptsInOrder
    <2> QED  BY <1>1, <2>1, <2>2, <2>3, <2>6 DEF FailedFailed
  <1> QED  BY <1>1, SentInvariant, TypeInvariant, AttemptsOrdered, JournalledFirst, PTL
=============================================================================
