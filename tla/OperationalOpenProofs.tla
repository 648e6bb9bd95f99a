------------------------- MODULE OperationalOpenProofs -------------------------
(***************************************************************************)
(* Theorems about OperationalOpen, for every number of intents, nonces and *)
(* variants, every label of the mint, every reason the terminalisation may *)
(* ask for, with a second provider or without, and with late delivery.     *)
(***************************************************************************)
EXTENDS OperationalOpen, TLAPS

(* Before a call has a hash, and while it works on one.                    *)
EarlyLabels == {"acquire", "sign"}
HashLabels == {"broadcast", "sent", "resend", "probe", "count", "classify", "receipt"}

(* A column holds a hash that was signed for its phase.                    *)
ColumnsSigned ==
    \A i \in Intents, f \in Phases :
        row[i].hash[f] # NULL => row[i].hash[f].stage = <<i, f>>

(* An intent fails as absent only after its hash was stored.               *)
RetryableStored == \A i \in Intents : Retryable(i) => ExecutionTrace(i)

(* A call works on the hash of its column, and signs a mint only while     *)
(* there is none.                                                          *)
CallKnows(i) ==
    /\ pc[i] \in EarlyLabels \cup HashLabels =>
          /\ call[i].phase \in Phases
          /\ call[i].then \in {"erc20", "permit2", "acquire", "mint", "project"}
          /\ call[i].phase = "MINT" => call[i].then = "project"
    /\ pc[i] \in EarlyLabels /\ call[i].phase = "MINT" => MintHash(i) = NULL
    /\ pc[i] \in HashLabels =>
          /\ call[i].hash # NULL
          /\ row[i].hash[call[i].phase] = call[i].hash

(* What is on the network has its column; a mint is still the one in it.   *)
NetworkStored ==
    \A h \in OnNetwork :
        /\ row[h.stage[1]].hash[h.stage[2]] # NULL
        /\ h.stage[2] = "MINT" => MintHash(h.stage[1]) = h

(* The worker reconciles what it has projected.                            *)
WorkerKnows ==
    worker.step \in {"reconcile", "complete"} =>
        worker.intent \in Intents /\ MintHash(worker.intent) # NULL

(* An intent that may be replaced is at rest, and nothing was signed for   *)
(* it; one that the operator ended stays ended.                            *)
AtRest(i) == pc[i] = "idle" /\ ~ExecutionTrace(i)

ReplaceableAtRest ==
    \A i \in Intents :
        /\ row[i].step = "FAILED_RETRYABLE" \/ i \in audit => AtRest(i)
        /\ i \in audit => row[i].step = "FAILED"

OpenInv ==
    /\ TypeOK
    /\ ColumnsSigned /\ RetryableStored
    /\ \A i \in Intents : CallKnows(i)
    /\ NetworkStored /\ WorkerKnows /\ ReplaceableAtRest
-----------------------------------------------------------------------------
(* The writes of the ledger keep its types, and the hashes.                *)

AbsentReasons == {"ABSENT_NONCE_AVAILABLE", "ABSENT_AFTER_RESEND"}

(* What one step may do to the row of intent i without signing.            *)
RowKept(i, rows) ==
    /\ rows \in [Intents -> Intent]
    /\ \A j \in Intents \ {i} : rows[j] = row[j]
    /\ rows[i].hash = row[i].hash

LEMMA MovedKeeps ==
    ASSUME row \in [Intents -> Intent], NEW i \in Intents,
           NEW phase \in Phases \cup {NULL}, NEW step \in Steps
    PROVE  /\ RowKept(i, Moved(i, phase, step))
           /\ Moved(i, phase, step)[i].step = step
           /\ Moved(i, phase, step)[i].reason = row[i].reason
  BY DEF Moved, RowKept, Intent

LEMMA FailedKeeps ==
    ASSUME row \in [Intents -> Intent], NEW i \in Intents, NEW reason \in Reasons
    PROVE  /\ RowKept(i, Failed(i, reason))
           /\ Failed(i, reason)[i].step = "FAILED"
           /\ Failed(i, reason)[i].reason = reason
  BY DEF Failed, RowKept, Intent, Steps

(* A call at work, or about to begin, is not at rest.                      *)
LEMMA BusyNotAtRest ==
    ASSUME OpenInv, NEW i \in Intents, pc[i] # "idle" \/ Executable(i)
    PROVE  row[i].step # "FAILED_RETRYABLE" /\ i \notin audit
  BY DEF OpenInv, ReplaceableAtRest, AtRest, Executable, RetryableStored
-----------------------------------------------------------------------------
(* The step of one call, and what it may change.                           *)

CallMoves(i) ==
    /\ pc' \in [Intents -> Labels]
    /\ call' \in [Intents -> Calls]
    /\ \A j \in Intents \ {i} : pc'[j] = pc[j] /\ call'[j] = call[j]

LEMMA ReturnMoves ==
    ASSUME TypeOK, NEW i \in Intents, Return(i)
    PROVE  CallMoves(i) /\ pc'[i] = "idle"
  BY DEF TypeOK, Return, Goto, CallMoves, NoCall, Calls, Labels, Seen

LEMMA ContinueMoves ==
    ASSUME TypeOK, NEW i \in Intents, NEW label \in Labels, Continue(i, label)
    PROVE  CallMoves(i) /\ pc'[i] = label /\ call' = call
  BY DEF TypeOK, Continue, Goto, CallMoves

LEMMA BeginMoves ==
    ASSUME TypeOK, NEW i \in Intents, NEW phase \in Phases, NEW hash \in Hashes \cup {NULL},
           NEW label \in Labels, NEW then \in Labels, Begin(i, phase, hash, label, then)
    PROVE  /\ CallMoves(i) /\ pc'[i] = label
           /\ call'[i].phase = phase /\ call'[i].hash = hash /\ call'[i].then = then
  BY DEF TypeOK, Begin, Goto, CallMoves, NoCall, Calls, Labels, Seen

(* The row after the step: not made retryable, and absent only with a hash.*)
RowLives(i) ==
    /\ RowKept(i, row')
    /\ row'[i].step # "FAILED_RETRYABLE"
    /\ row'[i].reason \in AbsentReasons => ExecutionTrace(i)

OthersKept ==
    /\ gas' \subseteq Intents /\ UNCHANGED audit
    /\ receipts' \subseteq [hash : Hashes, label : {"MINT", "V4_MINT"}]
    /\ projected' \subseteq Intents
    /\ work' \in [Intents -> {"NONE", "PENDING", "COMPLETED"}]
    /\ UNCHANGED <<worker, chainVars>>

LEMMA CallStepKeeps ==
    ASSUME OpenInv, NEW i \in Intents, pc[i] # "idle" \/ Executable(i),
           CallMoves(i), RowLives(i), OthersKept, CallKnows(i)'
    PROVE  OpenInv'
  <1>1. TypeOK'
    BY DEF OpenInv, TypeOK, CallMoves, RowLives, RowKept, OthersKept, chainVars, ChainTypeOK
  <1>2. \A j \in Intents : row'[j].hash = row[j].hash
    BY DEF RowLives, RowKept
  <1>3. \A j \in Intents : ExecutionTrace(j)' = ExecutionTrace(j) /\ MintHash(j)' = MintHash(j)
    BY <1>2 DEF ExecutionTrace, MintHash
  <1>4. ColumnsSigned'
    BY <1>2 DEF OpenInv, ColumnsSigned
  <1>5. RetryableStored'
    BY <1>3 DEF OpenInv, RetryableStored, Retryable, RowLives, RowKept, AbsentReasons
  <1>6. \A j \in Intents : CallKnows(j)'
    BY <1>2 DEF OpenInv, CallKnows, CallMoves, MintHash, RowLives, RowKept
  <1>7. NetworkStored'
    <2>1. \A h \in Hashes : h.stage[1] \in Intents
      BY StagesAssumption DEF Hashes
    <2>2. OnNetwork' = OnNetwork /\ OnNetwork \subseteq Hashes
      BY DEF OthersKept, OnNetwork, chainVars, OpenInv, TypeOK, ChainTypeOK
    <2> QED  BY <1>2, <1>3, <2>1, <2>2 DEF OpenInv, NetworkStored
  <1>8. WorkerKnows'
    BY <1>3 DEF OpenInv, WorkerKnows, OthersKept
  <1>9. ReplaceableAtRest'
    <2> SUFFICES ASSUME NEW j \in Intents
                 PROVE  /\ (row[j].step = "FAILED_RETRYABLE" \/ j \in audit => AtRest(j))'
                        /\ (j \in audit => row[j].step = "FAILED")'
      BY DEF ReplaceableAtRest
    <2>1. CASE j = i
      BY <2>1, BusyNotAtRest DEF RowLives, OthersKept
    <2>2. CASE j # i
      BY <2>2, <1>3 DEF OpenInv, ReplaceableAtRest, AtRest, CallMoves, OthersKept, RowLives, RowKept
    <2> QED  BY <2>1, <2>2
  <1> QED  BY <1>1, <1>4, <1>5, <1>6, <1>7, <1>8, <1>9 DEF OpenInv
-----------------------------------------------------------------------------
(* The actions of a call.                                                  *)

LEMMA ReturnKeeps ==
    ASSUME OpenInv, NEW i \in Intents, pc[i] # "idle", Return(i), RowLives(i), OthersKept
    PROVE  OpenInv'
  <1>1. CallMoves(i) /\ pc'[i] = "idle"
    BY ReturnMoves DEF OpenInv
  <1>2. CallKnows(i)'
    BY <1>1 DEF CallKnows, EarlyLabels, HashLabels
  <1> QED  BY <1>1, <1>2, CallStepKeeps

(* A call goes on with what it has.                                        *)
LEMMA ContinueKeeps ==
    ASSUME OpenInv, NEW i \in Intents, pc[i] # "idle" \/ Executable(i),
           NEW label \in Labels, Continue(i, label), RowLives(i), OthersKept,
           label \in EarlyLabels => pc[i] \in EarlyLabels \/ (pc[i] \in HashLabels /\ call[i].phase # "MINT"),
           label \in HashLabels => pc[i] \in HashLabels
    PROVE  OpenInv'
  <1>1. CallMoves(i) /\ pc'[i] = label /\ call' = call
    BY ContinueMoves DEF OpenInv
  <1>2. CallKnows(i)'
    BY <1>1 DEF CallKnows, OpenInv, RowLives, RowKept, MintHash, EarlyLabels, HashLabels
  <1> QED  BY <1>1, <1>2, CallStepKeeps

(* It begins a phase, with the hash of its column or to sign one.          *)
LEMMA BeginKeeps ==
    ASSUME OpenInv, NEW i \in Intents, pc[i] # "idle", RowLives(i), OthersKept,
           NEW phase \in Phases, NEW hash, NEW label \in {"acquire", "receipt", "resend"},
           NEW then \in {"erc20", "permit2", "acquire", "mint", "project"},
           Begin(i, phase, hash, label, then),
           phase = "MINT" => then = "project",
           IF label = "acquire" THEN hash = NULL /\ (phase = "MINT" => MintHash(i) = NULL)
           ELSE hash # NULL /\ hash = row[i].hash[phase]
    PROVE  OpenInv'
  <1>1. hash \in Hashes \cup {NULL}
    BY DEF OpenInv, TypeOK, Intent
  <1>2. /\ CallMoves(i) /\ pc'[i] = label
        /\ call'[i].phase = phase /\ call'[i].hash = hash /\ call'[i].then = then
    BY <1>1, BeginMoves DEF OpenInv, Labels
  <1>3. CallKnows(i)'
    BY <1>2 DEF CallKnows, RowLives, RowKept, MintHash, EarlyLabels, HashLabels
  <1> QED  BY <1>2, <1>3, CallStepKeeps

LEMMA UnchangedLives ==
    ASSUME OpenInv, NEW i \in Intents, pc[i] # "idle" \/ Executable(i), UNCHANGED row
    PROVE  RowLives(i)
  BY BusyNotAtRest DEF RowLives, RowKept, OpenInv, TypeOK, RetryableStored, Retryable, AbsentReasons

LEMMA MovedLives ==
    ASSUME OpenInv, NEW i \in Intents, NEW phase \in Phases \cup {NULL},
           NEW step \in Steps \ {"FAILED_RETRYABLE"}, row' = Moved(i, phase, step)
    PROVE  RowLives(i)
  BY MovedKeeps DEF RowLives, OpenInv, TypeOK, RetryableStored, Retryable, AbsentReasons

LEMMA ReasonGivenLives ==
    ASSUME OpenInv, NEW i \in Intents, NEW phase \in Phases \cup {NULL},
           NEW step \in Steps \ {"FAILED_RETRYABLE"}, NEW reason \in {"NONE", "OTHER"},
           row' = [Moved(i, phase, step) EXCEPT ![i].reason = reason]
    PROVE  RowLives(i)
  <1> DEFINE moved == Moved(i, phase, step)
  <1>1. RowKept(i, moved) /\ moved[i].step = step
    BY MovedKeeps DEF OpenInv, TypeOK
  <1>2. row' = [moved EXCEPT ![i] = [moved[i] EXCEPT !.reason = reason]]
    OBVIOUS
  <1> HIDE DEF moved
  <1>3. moved[i] \in Intent
    BY <1>1 DEF RowKept
  <1>4. [moved[i] EXCEPT !.reason = reason] \in Intent
    BY <1>3 DEF Intent, Reasons
  <1>5. row' \in [Intents -> Intent] /\ row'[i] = [moved[i] EXCEPT !.reason = reason]
    BY <1>1, <1>2, <1>4 DEF RowKept
  <1>6. row'[i].hash = moved[i].hash /\ row'[i].step = step /\ row'[i].reason = reason
    BY <1>1, <1>3, <1>5 DEF Intent
  <1>7. \A j \in Intents \ {i} : row'[j] = row[j]
    BY <1>1, <1>2 DEF RowKept
  <1> QED  BY <1>1, <1>5, <1>6, <1>7 DEF RowLives, RowKept, AbsentReasons

LEMMA FailedLives ==
    ASSUME OpenInv, NEW i \in Intents, NEW reason \in Reasons, row' = Failed(i, reason),
           reason \in AbsentReasons => ExecutionTrace(i)
    PROVE  RowLives(i)
  BY FailedKeeps DEF RowLives, OpenInv, TypeOK

LEMMA CaughtLives ==
    ASSUME OpenInv, NEW i \in Intents, pc[i] # "idle", NEW stored,
           NEW reason \in {"OTHER", "GAS_CAP"}, Caught(i, stored, reason)
    PROVE  Return(i) /\ RowLives(i)
  <1>1. CASE row' = row
    BY <1>1, UnchangedLives DEF Caught
  <1>2. CASE row' = Failed(i, reason)
    BY <1>2, FailedLives DEF Caught, Reasons, AbsentReasons
  <1> QED  BY <1>1, <1>2 DEF Caught

LEMMA OthersUnchanged ==
    ASSUME OpenInv, UNCHANGED <<gas, audit, receipts, projected, work, worker, chainVars>>
    PROVE  OthersKept
  BY DEF OthersKept, OpenInv, TypeOK

(* A hash in work is stored in the row.                                    *)
LEMMA WorkingHasTrace ==
    ASSUME OpenInv, NEW i \in Intents, pc[i] \in HashLabels
    PROVE  /\ ExecutionTrace(i) /\ call[i].phase \in Phases /\ call[i].hash \in Hashes
           /\ call[i].hash.stage = <<i, call[i].phase>>
  BY DEF OpenInv, CallKnows, ExecutionTrace, TypeOK, Calls, ColumnsSigned

LEMMA AdmissionKeeps ==
    ASSUME OpenInv, NEW i \in Intents, Confirm(i) \/ Preflight(i) \/ Claim(i)
    PROVE  OpenInv'
  <1>1. CASE Confirm(i)
    BY <1>1, UnchangedLives, OthersUnchanged, ContinueKeeps DEF Confirm, Labels, EarlyLabels, HashLabels
  <1>2. CASE Preflight(i)
    <2>1. RowLives(i) /\ OthersKept /\ pc[i] # "idle"
      BY <1>2, UnchangedLives, OthersUnchanged DEF Preflight
    <2>2. CASE Return(i)
      BY <2>1, <2>2, ReturnKeeps
    <2>3. CASE Continue(i, "claim")
      BY <2>1, <2>3, ContinueKeeps DEF Labels, EarlyLabels, HashLabels
    <2> QED  BY <1>2, <2>2, <2>3 DEF Preflight
  <1>3. CASE Claim(i)
    <2>1. RowLives(i)
      BY <1>3, UnchangedLives, MovedLives DEF Claim, Steps
    <2> QED  BY <1>3, <2>1, OthersUnchanged, ContinueKeeps DEF Claim, Labels, EarlyLabels, HashLabels
  <1> QED  BY <1>1, <1>2, <1>3

LEMMA ApproveErc20Keeps ==
    ASSUME OpenInv, NEW i \in Intents, ApproveErc20(i)
    PROVE  OpenInv'
  <1>1. pc[i] # "idle" /\ RowLives(i) /\ OthersKept
    BY UnchangedLives, OthersUnchanged DEF ApproveErc20
  <1> DEFINE hash == row[i].hash["ERC20"]
  <1>2. CASE hash # NULL /\ Begin(i, "ERC20", hash, "receipt", "erc20")
    BY <1>1, <1>2, BeginKeeps DEF Phases
  <1>3. CASE Continue(i, "permit2")
    BY <1>1, <1>3, ContinueKeeps DEF Labels, EarlyLabels, HashLabels
  <1>4. CASE hash # NULL /\ Begin(i, "ERC20", hash, "resend", "permit2")
    BY <1>1, <1>4, BeginKeeps DEF Phases
  <1>5. CASE Begin(i, "ERC20", NULL, "acquire", "permit2")
    BY <1>1, <1>5, BeginKeeps DEF Phases
  <1> QED  BY <1>2, <1>3, <1>4, <1>5 DEF ApproveErc20

LEMMA ApprovePermit2Keeps ==
    ASSUME OpenInv, NEW i \in Intents, ApprovePermit2(i)
    PROVE  OpenInv'
  <1>1. pc[i] = "permit2" /\ OthersKept
    BY OthersUnchanged DEF ApprovePermit2
  <1> DEFINE hash == row[i].hash["PERMIT2"]
  <1>2. CASE DeclareNotBroadcast(i)
    <2>1. CASE /\ row' = [Moved(i, "PERMIT2", "NON_BROADCAST_TERMINAL") EXCEPT ![i].reason = "NONE"]
               /\ Continue(i, "mint")
      <3>1. RowLives(i)
        BY <2>1, ReasonGivenLives DEF Phases, Steps
      <3> QED  BY <1>1, <2>1, <3>1, ContinueKeeps DEF Labels, EarlyLabels, HashLabels
    <2>2. CASE Throw(i)
      BY <1>1, <2>2, CaughtLives, ReturnKeeps DEF Throw
    <2> QED  BY <1>2, <2>1, <2>2 DEF DeclareNotBroadcast
  <1>3. CASE UNCHANGED row /\ ~DeclareNotBroadcast(i)
    <2>1. RowLives(i)
      BY <1>1, <1>3, UnchangedLives
    <2>2. CASE Continue(i, "mint")
      BY <1>1, <2>1, <2>2, ContinueKeeps DEF Labels, EarlyLabels, HashLabels
    <2>3. CASE hash # NULL /\ Begin(i, "PERMIT2", hash, "resend", "acquire")
      BY <1>1, <2>1, <2>3, BeginKeeps DEF Phases
    <2>4. CASE hash # NULL /\ Begin(i, "PERMIT2", hash, "receipt", "acquire")
      BY <1>1, <2>1, <2>4, BeginKeeps DEF Phases
    <2>5. CASE Begin(i, "PERMIT2", NULL, "acquire", "mint")
      BY <1>1, <2>1, <2>5, BeginKeeps DEF Phases
    <2> QED  BY <1>3, <2>2, <2>3, <2>4, <2>5 DEF ApprovePermit2
  <1> QED  BY <1>2, <1>3 DEF ApprovePermit2

LEMMA MintKeeps ==
    ASSUME OpenInv, NEW i \in Intents, Mint(i)
    PROVE  OpenInv'
  <1>1. pc[i] # "idle" /\ RowLives(i) /\ OthersKept
    BY MovedLives, OthersUnchanged DEF Mint, Steps
  <1>2. CASE MintHash(i) = NULL
    <2>1. Begin(i, "MINT", NULL, "acquire", "project")
      BY <1>2 DEF Mint
    <2> QED  BY <1>1, <1>2, <2>1, BeginKeeps DEF Phases
  <1>3. CASE MintHash(i) # NULL
    <2>1. PICK label \in {"resend", "receipt"} : Begin(i, "MINT", MintHash(i), label, "project")
      BY <1>3 DEF Mint
    <2> QED  BY <1>1, <1>3, <2>1, BeginKeeps DEF Phases, MintHash
  <1> QED  BY <1>2, <1>3
-----------------------------------------------------------------------------
(* submit, resendPersisted and the evidence.                               *)

LEMMA SendingMoves ==
    ASSUME TypeOK, NEW i \in Intents, NEW label \in Labels, Goto(i, label),
           NEW sending \in {"FIRST", "BEFORE_RESEND", "RESENT"},
           call' = [call EXCEPT ![i].sending = sending]
    PROVE  /\ CallMoves(i) /\ pc'[i] = label
           /\ call'[i].phase = call[i].phase /\ call'[i].hash = call[i].hash
           /\ call'[i].then = call[i].then
  <1> DEFINE next == [call[i] EXCEPT !.sending = sending]
  <1>1. next \in Calls /\ next.phase = call[i].phase /\ next.hash = call[i].hash
        /\ next.then = call[i].then
    BY DEF TypeOK, Calls
  <1>2. call' = [call EXCEPT ![i] = next]
    OBVIOUS
  <1> HIDE DEF next
  <1> QED  BY <1>1, <1>2 DEF TypeOK, Goto, CallMoves

LEMMA SeeMoves ==
    ASSUME TypeOK, NEW i \in Intents, NEW seen \in Seen, See(i, seen)
    PROVE  /\ CallMoves(i) /\ pc'[i] = "classify"
           /\ call'[i].phase = call[i].phase /\ call'[i].hash = call[i].hash
           /\ call'[i].then = call[i].then
  <1> DEFINE next == [call[i] EXCEPT !.seen = seen]
  <1>1. next \in Calls /\ next.phase = call[i].phase /\ next.hash = call[i].hash
        /\ next.then = call[i].then
    BY DEF TypeOK, Calls
  <1>2. call' = [call EXCEPT ![i] = next]
    BY DEF See
  <1> HIDE DEF next
  <1> QED  BY <1>1, <1>2 DEF TypeOK, See, Goto, CallMoves, Labels

(* A call goes on with its hash.                                           *)
LEMMA WorkingKeeps ==
    ASSUME OpenInv, NEW i \in Intents, pc[i] \in HashLabels, RowLives(i), OthersKept,
           CallMoves(i), pc'[i] \in HashLabels,
           call'[i].phase = call[i].phase, call'[i].hash = call[i].hash,
           call'[i].then = call[i].then
    PROVE  OpenInv'
  <1>1. CallKnows(i)'
    BY DEF CallKnows, OpenInv, RowLives, RowKept, MintHash, EarlyLabels, HashLabels
  <1> QED  BY <1>1, CallStepKeeps DEF HashLabels

LEMMA AcquireNonceKeeps ==
    ASSUME OpenInv, NEW i \in Intents, AcquireNonce(i)
    PROVE  OpenInv'
  <1>1. pc[i] = "acquire" /\ RowLives(i) /\ OthersKept
    BY UnchangedLives, OthersUnchanged DEF AcquireNonce
  <1>2. call[i] \in Calls /\ pc' = [pc EXCEPT ![i] = "sign"]
    BY DEF AcquireNonce, Goto, OpenInv, TypeOK
  <1>3. /\ CallMoves(i) /\ pc'[i] = "sign"
        /\ call'[i].phase = call[i].phase
        /\ call'[i].then = call[i].then \/ (call[i].then = "acquire" /\ call'[i].then = "mint")
    BY <1>2 DEF AcquireNonce, OpenInv, TypeOK, CallMoves, Calls, Labels
  <1>4. CallKnows(i)'
    BY <1>1, <1>3 DEF AcquireNonce, CallKnows, OpenInv, MintHash, EarlyLabels, HashLabels
  <1> QED  BY <1>1, <1>3, <1>4, CallStepKeeps

LEMMA RecordSentKeeps ==
    ASSUME OpenInv, NEW i \in Intents, RecordSent(i)
    PROVE  OpenInv'
  <1>1. pc[i] \in HashLabels /\ call[i].phase \in Phases
    BY DEF RecordSent, HashLabels, OpenInv, CallKnows
  <1>2. RowLives(i) /\ OthersKept
    BY <1>1, MovedLives, OthersUnchanged DEF RecordSent, Steps
  <1>3. CASE Continue(i, "receipt")
    BY <1>1, <1>2, <1>3, ContinueMoves, WorkingKeeps DEF OpenInv, Labels, HashLabels
  <1>4. CASE Goto(i, "probe") /\ call' = [call EXCEPT ![i].sending = "RESENT"]
    BY <1>1, <1>2, <1>4, SendingMoves, WorkingKeeps DEF OpenInv, Labels, HashLabels
  <1> QED  BY <1>3, <1>4 DEF RecordSent

LEMMA EvidenceKeeps ==
    ASSUME OpenInv, NEW i \in Intents, ResendPersisted(i) \/ Probe(i) \/ CountNonces(i)
    PROVE  OpenInv'
  <1>1. pc[i] \in HashLabels /\ RowLives(i) /\ OthersKept
    BY UnchangedLives, OthersUnchanged DEF ResendPersisted, Probe, CountNonces, HashLabels
  <1>2. CASE ResendPersisted(i)
    BY <1>1, <1>2, SendingMoves, WorkingKeeps DEF ResendPersisted, OpenInv, Labels, HashLabels
  <1>3. ASSUME NEW seen \in Seen, See(i, seen) PROVE OpenInv'
    BY <1>1, <1>3, SeeMoves, WorkingKeeps DEF OpenInv, HashLabels
  <1>4. CASE Probe(i)
    <2>1. CASE Continue(i, "count")
      BY <1>1, <2>1, ContinueMoves, WorkingKeeps DEF OpenInv, Labels, HashLabels
    <2> QED  BY <1>3, <1>4, <2>1 DEF Probe, Seen
  <1>5. CASE CountNonces(i)
    <2>1. PICK seen \in {"AVAILABLE", "CONSUMED"} : See(i, seen)
      BY <1>5 DEF CountNonces
    <2> QED  BY <1>3, <2>1 DEF Seen
  <1> QED  BY <1>2, <1>4, <1>5

LEMMA GiveUpKeeps ==
    ASSUME OpenInv, NEW i \in Intents, pc[i] \in HashLabels, OthersKept,
           NEW reason \in Reasons, GiveUp(i, reason)
    PROVE  OpenInv'
  <1>1. RowLives(i)
    BY WorkingHasTrace, FailedLives DEF GiveUp
  <1> QED  BY <1>1, ReturnKeeps DEF GiveUp, HashLabels

LEMMA ClassifyKeeps ==
    ASSUME OpenInv, NEW i \in Intents, Classify(i)
    PROVE  OpenInv'
  <1>1. pc[i] \in HashLabels /\ call[i].phase \in Phases /\ OthersKept
    BY OthersUnchanged DEF Classify, HashLabels, OpenInv, CallKnows
  <1>2. ASSUME NEW label \in {"receipt", "broadcast"}, Continue(i, label), RowLives(i)
        PROVE  OpenInv'
    BY <1>1, <1>2, ContinueMoves, WorkingKeeps DEF OpenInv, Labels, HashLabels
  <1>3. CASE Continue(i, "receipt") /\ UNCHANGED row
    BY <1>1, <1>2, <1>3, UnchangedLives DEF HashLabels
  <1>4. CASE Pending(i)
    BY <1>1, <1>2, <1>4, MovedLives DEF Pending, Steps
  <1>5. CASE ClassifyBeforeResend(i)
    <2>1. CASE /\ row' = [Moved(i, call[i].phase, "IDENTICAL_RESEND_PREPARED") EXCEPT ![i].reason = "NONE"]
               /\ Continue(i, "broadcast")
      BY <1>1, <1>2, <2>1, ReasonGivenLives DEF Steps
    <2>2. CASE Throw(i)
      BY <1>1, <2>2, CaughtLives, ReturnKeeps DEF Throw, HashLabels
    <2> QED  BY <1>5, <2>1, <2>2 DEF ClassifyBeforeResend
  <1>6. CASE ClassifyAfterSend(i)
    <2>1. CASE /\ row' = [Moved(i, call[i].phase, "BROADCAST_AMBIGUOUS") EXCEPT ![i].reason = "OTHER"]
               /\ Return(i)
      <3>1. RowLives(i)
        BY <1>1, <2>1, ReasonGivenLives DEF Steps
      <3> QED  BY <1>1, <2>1, <3>1, ReturnKeeps DEF HashLabels
    <2>2. ASSUME NEW reason \in {"OTHER", "ABSENT_NONCE_AVAILABLE", "ABSENT_AFTER_RESEND"},
                 GiveUp(i, reason)
          PROVE  OpenInv'
      BY <1>1, <2>2, GiveUpKeeps DEF Reasons
    <2>3. CASE /\ row' = Moved(i, call[i].phase, "IDENTICAL_RESEND_PREPARED")
               /\ Continue(i, "broadcast")
      BY <1>1, <1>2, <2>3, MovedLives DEF Steps
    <2> QED  BY <1>6, <2>1, <2>2, <2>3 DEF ClassifyAfterSend
  <1> QED  BY <1>3, <1>4, <1>5, <1>6 DEF Classify

LEMMA ReceiptKeeps ==
    ASSUME OpenInv, NEW i \in Intents, Receipt(i)
    PROVE  OpenInv'
  <1>1. pc[i] \in HashLabels /\ call[i].phase \in Phases /\ call[i].hash \in Hashes
    BY WorkingHasTrace DEF Receipt, HashLabels
  <1>2. MintReceipt(i) \subseteq [hash : Hashes, label : {"MINT", "V4_MINT"}]
    BY <1>1, LabelsAssumption DEF MintReceipt
  <1>3. OthersKept
    BY <1>2 DEF Receipt, OthersKept, OpenInv, TypeOK
  <1>4. CASE /\ row' = IF call[i].phase = "MINT" THEN row ELSE Moved(i, call[i].phase, "CONFIRMED")
             /\ Continue(i, call[i].then)
    <2>1. RowLives(i)
      BY <1>1, <1>4, UnchangedLives, MovedLives DEF Steps, HashLabels
    <2>2. /\ call[i].then \in {"erc20", "permit2", "acquire", "mint", "project"}
          /\ call[i].phase = "MINT" => call[i].then = "project"
      BY <1>1 DEF OpenInv, CallKnows
    <2> QED  BY <1>1, <1>3, <1>4, <2>1, <2>2, ContinueKeeps DEF Labels, EarlyLabels, HashLabels
  <1>5. CASE Caught(i, receipts', "OTHER")
    BY <1>1, <1>3, <1>5, CaughtLives, ReturnKeeps DEF HashLabels
  <1> QED  BY <1>4, <1>5 DEF Receipt

LEMMA ProjectionLives ==
    ASSUME OpenInv, NEW i \in Intents, PersistProjection(i)
    PROVE  RowLives(i) /\ projected' \subseteq Intents
  <1>1. RowLives(i)
    BY MovedLives DEF PersistProjection, Phases, Steps
  <1> QED  BY <1>1 DEF PersistProjection, Projected, OpenInv, TypeOK

LEMMA ProjectKeeps ==
    ASSUME OpenInv, NEW i \in Intents, Project(i)
    PROVE  OpenInv'
  <1>1. pc[i] = "project" /\ Return(i)
    BY DEF Project
  <1>2. RowLives(i) /\ projected' \subseteq Intents
    BY <1>1, ProjectionLives, UnchangedLives DEF Project, OpenInv, TypeOK
  <1>3. OthersKept
    BY <1>2 DEF Project, Ensured, OthersKept, OpenInv, TypeOK
  <1> QED  BY <1>1, <1>2, <1>3, ReturnKeeps

LEMMA FailsKeeps ==
    ASSUME OpenInv, NEW i \in Intents, Fails(i)
    PROVE  OpenInv'
  <1>1. pc[i] # "idle" /\ OthersKept
    BY OthersUnchanged DEF Fails
  <1>2. Return(i) /\ RowLives(i)
    BY <1>1, CaughtLives, UnchangedLives DEF Fails, Throw, GasCapExceeded
  <1> QED  BY <1>1, <1>2, ReturnKeeps
-----------------------------------------------------------------------------
(* Signing, sending and the chain.                                         *)

LEMMA HashStage ==
    ASSUME NEW h \in Hashes
    PROVE  h.stage[1] \in Intents /\ h.stage[2] \in Phases /\ h.stage = <<h.stage[1], h.stage[2]>>
  BY StagesAssumption DEF Hashes

LEMMA SignedRow ==
    ASSUME TypeOK, NEW i \in Intents, NEW f \in Phases, NEW h \in Hashes,
           row' = [Moved(i, f, "PREPARED") EXCEPT ![i].hash[f] = h]
    PROVE  /\ row' \in [Intents -> Intent]
           /\ \A j \in Intents \ {i} : row'[j] = row[j]
           /\ row'[i].hash = [row[i].hash EXCEPT ![f] = h]
           /\ row'[i].step = "PREPARED"
  <1> DEFINE moved == Moved(i, f, "PREPARED")
             hashes == [moved[i].hash EXCEPT ![f] = h]
             next == [moved[i] EXCEPT !.hash = hashes]
  <1>1. RowKept(i, moved) /\ moved[i].step = "PREPARED"
    BY MovedKeeps DEF TypeOK, Steps
  <1>2. row' = [moved EXCEPT ![i] = next]
    OBVIOUS
  <1> HIDE DEF moved
  <1>3. moved[i] \in Intent /\ hashes \in [Phases -> Hashes \cup {NULL}]
    BY <1>1 DEF RowKept, Intent
  <1> HIDE DEF hashes
  <1>4. next \in Intent /\ next.hash = hashes /\ next.step = moved[i].step
    BY <1>3 DEF Intent
  <1> HIDE DEF next
  <1>5. row' \in [Intents -> Intent] /\ row'[i] = next
    BY <1>1, <1>2, <1>4 DEF RowKept
  <1>6. \A j \in Intents \ {i} : row'[j] = row[j]
    BY <1>1, <1>2 DEF RowKept
  <1>7. hashes = [row[i].hash EXCEPT ![f] = h]
    BY <1>1 DEF hashes, RowKept
  <1> QED  BY <1>1, <1>4, <1>5, <1>6, <1>7

LEMMA SigningKeeps ==
    ASSUME OpenInv, NEW i \in Intents, pc[i] = "sign", NEW h \in Hashes,
           h.stage = <<i, call[i].phase>>,
           row' = [Moved(i, call[i].phase, "PREPARED") EXCEPT ![i].hash[call[i].phase] = h],
           call' = [call EXCEPT ![i].hash = h], Goto(i, "broadcast"), gas' = Estimated(i),
           UNCHANGED <<audit, receipts, projected, work, worker, chainVars>>
    PROVE  OpenInv'
  <1> DEFINE f == call[i].phase
             next == [call[i] EXCEPT !.hash = h]
  <1>1. f \in Phases /\ call[i] \in Calls /\ row \in [Intents -> Intent]
    BY DEF OpenInv, CallKnows, EarlyLabels, TypeOK
  <1>2. /\ row' \in [Intents -> Intent]
        /\ \A j \in Intents \ {i} : row'[j] = row[j]
        /\ row'[i].hash = [row[i].hash EXCEPT ![f] = h]
        /\ row'[i].step = "PREPARED"
    BY <1>1, SignedRow DEF OpenInv
  <1>3. row[i].hash \in [Phases -> Hashes \cup {NULL}] /\ h # NULL
    BY <1>1, NullAssumption DEF Intent
  <1>4. /\ next \in Calls
        /\ next.phase = f /\ next.hash = h /\ next.then = call[i].then
    BY <1>1 DEF Calls
  <1>5. call' = [call EXCEPT ![i] = next]
    OBVIOUS
  <1> HIDE DEF next
  <1>6. CallMoves(i) /\ pc'[i] = "broadcast" /\ call'[i] = next
    BY <1>4, <1>5 DEF CallMoves, Goto, OpenInv, TypeOK, Labels
  <1>7. TypeOK'
    BY <1>2, <1>6 DEF OpenInv, TypeOK, CallMoves, Estimated, chainVars, ChainTypeOK
  <1>8. row'[i].hash[f] = h /\ \A g \in Phases \ {f} : row'[i].hash[g] = row[i].hash[g]
    BY <1>1, <1>2, <1>3
  <1> HIDE DEF f
  <1>9. \A j \in Intents : ExecutionTrace(j) => ExecutionTrace(j)'
    BY <1>1, <1>2, <1>3, <1>8 DEF ExecutionTrace
  <1>10. ExecutionTrace(i)'
    BY <1>1, <1>3, <1>8 DEF ExecutionTrace
  <1>11. ColumnsSigned'
    <2> SUFFICES ASSUME NEW j \in Intents, NEW g \in Phases, row'[j].hash[g] # NULL
                 PROVE  row'[j].hash[g].stage = <<j, g>>
      BY DEF ColumnsSigned
    <2>1. h.stage = <<i, f>>
      BY DEF f
    <2>2. CASE j = i /\ g = f
      BY <1>8, <2>1, <2>2
    <2>3. CASE j # i \/ g # f
      <3>1. row'[j].hash[g] = row[j].hash[g]
        BY <1>2, <1>8, <2>3
      <3> QED  BY <3>1 DEF OpenInv, ColumnsSigned
    <2> QED  BY <2>2, <2>3
  <1>12. RetryableStored'
    BY <1>2, <1>9, <1>10 DEF OpenInv, RetryableStored, Retryable
  <1>13. ASSUME NEW j \in Intents PROVE CallKnows(j)'
    <2>1. CASE j = i
      BY <1>3, <1>4, <1>6, <1>8, <2>1 DEF OpenInv, CallKnows, EarlyLabels, HashLabels, f
    <2>2. CASE j # i
      BY <1>2, <1>6, <2>2 DEF OpenInv, CallKnows, CallMoves, MintHash
    <2> QED  BY <2>1, <2>2
  <1>14. NetworkStored'
    <2> SUFFICES ASSUME NEW g \in OnNetwork
                 PROVE  /\ row'[g.stage[1]].hash[g.stage[2]] # NULL
                        /\ g.stage[2] = "MINT" => row'[g.stage[1]].hash["MINT"] = g
      BY DEF NetworkStored, OnNetwork, chainVars, MintHash
    <2>1. g.stage[1] \in Intents /\ g.stage[2] \in Phases
      BY HashStage DEF OpenInv, TypeOK, ChainTypeOK, OnNetwork
    <2>2. /\ row[g.stage[1]].hash[g.stage[2]] # NULL
          /\ g.stage[2] = "MINT" => MintHash(g.stage[1]) = g
      BY DEF OpenInv, NetworkStored
    <2>3. CASE g.stage[1] = i /\ g.stage[2] = f
      <3>1. f # "MINT"
        BY <2>2, <2>3 DEF OpenInv, CallKnows, EarlyLabels, f, MintHash
      <3> QED  BY <1>3, <1>8, <2>3, <3>1
    <2>4. CASE g.stage[1] # i \/ g.stage[2] # f
      BY <1>2, <1>8, <2>1, <2>2, <2>4 DEF MintHash
    <2> QED  BY <2>3, <2>4
  <1>15. WorkerKnows'
    BY <1>2, <1>3, <1>8 DEF OpenInv, WorkerKnows, MintHash, Phases
  <1>16. ReplaceableAtRest'
    <2> SUFFICES ASSUME NEW j \in Intents
                 PROVE  /\ (row[j].step = "FAILED_RETRYABLE" \/ j \in audit => AtRest(j))'
                        /\ (j \in audit => row[j].step = "FAILED")'
      BY DEF ReplaceableAtRest
    <2>1. CASE j = i
      BY <1>2, <2>1, BusyNotAtRest
    <2>2. CASE j # i
      BY <1>2, <1>6, <2>2 DEF OpenInv, ReplaceableAtRest, AtRest, CallMoves, ExecutionTrace
    <2> QED  BY <2>1, <2>2
  <1> QED  BY <1>7, <1>11, <1>12, <1>13, <1>14, <1>15, <1>16 DEF OpenInv

LEMMA SignAndPrepareKeeps ==
    ASSUME OpenInv, NEW i \in Intents, SignAndPrepare(i)
    PROVE  OpenInv'
  <1>1. pc[i] = "sign" /\ call[i].phase \in Phases
    BY DEF SignAndPrepare, OpenInv, CallKnows, EarlyLabels
  <1>2. CASE \E n \in Nonces, v \in Variants :
               LET h == [stage |-> <<i, call[i].phase>>, nonce |-> n, variant |-> v] IN
               /\ row' = [Moved(i, call[i].phase, "PREPARED") EXCEPT ![i].hash[call[i].phase] = h]
               /\ call' = [call EXCEPT ![i].hash = h]
               /\ Goto(i, "broadcast")
    <2>1. PICK n \in Nonces, v \in Variants :
               LET h == [stage |-> <<i, call[i].phase>>, nonce |-> n, variant |-> v] IN
               /\ row' = [Moved(i, call[i].phase, "PREPARED") EXCEPT ![i].hash[call[i].phase] = h]
               /\ call' = [call EXCEPT ![i].hash = h]
               /\ Goto(i, "broadcast")
      BY <1>2
    <2> DEFINE h == [stage |-> <<i, call[i].phase>>, nonce |-> n, variant |-> v]
    <2>2. h \in Hashes /\ h.stage = <<i, call[i].phase>>
      BY <1>1, StagesAssumption DEF Hashes
    <2>3. /\ row' = [Moved(i, call[i].phase, "PREPARED") EXCEPT ![i].hash[call[i].phase] = h]
          /\ call' = [call EXCEPT ![i].hash = h]
          /\ Goto(i, "broadcast")
      BY <2>1
    <2> HIDE DEF h
    <2> QED  BY <1>1, <2>2, <2>3, SigningKeeps DEF SignAndPrepare
  <1>3. CASE Throw(i)
    <2>1. OthersKept
      BY DEF SignAndPrepare, Estimated, OthersKept, OpenInv, TypeOK
    <2> QED  BY <1>1, <1>3, <2>1, CaughtLives, ReturnKeeps DEF Throw
  <1> QED  BY <1>2, <1>3 DEF SignAndPrepare

(* The chain keeps its types, and adds nothing to the network but what is  *)
(* sent.                                                                   *)
LEMMA SendAdds ==
    ASSUME ChainTypeOK, NEW h \in Hashes, SendAccepted(h) \/ SendErrored(h)
    PROVE  ChainTypeOK' /\ OnNetwork' \subseteq OnNetwork \cup {h}
  BY DEF SendErrored, SendAccepted, Admit, ChainTypeOK, OnNetwork, chainVars

LEMMA ChainStepAdds ==
    ASSUME ChainTypeOK, ChainStep
    PROVE  ChainTypeOK' /\ OnNetwork' \subseteq OnNetwork
  <1> USE MaxNonceAssumption
  <1>1. ASSUME NEW h \in flight, Deliver(h) PROVE ChainTypeOK' /\ OnNetwork' \subseteq OnNetwork
    BY <1>1 DEF Deliver, Admit, ChainTypeOK, OnNetwork
  <1>2. ASSUME NEW h \in pool, Mine(h) PROVE ChainTypeOK' /\ OnNetwork' \subseteq OnNetwork
    <2>1. h.nonce \in 0..MaxNonce
      BY DEF ChainTypeOK, Hashes, Nonces
    <2> QED  BY <1>2, <2>1 DEF Mine, ChainTypeOK, OnNetwork
  <1>3. ASSUME NEW h \in pool, Evict(h) PROVE ChainTypeOK' /\ OnNetwork' \subseteq OnNetwork
    BY <1>3 DEF Evict, ChainTypeOK, OnNetwork
  <1>4. ASSUME NEW n \in Nonces, ForeignSend(n) PROVE ChainTypeOK' /\ OnNetwork' \subseteq OnNetwork
    BY <1>4 DEF ForeignSend, ChainTypeOK, OnNetwork
  <1>5. ASSUME ForeignMine PROVE ChainTypeOK' /\ OnNetwork' \subseteq OnNetwork
    BY <1>5 DEF ForeignMine, ChainTypeOK, Nonces, OnNetwork
  <1> QED  BY <1>1, <1>2, <1>3, <1>4, <1>5 DEF ChainStep

LEMMA BroadcastKeeps ==
    ASSUME OpenInv, NEW i \in Intents, Broadcast(i)
    PROVE  OpenInv'
  <1> DEFINE h == call[i].hash
  <1>1. /\ pc[i] \in HashLabels
        /\ h \in Hashes /\ h # NULL /\ h.stage = <<i, call[i].phase>>
        /\ row[i].hash[call[i].phase] = h
    BY WorkingHasTrace DEF Broadcast, HashLabels, OpenInv, CallKnows
  <1>2. /\ CallMoves(i) /\ pc'[i] \in HashLabels
        /\ call'[i].phase = call[i].phase /\ call'[i].hash = call[i].hash
        /\ call'[i].then = call[i].then
    <2>1. CASE Continue(i, "sent")
      BY <2>1, ContinueMoves DEF OpenInv, Labels, HashLabels
    <2>2. ASSUME NEW sending \in {"FIRST", "RESENT"}, Goto(i, "probe"),
                 call' = [call EXCEPT ![i].sending = sending]
          PROVE  <1>2!:
      BY <2>2, SendingMoves DEF OpenInv, Labels, HashLabels
    <2>3. CASE /\ Goto(i, "probe")
               /\ call' = [call EXCEPT ![i].sending = IF @ = "FIRST" THEN @ ELSE "RESENT"]
      <3>1. call' = [call EXCEPT ![i].sending = IF call[i].sending = "FIRST" THEN "FIRST" ELSE "RESENT"]
        BY <2>3 DEF OpenInv, TypeOK
      <3> QED  BY <2>2, <2>3, <3>1
    <2> QED  BY <2>1, <2>3 DEF Broadcast
  <1>3. ChainTypeOK' /\ OnNetwork' \subseteq OnNetwork \cup {h}
    BY <1>1, SendAdds DEF Broadcast, OpenInv, TypeOK
  <1>4. UNCHANGED <<row, gas, audit, receipts, projected, work, worker>>
    BY DEF Broadcast
  <1>5. TypeOK'
    BY <1>2, <1>3, <1>4 DEF OpenInv, TypeOK, CallMoves
  <1>6. \A j \in Intents : CallKnows(j)'
    BY <1>1, <1>2, <1>4 DEF OpenInv, CallKnows, CallMoves, MintHash, EarlyLabels, HashLabels
  <1>7. NetworkStored'
    BY <1>1, <1>3, <1>4 DEF OpenInv, NetworkStored, MintHash
  <1>8. ReplaceableAtRest'
    BY <1>1, <1>2, <1>4 DEF OpenInv, ReplaceableAtRest, AtRest, CallMoves, ExecutionTrace, HashLabels
  <1> QED  BY <1>4, <1>5, <1>6, <1>7, <1>8
        DEF OpenInv, ColumnsSigned, RetryableStored, Retryable, ExecutionTrace, WorkerKnows, MintHash
-----------------------------------------------------------------------------
(* What happens beside the calls.                                          *)

LEMMA PreviewKeeps ==
    ASSUME OpenInv, NEW i \in Intents, Preview(i)
    PROVE  OpenInv'
  <1>1. /\ RowKept(i, row') /\ row'[i].step = "PREVIEWED" /\ row'[i].reason = row[i].reason
    BY MovedKeeps DEF Preview, Created, OpenInv, TypeOK, Steps
  <1>2. /\ row' \in [Intents -> Intent]
        /\ \A j \in Intents : row'[j].hash = row[j].hash /\ row'[j].reason = row[j].reason
        /\ \A j \in Intents : row'[j].step # row[j].step => j = i
    BY <1>1 DEF RowKept
  <1>3. UNCHANGED <<gas, audit, receipts, pc, call, projected, work, worker, chainVars>>
    BY DEF Preview
  <1>4. row[i].step = "ABSENT"
    BY DEF Preview
  <1>5. TypeOK'
    BY <1>2, <1>3 DEF OpenInv, TypeOK, chainVars, ChainTypeOK
  <1>6. ColumnsSigned' /\ RetryableStored' /\ \A j \in Intents : CallKnows(j)'
    BY <1>2, <1>3 DEF OpenInv, ColumnsSigned, RetryableStored, Retryable, ExecutionTrace, CallKnows, MintHash
  <1>7. NetworkStored'
    BY <1>2, <1>3, HashStage DEF OpenInv, NetworkStored, MintHash, OnNetwork, chainVars, TypeOK, ChainTypeOK
  <1>8. WorkerKnows'
    BY <1>2, <1>3 DEF OpenInv, WorkerKnows, MintHash
  <1>9. ReplaceableAtRest'
    BY <1>1, <1>2, <1>3, <1>4 DEF OpenInv, ReplaceableAtRest, AtRest, ExecutionTrace
  <1> QED  BY <1>5, <1>6, <1>7, <1>8, <1>9 DEF OpenInv

(* The start of the bot, and the operator, on an intent at rest.           *)
LEMMA SetAsideKeeps ==
    ASSUME OpenInv, NEW i \in Intents, AtRest(i),
           NEW step \in {"FAILED", "FAILED_RETRYABLE"}, row' = Moved(i, NULL, step),
           audit' \subseteq audit \cup {i}, audit \subseteq audit',
           i \in audit' => step = "FAILED",
           UNCHANGED <<gas, receipts, pc, call, projected, work, worker, chainVars>>
    PROVE  OpenInv'
  <1>1. RowKept(i, row') /\ row'[i].step = step /\ row'[i].reason = row[i].reason
    BY MovedKeeps DEF OpenInv, TypeOK, Steps
  <1>2. /\ row' \in [Intents -> Intent]
        /\ \A j \in Intents : row'[j].hash = row[j].hash /\ row'[j].reason = row[j].reason
        /\ \A j \in Intents \ {i} : row'[j].step = row[j].step
    BY <1>1 DEF RowKept
  <1>3. TypeOK'
    BY <1>2 DEF OpenInv, TypeOK, chainVars, ChainTypeOK
  <1>4. ColumnsSigned' /\ RetryableStored' /\ \A j \in Intents : CallKnows(j)'
    BY <1>2 DEF OpenInv, ColumnsSigned, RetryableStored, Retryable, ExecutionTrace, CallKnows, MintHash
  <1>5. NetworkStored'
    BY <1>2, HashStage DEF OpenInv, NetworkStored, MintHash, OnNetwork, chainVars, TypeOK, ChainTypeOK
  <1>6. WorkerKnows'
    BY <1>2 DEF OpenInv, WorkerKnows, MintHash
  <1>7. ReplaceableAtRest'
    BY <1>1, <1>2 DEF OpenInv, ReplaceableAtRest, AtRest, ExecutionTrace
  <1> QED  BY <1>3, <1>4, <1>5, <1>6, <1>7 DEF OpenInv

LEMMA SettingAsideKeeps ==
    ASSUME OpenInv, NEW i \in Intents, MarkRetryable(i) \/ TerminalizeNoBroadcast(i)
    PROVE  OpenInv'
  <1>1. CASE MarkRetryable(i)
    BY <1>1, SetAsideKeeps DEF MarkRetryable, AtRest, ExecutionTrace
  <1>2. CASE TerminalizeNoBroadcast(i)
    <2>1. AtRest(i)
      BY <1>2 DEF TerminalizeNoBroadcast, OpenInv, ReplaceableAtRest
    <2> QED  BY <1>2, <2>1, SetAsideKeeps DEF TerminalizeNoBroadcast
  <1> QED  BY <1>1, <1>2

(* The worker writes only rows of intents that have a mint hash.           *)
LEMMA WorkerMoveKeeps ==
    ASSUME OpenInv, NEW i \in Intents, MintHash(i) # NULL,
           NEW phase \in Phases \cup {NULL}, NEW step \in Steps \ {"FAILED_RETRYABLE"},
           row' = Moved(i, phase, step), projected' \subseteq Intents,
           worker' \in [intent : {i}, step : {"reconcile", "complete"}],
           UNCHANGED <<gas, audit, receipts, pc, call, work, chainVars>>
    PROVE  OpenInv'
  <1>1. RowKept(i, row') /\ row'[i].step = step /\ row'[i].reason = row[i].reason
    BY MovedKeeps DEF OpenInv, TypeOK
  <1>2. /\ row' \in [Intents -> Intent]
        /\ \A j \in Intents : row'[j].hash = row[j].hash /\ row'[j].reason = row[j].reason
        /\ \A j \in Intents \ {i} : row'[j].step = row[j].step
    BY <1>1 DEF RowKept
  <1>3. TypeOK'
    BY <1>2 DEF OpenInv, TypeOK, chainVars, ChainTypeOK
  <1>4. ColumnsSigned' /\ RetryableStored' /\ \A j \in Intents : CallKnows(j)'
    BY <1>2 DEF OpenInv, ColumnsSigned, RetryableStored, Retryable, ExecutionTrace, CallKnows, MintHash
  <1>5. NetworkStored'
    BY <1>2, HashStage DEF OpenInv, NetworkStored, MintHash, OnNetwork, chainVars, TypeOK, ChainTypeOK
  <1>6. WorkerKnows'
    BY <1>2 DEF WorkerKnows, MintHash
  <1>7. ~AtRest(i)
    BY DEF AtRest, ExecutionTrace, MintHash, Phases
  <1>8. ReplaceableAtRest'
    BY <1>1, <1>2, <1>7 DEF OpenInv, ReplaceableAtRest, AtRest, ExecutionTrace
  <1> QED  BY <1>3, <1>4, <1>5, <1>6, <1>8 DEF OpenInv

LEMMA QueueKeeps ==
    ASSUME OpenInv, UNCHANGED <<row, gas, audit, receipts, pc, call, projected, chainVars>>,
           work' \in [Intents -> {"NONE", "PENDING", "COMPLETED"}],
           worker' \in [intent : Intents \cup {NULL}, step : {"idle", "project", "reconcile", "complete"}],
           worker'.step \in {"reconcile", "complete"} => UNCHANGED worker
    PROVE  OpenInv'
  <1>1. TypeOK'
    BY DEF OpenInv, TypeOK, chainVars, ChainTypeOK
  <1>2. ColumnsSigned' /\ RetryableStored' /\ \A j \in Intents : CallKnows(j)'
    BY DEF OpenInv, ColumnsSigned, RetryableStored, Retryable, ExecutionTrace, CallKnows, MintHash
  <1>3. NetworkStored'
    BY DEF OpenInv, NetworkStored, MintHash, OnNetwork, chainVars
  <1>4. WorkerKnows' /\ ReplaceableAtRest'
    BY DEF OpenInv, WorkerKnows, MintHash, ReplaceableAtRest, AtRest, ExecutionTrace
  <1> QED  BY <1>1, <1>2, <1>3, <1>4 DEF OpenInv

LEMMA WorkerKeeps ==
    ASSUME OpenInv, NEW i \in Intents, WorkerStep(i)
    PROVE  OpenInv'
  <1>1. CASE DiscoverOpen(i) \/ TakeOpen(i)
    BY <1>1, QueueKeeps DEF DiscoverOpen, TakeOpen, Ensured, OpenInv, TypeOK
  <1>2. CASE WorkerProject(i)
    <2>1. worker' = [intent |-> i, step |-> "reconcile"]
      BY <1>2 DEF WorkerProject
    <2>2. MintHash(i) # NULL /\ projected' \subseteq Intents
      BY <1>2 DEF WorkerProject, PersistProjection, Projectable, Projected, OpenInv, TypeOK
    <2> QED  BY <1>2, <2>1, <2>2, WorkerMoveKeeps DEF WorkerProject, PersistProjection, Phases, Steps
  <1>3. CASE WorkerReconcile(i)
    <2>1. worker' = [intent |-> i, step |-> "complete"]
      BY <1>3 DEF WorkerReconcile
    <2>2. MintHash(i) # NULL /\ projected' \subseteq Intents
      BY <1>3 DEF WorkerReconcile, OpenInv, TypeOK, WorkerKnows
    <2> QED  BY <1>3, <2>1, <2>2, WorkerMoveKeeps DEF WorkerReconcile, Steps
  <1>4. CASE WorkerComplete(i)
    BY <1>4, QueueKeeps DEF WorkerComplete, NoItem, OpenInv, TypeOK
  <1> QED  BY <1>1, <1>2, <1>3, <1>4 DEF WorkerStep

LEMMA CrashBotKeeps ==
    ASSUME OpenInv, CrashBot
    PROVE  OpenInv'
  <1>1. \A j \in Intents : pc'[j] = "idle"
    BY DEF CrashBot
  <1>2. TypeOK'
    BY DEF CrashBot, OpenInv, TypeOK, Labels, NoCall, Calls, Seen, chainVars, ChainTypeOK
  <1>3. \A j \in Intents : CallKnows(j)'
    BY <1>1 DEF CallKnows, EarlyLabels, HashLabels
  <1>4. NetworkStored'
    BY DEF CrashBot, OpenInv, NetworkStored, MintHash, OnNetwork, chainVars
  <1>5. ReplaceableAtRest'
    BY <1>1 DEF CrashBot, OpenInv, ReplaceableAtRest, AtRest, ExecutionTrace
  <1> QED  BY <1>2, <1>3, <1>4, <1>5
        DEF CrashBot, OpenInv, ColumnsSigned, RetryableStored, Retryable, ExecutionTrace, WorkerKnows, MintHash

LEMMA ChainKeeps ==
    ASSUME OpenInv, ChainStep, UNCHANGED openVars
    PROVE  OpenInv'
  <1>1. ChainTypeOK' /\ OnNetwork' \subseteq OnNetwork
    BY ChainStepAdds DEF OpenInv, TypeOK
  <1>2. TypeOK'
    BY <1>1 DEF OpenInv, TypeOK, openVars
  <1>3. NetworkStored'
    BY <1>1 DEF OpenInv, NetworkStored, MintHash, openVars
  <1> QED  BY <1>2, <1>3 DEF OpenInv, openVars, ColumnsSigned, RetryableStored, Retryable,
             ExecutionTrace, CallKnows, WorkerKnows, MintHash, ReplaceableAtRest, AtRest
-----------------------------------------------------------------------------
(* The theorems.                                                           *)

LEMMA OpenInit == Init => OpenInv
  <1> SUFFICES ASSUME Init PROVE OpenInv
    OBVIOUS
  <1>1. TypeOK
    BY MaxNonceAssumption DEF Init, ChainInit, TypeOK, ChainTypeOK, Intent, Steps, Reasons, Labels,
       NoCall, Calls, Seen, NoItem
  <1>2. OnNetwork = {}
    BY DEF Init, ChainInit, OnNetwork
  <1>3. RetryableStored
    BY DEF Init, RetryableStored, Retryable
  <1>4. ReplaceableAtRest
    BY DEF Init, ReplaceableAtRest
  <1> QED  BY <1>1, <1>2, <1>3, <1>4 DEF Init, OpenInv, ColumnsSigned, CallKnows, EarlyLabels,
             HashLabels, NetworkStored, WorkerKnows, NoItem

LEMMA OpenStep == OpenInv /\ [Next]_vars => OpenInv'
  <1> SUFFICES ASSUME OpenInv, [Next]_vars PROVE OpenInv'
    OBVIOUS
  <1>1. ASSUME NEW i \in Intents, CallStep(i) PROVE OpenInv'
    BY <1>1, AdmissionKeeps, ApproveErc20Keeps, ApprovePermit2Keeps, MintKeeps, AcquireNonceKeeps,
       SignAndPrepareKeeps, BroadcastKeeps, RecordSentKeeps, EvidenceKeeps, ClassifyKeeps,
       ReceiptKeeps, ProjectKeeps, FailsKeeps DEF CallStep
  <1>2. ASSUME NEW i \in Intents, Preview(i) \/ MarkRetryable(i) \/ TerminalizeNoBroadcast(i) \/ WorkerStep(i)
        PROVE OpenInv'
    BY <1>2, PreviewKeeps, SettingAsideKeeps, WorkerKeeps
  <1>3. CASE WorkerFails
    BY <1>3, QueueKeeps DEF WorkerFails, NoItem, OpenInv, TypeOK
  <1>4. CASE CrashBot
    BY <1>4, CrashBotKeeps
  <1>5. CASE ChainStep /\ UNCHANGED openVars
    BY <1>5, ChainKeeps
  <1>6. CASE UNCHANGED vars
    BY <1>6, QueueKeeps DEF vars, openVars, OpenInv, TypeOK
  <1> QED  BY <1>1, <1>2, <1>3, <1>4, <1>5, <1>6 DEF Next

LEMMA OpenInvariant == Spec => []OpenInv
  BY OpenInit, OpenStep, PTL DEF Spec

(* Whatever the executor, the bot, the operator, the worker and the chain  *)
(* do, their variables stay in the states the columns can hold.            *)
THEOREM OpenTyped == Spec => []TypeOK
  <1>1. OpenInv => TypeOK
    BY DEF OpenInv
  <1> QED  BY <1>1, OpenInvariant, PTL

(* An intent mints once at most: of all hashes that were ever given to a   *)
(* node for the mint of an intent there is one, for any number of repeated *)
(* confirmations, crashes, identical resends and evictions.                *)
THEOREM IntentMintsOnce == Spec => []MintsOnce
  <1>1. OpenInv => MintsOnce
    BY HashStage DEF OpenInv, NetworkStored, MintsOnce
  <1> QED  BY <1>1, OpenInvariant, PTL

(* What may be replaced by a fresh intent was never sent and never is,     *)
(* whatever reason the operator's command asks for; what the operator has  *)
(* ended is never made retryable.                                          *)
THEOREM ReplaceableWasNotSent == Spec => []RetryableNeverBroadcast
  <1>1. ASSUME OpenInv PROVE RetryableNeverBroadcast
    <2> SUFFICES ASSUME NEW i \in Intents
                 PROVE  /\ ~Demoted(i)
                        /\ row[i].step = "FAILED_RETRYABLE" \/ i \in audit =>
                              \A h \in OnNetwork : h.stage[1] # i
      BY DEF RetryableNeverBroadcast
    <2>1. ~Demoted(i)
      BY <1>1 DEF OpenInv, ReplaceableAtRest, Demoted
    <2>2. ASSUME row[i].step = "FAILED_RETRYABLE" \/ i \in audit, NEW h \in OnNetwork, h.stage[1] = i
          PROVE  FALSE
      <3>1. ~ExecutionTrace(i)
        BY <1>1, <2>2 DEF OpenInv, ReplaceableAtRest, AtRest
      <3>2. h.stage[2] \in Phases /\ row[i].hash[h.stage[2]] # NULL
        BY <1>1, <2>2, HashStage DEF OpenInv, NetworkStored, TypeOK, ChainTypeOK, OnNetwork
      <3> QED  BY <3>1, <3>2 DEF ExecutionTrace
    <2> QED  BY <2>1, <2>2
  <1> QED  BY <1>1, OpenInvariant, PTL
-----------------------------------------------------------------------------
(* The label of the mint as coded.                                         *)

(* No open has a position in the ledger, is reconciled or has its work     *)
(* completed.                                                              *)
NothingBooked ==
    /\ projected = {}
    /\ \A i \in Intents : work[i] # "COMPLETED" /\ row[i].step # "POSITION_RECONCILED"

UnbookedInv == NothingBooked /\ worker.step \in {"idle", "project"}

(* A row that is moved on, but not to POSITION_RECONCILED.                 *)
Unreconciled(rows) ==
    \A i \in Intents : row[i].step # "POSITION_RECONCILED" => rows[i].step # "POSITION_RECONCILED"

LEMMA MovedUnreconciled ==
    ASSUME row \in [Intents -> Intent], NEW i \in Intents, NEW phase, NEW step, NEW reason
    PROVE  /\ step # "POSITION_RECONCILED" => Unreconciled(Moved(i, phase, step))
           /\ Unreconciled(Failed(i, reason))
           /\ step # "POSITION_RECONCILED" =>
                 Unreconciled([Moved(i, phase, step) EXCEPT ![i].reason = reason])
  <1>1. step # "POSITION_RECONCILED" => Unreconciled(Moved(i, phase, step))
    BY DEF Moved, Unreconciled, Intent
  <1>2. Unreconciled(Failed(i, reason))
    BY DEF Failed, Unreconciled, Intent
  <1>3. step # "POSITION_RECONCILED" =>
            Unreconciled([Moved(i, phase, step) EXCEPT ![i].reason = reason])
    BY DEF Moved, Unreconciled, Intent
  <1> QED  BY <1>1, <1>2, <1>3

LEMMA CallLeavesUnreconciled ==
    ASSUME TypeOK, NEW i \in Intents, CallStep(i), MintLabel # "V4_MINT"
    PROVE  /\ Unreconciled(row') /\ UNCHANGED <<projected, worker>>
           /\ \A j \in Intents : work'[j] = work[j] \/ work'[j] = "PENDING"
  <1>t. row \in [Intents -> Intent] /\ work \in [Intents -> {"NONE", "PENDING", "COMPLETED"}]
    BY DEF TypeOK
  <1>m. \A phase, step, reason :
          /\ step # "POSITION_RECONCILED" => Unreconciled(Moved(i, phase, step))
          /\ Unreconciled(Failed(i, reason))
          /\ step # "POSITION_RECONCILED" =>
                Unreconciled([Moved(i, phase, step) EXCEPT ![i].reason = reason])
    BY <1>t, MovedUnreconciled
  <1>u. row' = row => Unreconciled(row')
    BY DEF Unreconciled
  <1>1. CASE Confirm(i) \/ Preflight(i) \/ ApproveErc20(i) \/ AcquireNonce(i) \/ Broadcast(i)
             \/ ResendPersisted(i) \/ Probe(i) \/ CountNonces(i)
    BY <1>m, <1>u, <1>1 DEF Confirm, Preflight, ApproveErc20, AcquireNonce, Broadcast, ResendPersisted, Probe,
       CountNonces
  <1>2. CASE Claim(i) \/ Mint(i) \/ RecordSent(i)
    <2>1. /\ Unreconciled(Moved(i, NULL, "CLAIMED"))
          /\ Unreconciled(Moved(i, NULL, "RANGE_REFRESHED"))
          /\ Unreconciled(Moved(i, call[i].phase, "SUBMITTED"))
      BY <1>m, Zenon
    <2>2. CASE Claim(i)
      BY <1>u, <2>1, <2>2 DEF Claim
    <2>3. CASE Mint(i)
      BY <2>1, <2>3 DEF Mint
    <2>4. CASE RecordSent(i)
      BY <2>1, <2>4 DEF RecordSent
    <2> QED  BY <1>2, <2>2, <2>3, <2>4
  <1>3. ASSUME NEW stored, NEW reason, Caught(i, stored, reason) PROVE Unreconciled(row')
    BY <1>m, <1>u, <1>3 DEF Caught
  <1>4. CASE Fails(i)
    BY <1>m, <1>u, <1>3, <1>4 DEF Fails, Throw, GasCapExceeded
  <1>5. CASE ApprovePermit2(i)
    BY <1>m, <1>u, <1>3, <1>5 DEF ApprovePermit2, DeclareNotBroadcast, Throw
  <1>6. CASE Classify(i)
    <2> DEFINE f == call[i].phase
    <2>1. /\ Unreconciled(Moved(i, f, "SUBMITTED"))
          /\ Unreconciled(Moved(i, f, "IDENTICAL_RESEND_PREPARED"))
          /\ Unreconciled([Moved(i, f, "IDENTICAL_RESEND_PREPARED") EXCEPT ![i].reason = "NONE"])
          /\ Unreconciled([Moved(i, f, "BROADCAST_AMBIGUOUS") EXCEPT ![i].reason = "OTHER"])
      BY <1>m, Zenon
    <2>2. /\ Unreconciled(Failed(i, "OTHER"))
          /\ Unreconciled(Failed(i, "ABSENT_NONCE_AVAILABLE"))
          /\ Unreconciled(Failed(i, "ABSENT_AFTER_RESEND"))
      BY <1>m, Zenon
    <2>3. ASSUME UNCHANGED row PROVE Unreconciled(row')
      BY <1>u, <2>3
    <2>4. ASSUME Pending(i) PROVE Unreconciled(row')
      BY <2>1, <2>4 DEF Pending
    <2>5. ASSUME ClassifyBeforeResend(i) PROVE Unreconciled(row')
      BY <1>3, <2>1, <2>5 DEF ClassifyBeforeResend, Throw
    <2>6. ASSUME ClassifyAfterSend(i) PROVE Unreconciled(row')
      BY <2>1, <2>2, <2>6 DEF ClassifyAfterSend, GiveUp
    <2>7. Unreconciled(row')
      BY <1>6, <2>3, <2>4, <2>5, <2>6 DEF Classify
    <2> QED  BY <1>6, <2>7 DEF Classify
  <1>7. CASE Receipt(i)
    BY <1>m, <1>u, <1>3, <1>7 DEF Receipt
  <1>8. CASE Project(i)
    BY <1>t, <1>u, <1>8 DEF Project, PersistProjection, Projectable, Ensured
  <1>9. CASE SignAndPrepare(i)
    <2> DEFINE f == call[i].phase
    <2>1. ASSUME NEW h PROVE Unreconciled([Moved(i, f, "PREPARED") EXCEPT ![i].hash[f] = h])
      BY <1>t DEF Moved, Unreconciled, Intent
    <2>2. Unreconciled(row')
      BY <1>3, <1>9, <2>1 DEF SignAndPrepare, Throw
    <2> QED  BY <1>9, <2>2 DEF SignAndPrepare
  <1> QED  BY <1>1, <1>2, <1>4, <1>5, <1>6, <1>7, <1>8, <1>9 DEF CallStep

LEMMA UnbookedStep ==
    ASSUME TypeOK, UnbookedInv, [Next]_vars, MintLabel # "V4_MINT"
    PROVE  UnbookedInv'
  <1> USE DEF UnbookedInv, NothingBooked
  <1>1. ASSUME NEW i \in Intents, CallStep(i) PROVE UnbookedInv'
    BY <1>1, CallLeavesUnreconciled DEF Unreconciled
  <1>2. ASSUME NEW i \in Intents, Preview(i) \/ MarkRetryable(i) \/ TerminalizeNoBroadcast(i)
        PROVE  UnbookedInv'
    <2>1. Unreconciled(row') /\ UNCHANGED <<projected, work, worker>>
      <3>1. /\ Unreconciled(Moved(i, NULL, "PREVIEWED"))
            /\ Unreconciled(Moved(i, NULL, "FAILED_RETRYABLE"))
            /\ Unreconciled(Moved(i, NULL, "FAILED"))
        BY MovedUnreconciled DEF TypeOK
      <3>2. CASE Preview(i)
        BY <3>1, <3>2 DEF Preview, Created
      <3>3. CASE MarkRetryable(i)
        BY <3>1, <3>3 DEF MarkRetryable
      <3>4. CASE TerminalizeNoBroadcast(i)
        BY <3>1, <3>4 DEF TerminalizeNoBroadcast
      <3> QED  BY <1>2, <3>2, <3>3, <3>4
    <2> QED  BY <2>1 DEF Unreconciled
  <1>3. ASSUME NEW i \in Intents, WorkerStep(i) PROVE UnbookedInv'
    <2>1. CASE DiscoverOpen(i)
      BY <2>1 DEF DiscoverOpen, Ensured, TypeOK
    <2>2. CASE TakeOpen(i)
      BY <2>2 DEF TakeOpen
    <2>3. ~WorkerProject(i) /\ ~WorkerReconcile(i) /\ ~WorkerComplete(i)
      BY DEF WorkerProject, PersistProjection, Projectable, WorkerReconcile, WorkerComplete
    <2> QED  BY <1>3, <2>1, <2>2, <2>3 DEF WorkerStep
  <1>4. CASE WorkerFails \/ CrashBot \/ (ChainStep /\ UNCHANGED openVars) \/ UNCHANGED vars
    BY <1>4 DEF WorkerFails, NoItem, CrashBot, openVars, vars
  <1> QED  BY <1>1, <1>2, <1>3, <1>4 DEF Next

(* As coded submit journals the mint as MINT and prepares it as            *)
(* MINT_PREPARED, while the receipt, the request and the prepared state    *)
(* are looked up as V4_MINT: no successful open is ever recorded, by the   *)
(* call that sent it, by another confirmation or by the worker, not even   *)
(* one whose receipt a second confirmation has stored as V4_MINT.          *)
THEOREM UnreadMintNeverBooked ==
    ASSUME MintLabel = "MINT"
    PROVE  Spec => []NothingBooked
  <1>1. Init => UnbookedInv
    BY DEF Init, UnbookedInv, NothingBooked, NoItem
  <1>2. TypeOK /\ UnbookedInv /\ [Next]_vars => UnbookedInv'
    BY UnbookedStep
  <1>3. UnbookedInv => NothingBooked
    BY DEF UnbookedInv
  <1> QED  BY <1>1, <1>2, <1>3, OpenTyped, PTL DEF Spec
=============================================================================
