------------------------------- MODULE UsdgReset -------------------------------
(***************************************************************************)
(* The USDG reset reposition of BID ladders: a ladder is closed on the     *)
(* user's word, what its close returned is proved, and a child ladder is   *)
(* planned and opened with it (v4-bid-ladder-usdg-reset.ts, and the close, *)
(* the open and the journal callbacks of v4-bid-ladder-live.ts).           *)
(*                                                                         *)
(* Callers of processV4BidLadderUsdReset share one ladder at a time by a   *)
(* lease in the database, which is lost when it is not renewed.  The       *)
(* reconcile worker, the state cache and the CLI are other processes, so   *)
(* any of their transactions may fall between two statements of a caller.  *)
(* A journal row is what StageAuthority promises of it: pending until the  *)
(* chain has decided, then final.  All ladders here are of one lineage.    *)
(***************************************************************************)
EXTENDS Naturals, FiniteSets

CONSTANTS
    MaxLadders,     \* bound on the ladders of the lineage
    Repositioned,   \* the ladders that the user repositions, a bound
    MaxJit,         \* V4_REPOSITION_MAX_JIT_REMATERIALIZATIONS
    MaxTries,       \* bound on the journal rows of one stage of a ladder
    MaxFaults,      \* bound on crashes, failing awaits and lost leases
    NULL

ASSUME BoundsAssumption ==
    /\ {MaxLadders, MaxJit, MaxTries} \subseteq Nat \ {0}
    /\ MaxFaults \in Nat
    /\ Repositioned \subseteq 1..MaxLadders
    /\ NULL \notin Nat

Ladders == 1..MaxLadders
Callers == {"bot", "user"}      \* usdResetRepositionConsumer, a Confirm

Statuses == {"NONE", "PLANNED", "OPEN", "CLOSED", "CANCELLED"}

ClosePending == {"CLOSE_PREPARED", "CLOSE_SUBMITTED"}
Reopening == {"REOPEN_PLANNED", "REOPEN_PREPARED", "REOPEN_SUBMITTED"}
Immediate == {"CLOSE_CONFIRMED", "PRINCIPAL_RECONCILED"} \cup Reopening
Converged == Immediate \cup {"COMPLETED"}
Terminal == {"COMPLETED", "BLOCKED", "OPERATOR_CLOSED"}
Phases == {"OPEN_PENDING", "WATCHING"} \cup ClosePending \cup Immediate \cup Terminal

(* FUNI is FUNI_EXECUTED with terminal_provenance FUNI_AUTHORED_CLOSE_BATCH, *)
(* MIRROR is FUNI_EXECUTED without it.                                     *)
Provenances == {"NONE", "FUNI", "MIRROR", "UNKNOWN_EXTERNAL"}
BlockReasons == {"NONE", "CANCELLED_PRE_CLOSE", "OPEN_STOPPED", "JIT_EXHAUSTED", "OTHER"}

Ladder == [status : Statuses, provenance : Provenances, phase : Phases, reason : BlockReasons,
           auth : {"NONE", "MANUAL", "OPERATOR"}, previous : Ladders \cup {NULL},
           next : Ladders \cup {NULL}, reopen : Ladders \cup {NULL}, jit : 0..MaxJit]

RowStatuses == {"NONE", "PENDING", "CONFIRMED", "FAILED"}   \* PENDING: PREPARED, SUBMITTED
Row == [status : RowStatuses, tries : 0..MaxTries]

Labels == {"idle", "check", "route", "truth", "close", "sendClose", "waitClose", "joinClose",
           "waitJoined", "closed", "principal", "plan", "authorize", "open", "approve",
           "waitApproval", "mint", "sendOpen", "waitOpen", "complete", "drift", "rematerialize"}

(* jit: attempts read before the await; periodic: called by the cycle.     *)
Call == [source : Ladders \cup {NULL}, child : Ladders \cup {NULL}, jit : 0..MaxJit,
         periodic : BOOLEAN]

VARIABLES
    ladder,                 \* v4_bid_ladders and v4_bid_ladder_usdg_reset_v1
    close, open,            \* rows CLOSE_BATCH and OPEN_BATCH of the journal
    approval,               \* status of the row of the opening's approval
    live,                   \* ladders whose positions hold liquidity
    realized,               \* ladders with a CLOSE event in realized_pnl_events
    lease,                  \* v4_bid_ladder_usdg_reset_execution_leases
    pc, call,               \* the running calls
    faults

rows == <<close, open, approval>>
calls == <<lease, pc, call, faults>>
vars == <<ladder, rows, live, realized, calls>>

NoCall == [source |-> NULL, child |-> NULL, jit |-> 0, periodic |-> FALSE]
NoRow == [status |-> "NONE", tries |-> 0]

TypeOK ==
    /\ ladder \in [Ladders -> Ladder]
    /\ close \in [Ladders -> Row] /\ open \in [Ladders -> Row]
    /\ approval \in [Ladders -> RowStatuses]
    /\ live \subseteq Ladders /\ realized \subseteq Ladders
    /\ lease \in [Ladders -> Callers \cup {NULL}]
    /\ pc \in [Callers -> Labels] /\ call \in [Callers -> Call]
    /\ faults \in 0..MaxFaults

Unborn == [status |-> "NONE", provenance |-> "NONE", phase |-> "OPEN_PENDING", reason |-> "NONE",
           auth |-> "NONE", previous |-> NULL, next |-> NULL, reopen |-> NULL, jit |-> 0]

(* createBidLadder: the row of a planned ladder, and the link to it in the *)
(* row of its predecessor.                                                 *)
Created(store, parent, child) ==
    [store EXCEPT ![child] = [Unborn EXCEPT !.status = "PLANNED", !.previous = parent],
                  ![parent].next = child]

(* The root ladder has been opened by the operator.                        *)
Init ==
    /\ ladder = [l \in Ladders |-> IF l = 1 THEN [Unborn EXCEPT !.status = "OPEN"] ELSE Unborn]
    /\ close = [l \in Ladders |-> NoRow]
    /\ open = [l \in Ladders |-> IF l = 1 THEN [status |-> "CONFIRMED", tries |-> 1] ELSE NoRow]
    /\ approval = [l \in Ladders |-> "NONE"]
    /\ live = {1} /\ realized = {}
    /\ lease = [l \in Ladders |-> NULL]
    /\ pc = [c \in Callers |-> "idle"] /\ call = [c \in Callers |-> NoCall]
    /\ faults = 0
-----------------------------------------------------------------------------
(* Ladders                                                                 *)

Phase(l) == ladder[l].phase
Status(l) == ladder[l].status
Manual(x) == x.auth = "MANUAL"

Fresh == {l \in Ladders : Status(l) = "NONE"}
NextFresh == CHOOSE l \in Fresh : \A m \in Fresh : l <= m

(* activeRepositionChildId                                                 *)
ActiveChild(l) == IF ladder[l].reopen # NULL THEN ladder[l].reopen ELSE ladder[l].next

(* V4_BID_LADDER_USDG_RESET_PARENT_STATUS_MATRIX                           *)
AllowedStatuses(phase) ==
    CASE phase = "OPEN_PENDING" -> {"PLANNED", "OPEN"}
      [] phase \in {"WATCHING", "CLOSE_PREPARED"} -> {"OPEN"}
      [] phase = "CLOSE_SUBMITTED" -> {"OPEN", "CLOSED"}
      [] phase = "BLOCKED" -> {"PLANNED", "OPEN", "CLOSED", "CANCELLED"}
      [] OTHER -> {"CLOSED"}

Blocked(x, reason) == [x EXCEPT !.phase = "BLOCKED", !.reason = reason]

(* transitionV4BidLadderUsdResetOnce: a compare-and-set on the phase; a    *)
(* row that another caller has moved on is left as it is.                  *)
TransitionOnce(l, from, to) ==
    IF Phase(l) \in from THEN [ladder EXCEPT ![l] = to] ELSE ladder
OperatorClosed(x) == [x EXCEPT !.phase = "OPERATOR_CLOSED", !.auth = "OPERATOR"]

(* convergeTerminalV4BidLadder after a confirmed close, and after evidence *)
(* that the positions are empty without one.                               *)
FuniClosed(x) ==
    LET y == IF x.status = "OPEN" THEN [x EXCEPT !.status = "CLOSED", !.provenance = "FUNI"] ELSE x
    IN  IF y.phase = "WATCHING" THEN OperatorClosed(y) ELSE y

ExternallyClosed(x) ==
    LET y == [x EXCEPT !.status = "CLOSED", !.provenance = "UNKNOWN_EXTERNAL"]
    IN  IF y.phase \in Terminal THEN y ELSE Blocked(y, "OTHER")

(* closeCanonicalMirrors, by a close that finds no liquidity.              *)
Mirrored(x) == [x EXCEPT !.status = "CLOSED", !.provenance = "MIRROR"]

(* convergeConfirmedV4BidLadderRepositionClose                             *)
Convergeable(x, row) ==
    /\ x.status = "CLOSED" /\ x.provenance = "FUNI" /\ Manual(x)
    /\ row = [status |-> "CONFIRMED", tries |-> 1]

CloseConfirmed(x) == [x EXCEPT !.phase = "CLOSE_CONFIRMED", !.reason = "NONE"]

(* convergeInvalidV4BidLadderUsdResetParentState; an open parent of a      *)
(* converged close, which it repairs, is not reachable.                    *)
ParentConverged(l) ==
    LET x == ladder[l]
    IN  IF x.status = "CLOSED" /\ x.phase \in ClosePending /\ close[l].status = "CONFIRMED"
        THEN IF Convergeable(x, close[l]) THEN CloseConfirmed(x) ELSE Blocked(x, "OTHER")
        ELSE IF x.status \in AllowedStatuses(x.phase) THEN x
        ELSE IF /\ x.status = "CLOSED" /\ x.phase \in {"OPEN_PENDING", "WATCHING"}
                /\ x.provenance \in {"FUNI", "MIRROR"} /\ ~Manual(x)
             THEN OperatorClosed(x) ELSE Blocked(x, "OTHER")

(* convergeBlockedRepositionOrphanChild                                    *)
Orphan(store, l) ==
    LET k == IF store[l].reopen # NULL THEN store[l].reopen ELSE store[l].next
    IN  /\ store[l].phase = "BLOCKED" /\ k # NULL
        /\ store[k].status = "PLANNED" /\ store[k].phase = "OPEN_PENDING"
        /\ open[k].status = "NONE" /\ approval[k] # "PENDING"

OrphanConverged(store, l) ==
    LET k == IF store[l].reopen # NULL THEN store[l].reopen ELSE store[l].next
    IN  IF Orphan(store, l)
        THEN [store EXCEPT ![k] = [Blocked(@, "OTHER") EXCEPT !.status = "CANCELLED"]]
        ELSE store
-----------------------------------------------------------------------------
(* Callers: the start and the end of a call                                *)

Source(c) == call[c].source
Child(c) == call[c].child

Goto(c, label) == pc' = [pc EXCEPT ![c] = label]
Continue(c, label) == Goto(c, label) /\ UNCHANGED <<lease, call, faults>>
WithChild(c, label, k) ==
    Goto(c, label) /\ call' = [call EXCEPT ![c].child = k] /\ UNCHANGED <<lease, faults>>

(* The finally clause releases the lease if it is still the call's own.    *)
Released(c) == [l \in Ladders |-> IF lease[l] = c THEN NULL ELSE lease[l]]
Exit(c) ==
    /\ Goto(c, "idle") /\ call' = [call EXCEPT ![c] = NoCall] /\ lease' = Released(c)
    /\ UNCHANGED faults

(* assertV4BidLadderRepositionLease; losing it is retryable everywhere.    *)
Owns(c) == lease[Source(c)] = c
Asserted(c, label) == IF Owns(c) THEN Continue(c, label) ELSE Exit(c)

Acquire(c, l) == lease[l] = NULL /\ lease' = [lease EXCEPT ![l] = c]

Dispatch(c, l, periodic) ==
    /\ pc[c] = "idle" /\ Acquire(c, l)
    /\ call' = [call EXCEPT ![c] = [NoCall EXCEPT !.source = l, !.periodic = periodic]]
    /\ Goto(c, "check")
    /\ UNCHANGED <<ladder, rows, live, realized, faults>>

(* The button works while bidLadderRepositionActionState is executable.    *)
UserConfirm(l) ==
    /\ Status(l) = "OPEN" /\ Phase(l) = "WATCHING"
    /\ close[l].status # "PENDING" /\ open[l].status # "PENDING"
    /\ l \in Repositioned /\ Fresh # {}              \* bounds
    /\ Dispatch("user", l, FALSE)

(* The consumer looks at the immediate rows first, and runs the periodic   *)
(* cycle only when there are none.                                         *)
ImmediateRow(l) == Phase(l) \in Immediate /\ lease[l] = NULL

BotImmediate(l) == ImmediateRow(l) /\ Dispatch("bot", l, FALSE)

CycleRuns == pc["bot"] = "idle" /\ \A l \in Ladders : ~ImmediateRow(l)

BotPeriodic(l) == CycleRuns /\ Phase(l) \in ClosePending /\ Dispatch("bot", l, TRUE)

(* Without ownership the cycle only converges the parent, and orphans.     *)
BotPassive(l) ==
    /\ CycleRuns /\ lease[l] = NULL /\ Status(l) # "NONE"
    /\ Phase(l) \in {"OPEN_PENDING", "WATCHING"}
    /\ ladder' = [ladder EXCEPT ![l] = ParentConverged(l)]
    /\ UNCHANGED <<rows, live, realized, calls>>

BotOrphan(l) ==
    /\ CycleRuns /\ Orphan(ladder, l)
    /\ ladder' = OrphanConverged(ladder, l)
    /\ UNCHANGED <<rows, live, realized, calls>>

(* processV4BidLadderUsdResetOwned, up to the phase.                       *)
Check(c) ==
    /\ pc[c] = "check"
    /\ IF ~Owns(c)
       THEN Exit(c) /\ UNCHANGED ladder
       ELSE /\ ladder' = [ladder EXCEPT ![Source(c)] = ParentConverged(Source(c))]
            /\ IF ParentConverged(Source(c)).phase \in Terminal THEN Exit(c) ELSE Continue(c, "route")
    /\ UNCHANGED <<rows, live, realized>>

(* What the rows of the close say of a call that finds it under way.  A    *)
(* conflict throws; the cycle turns that into a block.                     *)
Conflict(c, l) ==
    /\ Exit(c)
    /\ ladder' = [ladder EXCEPT ![l] = IF call[c].periodic THEN Blocked(@, "OTHER") ELSE @]

RouteClosing(c, l) ==
    \/ /\ close[l].status \in {"NONE", "FAILED"}
       /\ ladder' = [ladder EXCEPT ![l] = Blocked(@, "OTHER")]
       /\ Exit(c)
    \/ /\ close[l].status = "CONFIRMED" /\ Status(l) # "CLOSED"
       /\ Exit(c) /\ UNCHANGED ladder
    \/ /\ close[l].status = "CONFIRMED" /\ Status(l) = "CLOSED"
       /\ IF Convergeable(ladder[l], close[l])
          THEN ladder' = [ladder EXCEPT ![l] = CloseConfirmed(@)] /\ Continue(c, "route")
          ELSE Conflict(c, l)
    \/ /\ close[l].status = "PENDING"
       /\ Asserted(c, "close") /\ UNCHANGED ladder

Route(c) ==
    LET l == Source(c)
    IN  /\ pc[c] = "route"
        /\ \/ /\ Phase(l) = "WATCHING" /\ c = "user"
              /\ Continue(c, "truth") /\ UNCHANGED ladder
           \/ /\ Phase(l) \in Terminal \cup {"OPEN_PENDING"} \/ (Phase(l) = "WATCHING" /\ c = "bot")
              /\ Exit(c) /\ UNCHANGED ladder
           \/ /\ Phase(l) \in ClosePending
              /\ RouteClosing(c, l)
           \/ /\ Phase(l) = "CLOSE_CONFIRMED"
              /\ Asserted(c, "principal") /\ UNCHANGED ladder
           \/ /\ Phase(l) = "PRINCIPAL_RECONCILED"
              /\ Asserted(c, "plan") /\ UNCHANGED ladder
           \/ /\ Phase(l) \in Reopening
              /\ UNCHANGED ladder
              /\ IF Owns(c) THEN WithChild(c, "authorize", ActiveChild(l)) ELSE Exit(c)
        /\ UNCHANGED <<rows, live, realized>>

(* An await fails: providers, the database, a timeout of 60 s.             *)
Fails(c) ==
    /\ pc[c] \notin {"idle", "check", "route"}
    /\ faults < MaxFaults /\ faults' = faults + 1
    /\ Goto(c, "idle") /\ call' = [call EXCEPT ![c] = NoCall] /\ lease' = Released(c)
    /\ UNCHANGED <<ladder, rows, live, realized>>

(* The proof of the principal is refused for good; only the cycle blocks.  *)
ProofRefused(c) ==
    /\ pc[c] = "principal"
    /\ faults < MaxFaults /\ faults' = faults + 1
    /\ Goto(c, "idle") /\ call' = [call EXCEPT ![c] = NoCall] /\ lease' = Released(c)
    /\ ladder' = [ladder EXCEPT ![Source(c)] =
                    IF call[c].periodic /\ @.phase \notin Terminal THEN Blocked(@, "OTHER") ELSE @]
    /\ UNCHANGED <<rows, live, realized>>
-----------------------------------------------------------------------------
(* The close                                                               *)

(* nonceTruth: the wallet has a transaction that is not final, of whatever *)
(* ladder.                                                                 *)
Unresolved == \E l \in Ladders : "PENDING" \in {close[l].status, open[l].status, approval[l]}

(* evaluateV4BidLadderUsdResetEligibility; prices may refuse beyond it.    *)
Eligible(l) == l \in live /\ ~Unresolved

(* readV4BidLadderUsdResetTruth: it insists on open legs before it looks.  *)
ResetTruth(l) == Status(l) = "OPEN" /\ Eligible(l)

(* The truth and the allowance, before any signing.                        *)
Truth(c) ==
    /\ pc[c] = "truth"
    /\ \/ Exit(c)                                   \* not eligible
       \/ ResetTruth(Source(c)) /\ Asserted(c, "close")
    /\ UNCHANGED <<ladder, rows, live, realized>>

(* persistPrepared of CLOSE_BATCH: the row and the phase in a transaction. *)
(* The call itself carries the user's word, the row that of an earlier one. *)
PreparedClose(x) ==
    IF x.phase = "WATCHING" THEN [x EXCEPT !.phase = "CLOSE_PREPARED", !.auth = "MANUAL"] ELSE x

MayPrepareClose(c, x) ==
    (x.phase = "WATCHING" /\ c = "user") \/ (x.phase = "CLOSE_PREPARED" /\ Manual(x))

Authorized(c, x) == IF x.phase = "WATCHING" THEN c = "user" ELSE Manual(x)

(* executeV4BidLadderManualClose for a reposition.                         *)
Close(c) ==
    LET l == Source(c)
    IN  /\ pc[c] = "close"
        /\ \/ /\ ~Authorized(c, ladder[l])
              /\ Exit(c) /\ UNCHANGED <<ladder, rows>>
           \/ /\ Authorized(c, ladder[l]) /\ close[l].status = "CONFIRMED"
              /\ Continue(c, "waitClose") /\ UNCHANGED <<ladder, rows>>
           \/ /\ Authorized(c, ladder[l]) /\ close[l].status = "PENDING"
              /\ Continue(c, "joinClose") /\ UNCHANGED <<ladder, rows>>
           \/ /\ close[l].status \in {"NONE", "FAILED"}
              /\ Status(l) = "OPEN" /\ l \notin live
              /\ ladder' = [ladder EXCEPT ![l] = Mirrored(@)]
              /\ Continue(c, "closed") /\ UNCHANGED rows
           \/ /\ close[l].status \in {"NONE", "FAILED"} /\ close[l].tries < MaxTries
              /\ Status(l) = "OPEN" /\ l \in live
              /\ IF MayPrepareClose(c, ladder[l])
                 THEN /\ close' = [close EXCEPT ![l] = [status |-> "PENDING", tries |-> @.tries + 1]]
                      /\ ladder' = [ladder EXCEPT ![l] = PreparedClose(@)]
                      /\ Continue(c, "sendClose") /\ UNCHANGED <<open, approval>>
                 ELSE Exit(c) /\ UNCHANGED <<ladder, rows>>
           \/ /\ close[l].status \in {"NONE", "FAILED"} /\ Status(l) # "OPEN"
              /\ Exit(c) /\ UNCHANGED <<ladder, rows>>
        /\ UNCHANGED <<live, realized>>

(* markSubmitted of CLOSE_BATCH.                                           *)
SendClose(c) ==
    /\ pc[c] \in {"sendClose", "joinClose"}
    /\ ladder' = [ladder EXCEPT ![Source(c)].phase = IF @ = "CLOSE_PREPARED" THEN "CLOSE_SUBMITTED" ELSE @]
    /\ Continue(c, IF pc[c] = "sendClose" THEN "waitClose" ELSE "waitJoined")
    /\ UNCHANGED <<rows, live, realized>>

(* reconcileClose: one transaction for the terminal state, the phase and   *)
(* the realized event.  It throws, and all of it is undone, when the close *)
(* cannot be converged or the reset is blocked.                            *)
(* Fault: an opened ladder that was never watched goes the same way.       *)
ProjectedCloseEarly(l) ==
    LET y == FuniClosed(ladder[l])
    IN  IF y.phase \in ClosePending \cup {"OPEN_PENDING"} THEN CloseConfirmed(y) ELSE y

ProjectedClose(l) ==
    LET y == FuniClosed(ladder[l])
    IN  IF y.phase \in ClosePending THEN CloseConfirmed(y)
        ELSE IF y.phase = "OPEN_PENDING" THEN OperatorClosed(y) ELSE y

CloseProjectable(l) ==
    /\ close[l].status = "CONFIRMED" /\ l \notin realized /\ approval[l] # "PENDING"
    /\ Phase(l) # "BLOCKED"
    /\ Phase(l) \in ClosePending => Convergeable(FuniClosed(ladder[l]), close[l])

ProjectClose(l) ==
    /\ CloseProjectable(l)
    /\ ladder' = [ladder EXCEPT ![l] = ProjectedClose(l)]
    /\ realized' = realized \cup {l}

(* The receipt is in.  The projection inline may fail: the worker has it.  *)
WaitClose(c) ==
    LET l == Source(c)
    IN  /\ pc[c] \in {"waitClose", "waitJoined"}
        /\ \/ /\ close[l].status = "CONFIRMED"
              /\ ProjectClose(l) \/ UNCHANGED <<ladder, realized>>
              /\ Continue(c, "closed")
           \/ /\ close[l].status = "FAILED"
              /\ ~(pc[c] = "waitJoined" /\ l \notin live /\ Status(l) = "OPEN")
              /\ Exit(c) /\ UNCHANGED <<ladder, realized>>
           \/ /\ close[l].status = "FAILED"
              /\ pc[c] = "waitJoined" /\ l \notin live /\ Status(l) = "OPEN"
              /\ ladder' = [ladder EXCEPT ![l] = Mirrored(@)]
              /\ Continue(c, "closed") /\ UNCHANGED realized
        /\ UNCHANGED <<rows, live>>

Closed(c) ==
    LET l == Source(c)
    IN  /\ pc[c] = "closed"
        /\ IF Phase(l) \in ClosePending /\ Status(l) = "CLOSED"
           THEN IF Convergeable(ladder[l], close[l])
                THEN ladder' = [ladder EXCEPT ![l] = CloseConfirmed(@)] /\ Continue(c, "route")
                ELSE Conflict(c, l)
           ELSE /\ IF Phase(l) \in Immediate THEN Continue(c, "route") ELSE Exit(c)
                /\ UNCHANGED ladder
        /\ UNCHANGED <<rows, live, realized>>
-----------------------------------------------------------------------------
(* The replacement                                                         *)

Blocks(c, from, reason) ==
    /\ ladder' = TransitionOnce(Source(c), from, Blocked(ladder[Source(c)], reason))
    /\ Exit(c)

(* confirmedCloseJournal: the latest row of the close has its receipt.     *)
CloseReceipt(l) == close[l].status = "CONFIRMED"

(* proveV4BidLadderUsdResetPrincipal: the receipt emptied the positions,   *)
(* and at the price of its block their principal was the funding token     *)
(* alone, or some of the target too.                                       *)
Proofs(l) ==
    IF CloseReceipt(l) /\ l \notin live THEN {"FUNDING_ALONE", "TARGET_TOO"} ELSE {}

(* What the proof makes of the phase, which its transaction reads again.   *)
Reconciled(x, proof) ==
    IF x.phase # "CLOSE_CONFIRMED" THEN x
    ELSE IF proof = "FUNDING_ALONE" THEN [x EXCEPT !.phase = "PRINCIPAL_RECONCILED"]
    ELSE Blocked(x, "OTHER")

(* reconcileV4BidLadderUsdResetPrincipal                                   *)
Principal(c) ==
    LET l == Source(c)
    IN  /\ pc[c] = "principal"
        /\ \E proof \in Proofs(l) : ladder' = [ladder EXCEPT ![l] = Reconciled(@, proof)]
        /\ Continue(c, "route")
        /\ UNCHANGED <<rows, live, realized>>

(* planChild: the child and the phase in one transaction, after the pool   *)
(* has been inspected.                                                     *)
Planned(store, l, k) ==
    [Created(store, l, k) EXCEPT ![l].phase = "REOPEN_PLANNED", ![l].reopen = k]

(* Fault: the phase that was read before the pool was inspected is trusted. *)
MayPlanUnchecked(l) == TRUE

MayPlan(l) == Phase(l) = "PRINCIPAL_RECONCILED" /\ ladder[l].next = NULL

PlanChild(c) ==
    LET l == Source(c)
    IN  /\ pc[c] = "plan"
        /\ \/ /\ MayPlan(l)
              /\ Fresh # {}                         \* bound MaxLadders
              /\ ladder' = Planned(ladder, l, NextFresh)
              /\ Continue(c, "route")
           \/ /\ Phase(l) # "PRINCIPAL_RECONCILED"
              /\ IF ladder[l].next # NULL THEN Continue(c, "route") ELSE Exit(c)
              /\ UNCHANGED ladder
           \/ Blocks(c, {"PRINCIPAL_RECONCILED"}, "OTHER")
        /\ UNCHANGED <<rows, live, realized>>

(* assertV4BidLadderReplacementAuthorization                               *)
ReplacementAuthorized(l, k) ==
    /\ Status(l) = "CLOSED" /\ Manual(ladder[l]) /\ Phase(l) \in Reopening
    /\ ActiveChild(l) = k /\ ladder[k].previous = l
    /\ open[k].status # "FAILED" /\ open[k].tries <= 1 /\ approval[k] # "FAILED"

(* The catch clause around the open.  A transaction that is pending or     *)
(* confirmed, and a retryable error, leave the phase to the next call.  A  *)
(* terminal error blocks the source and then converges its child; the bot  *)
(* may die between the two.                                                *)
(* Fault: a transaction that has failed counts as one that may still open. *)
MayHaveOpenedEver(k) == approval[k] # "NONE" \/ open[k].status # "NONE"

MayHaveOpened(k) == approval[k] = "PENDING" \/ open[k].status \in {"PENDING", "CONFIRMED"}

BlockedSource(l, reason) == [ladder EXCEPT ![l] = Blocked(@, reason)]

Terminates(c, reason) ==
    LET l == Source(c)
    IN  \/ /\ MayHaveOpened(Child(c)) \/ Phase(l) \notin Reopening
           /\ Exit(c) /\ UNCHANGED ladder
        \/ /\ ~MayHaveOpened(Child(c)) /\ Phase(l) \in Reopening
           /\ ladder' = OrphanConverged(BlockedSource(l, reason), l)
           /\ Exit(c)
        \/ /\ ~MayHaveOpened(Child(c)) /\ Phase(l) \in Reopening
           /\ ladder' = BlockedSource(l, reason)
           /\ faults < MaxFaults /\ faults' = faults + 1
           /\ pc' = [d \in Callers |-> "idle"] /\ call' = [d \in Callers |-> NoCall]
           /\ UNCHANGED lease

Authorize(c) ==
    /\ pc[c] = "authorize"
    /\ IF ReplacementAuthorized(Source(c), Child(c))
       THEN Continue(c, "open") /\ UNCHANGED ladder
       ELSE Terminates(c, "OTHER")
    /\ UNCHANGED <<rows, live, realized>>

(* executeV4BidLadderLiveOpen: a receipt of an earlier call, or the state  *)
(* of the ladder, which may be refused for good (balance, gas cap, safety) *)
(* or have drifted out of its ranges.  A ladder that is not planned is     *)
(* refused with an error that counts as retryable.                         *)
Drifts(c) == Continue(c, "drift") /\ UNCHANGED ladder

Open(c) ==
    LET k == Child(c)
    IN  /\ pc[c] = "open"
        /\ \/ open[k].status = "CONFIRMED" /\ Continue(c, "waitOpen") /\ UNCHANGED ladder
           \/ /\ open[k].status # "CONFIRMED" /\ Status(k) # "PLANNED"
              /\ Exit(c) /\ UNCHANGED ladder
           \/ /\ open[k].status # "CONFIRMED" /\ Status(k) = "PLANNED"
              /\ (Continue(c, "approve") /\ UNCHANGED ladder) \/ Drifts(c) \/ Terminates(c, "OTHER")
        /\ UNCHANGED <<rows, live, realized>>

(* The approval of the opening, when the allowance does not cover it; its  *)
(* row too is admitted only while the ladder is planned.                   *)
Approve(c) ==
    LET k == Child(c)
    IN  /\ pc[c] = "approve"
        /\ \/ approval[k] # "PENDING" /\ Continue(c, "mint") /\ UNCHANGED <<ladder, approval>>
           \/ approval[k] = "PENDING" /\ Continue(c, "waitApproval") /\ UNCHANGED <<ladder, approval>>
           \/ /\ approval[k] = "NONE" /\ Status(k) = "PLANNED"
              /\ approval' = [approval EXCEPT ![k] = "PENDING"]
              /\ Continue(c, "waitApproval") /\ UNCHANGED ladder
           \/ approval[k] = "NONE" /\ Status(k) # "PLANNED" /\ Terminates(c, "OTHER") /\ UNCHANGED approval
        /\ UNCHANGED <<close, open, live, realized>>

WaitApproval(c) ==
    /\ pc[c] = "waitApproval"
    /\ \/ approval[Child(c)] = "CONFIRMED" /\ Continue(c, "mint") /\ UNCHANGED ladder
       \/ approval[Child(c)] = "FAILED" /\ Terminates(c, "OTHER")
    /\ UNCHANGED <<rows, live, realized>>

(* persistPrepared of OPEN_BATCH: the row, if the ladder is still planned, *)
(* and the phase of its predecessor in one transaction.                    *)
PreparedOpen(k) ==
    LET p == ladder[k].previous
    IN  IF p # NULL /\ Phase(p) = "REOPEN_PLANNED"
        THEN [ladder EXCEPT ![p].phase = "REOPEN_PREPARED", ![p].reopen = k] ELSE ladder

(* Fault: the row is admitted whatever has become of the ladder.           *)
AdmittedAlways(k) == TRUE

Admitted(k) == Status(k) = "PLANNED"

Mint(c) ==
    LET k == Child(c)
    IN  /\ pc[c] = "mint"
        /\ \/ Drifts(c) /\ UNCHANGED open
           \/ Terminates(c, "OTHER") /\ UNCHANGED open
           \/ open[k].status = "PENDING" /\ Continue(c, "sendOpen") /\ UNCHANGED <<ladder, open>>
           \/ open[k].status = "CONFIRMED" /\ Continue(c, "waitOpen") /\ UNCHANGED <<ladder, open>>
           \/ /\ open[k].status \in {"NONE", "FAILED"} /\ open[k].tries < MaxTries
              /\ IF Admitted(k)
                 THEN /\ open' = [open EXCEPT ![k] = [status |-> "PENDING", tries |-> @.tries + 1]]
                      /\ ladder' = PreparedOpen(k)
                      /\ Continue(c, "sendOpen")
                 ELSE Terminates(c, "OTHER") /\ UNCHANGED open
        /\ UNCHANGED <<close, approval, live, realized>>

(* markSubmitted of OPEN_BATCH.                                            *)
SendOpen(c) ==
    LET k == Child(c) p == ladder[k].previous
    IN  /\ pc[c] = "sendOpen"
        /\ ladder' = IF Phase(p) = "REOPEN_PREPARED"
                     THEN [ladder EXCEPT ![p].phase = "REOPEN_SUBMITTED", ![p].reopen = k] ELSE ladder
        /\ Continue(c, "waitOpen")
        /\ UNCHANGED <<rows, live, realized>>

(* finalizeV4BidLadderOpenProjection                                       *)
OpenProjectable(l) == open[l].status = "CONFIRMED" /\ Status(l) = "PLANNED"
ProjectOpen(l) == OpenProjectable(l) /\ ladder' = [ladder EXCEPT ![l].status = "OPEN"]

Opened(k) == open[k].status = "CONFIRMED"

(* A revert is retryable: the next call is refused its authorization.      *)
WaitOpen(c) ==
    LET k == Child(c)
    IN  /\ pc[c] = "waitOpen"
        /\ \/ /\ Opened(k)
              /\ ProjectOpen(k) \/ UNCHANGED ladder
              /\ Continue(c, "complete")
           \/ open[k].status = "FAILED" /\ Exit(c) /\ UNCHANGED ladder
        /\ UNCHANGED <<rows, live, realized>>

Completed(l, k) == [ladder[l] EXCEPT !.phase = "COMPLETED", !.reopen = k]

Complete(c) ==
    LET l == Source(c)
    IN  /\ pc[c] = "complete"
        /\ ladder' = TransitionOnce(l, Reopening, Completed(l, Child(c)))
        /\ Exit(c)
        /\ UNCHANGED <<rows, live, realized>>

(* Fault: one attempt too many.                                            *)
JitExceeded(k) == ladder[k].jit > MaxJit

JitExhausted(k) == ladder[k].jit >= MaxJit

(* childFundingOnlyDrift, and what is checked before the fresh plan is     *)
(* made (rematerializeV4BidLadderRepositionChildOnce).                     *)
Rematerializable(l, k) ==
    /\ ActiveChild(l) = k /\ Phase(l) = "REOPEN_PLANNED"
    /\ Status(k) = "PLANNED" /\ Phase(k) = "OPEN_PENDING"

Drift(c) ==
    LET l == Source(c) k == Child(c)
    IN  /\ pc[c] = "drift"
        /\ \/ Terminates(c, "OTHER")                \* the price has not moved
           \/ /\ ~Owns(c) \/ ~Rematerializable(l, k) \/ (~JitExhausted(k) /\ open[k].status # "NONE")
              /\ Exit(c) /\ UNCHANGED ladder
           \/ /\ Owns(c) /\ Rematerializable(l, k) /\ JitExhausted(k)
              /\ Terminates(c, "JIT_EXHAUSTED")
           \/ /\ Owns(c) /\ Rematerializable(l, k) /\ ~JitExhausted(k) /\ open[k].status = "NONE"
              /\ Goto(c, "rematerialize") /\ call' = [call EXCEPT ![c].jit = ladder[k].jit]
              /\ UNCHANGED <<ladder, lease, faults>>
        /\ UNCHANGED <<rows, live, realized>>

(* The commit compares the revisions and the attempts it has read.         *)
Rematerialize(c) ==
    LET k == Child(c)
    IN  /\ pc[c] = "rematerialize"
        /\ IF /\ Status(k) = "PLANNED" /\ Phase(k) = "OPEN_PENDING"
              /\ open[k].status = "NONE" /\ ladder[k].jit = call[c].jit
           THEN ladder' = [ladder EXCEPT ![k].jit = @ + 1] /\ Continue(c, "authorize")
           ELSE Exit(c) /\ UNCHANGED ladder
        /\ UNCHANGED <<rows, live, realized>>
-----------------------------------------------------------------------------
(* The chain decides, once for every row; a close decreases what is there. *)
SettleClose(l, status) ==
    /\ close[l].status = "PENDING"
    /\ status = "CONFIRMED" => l \in live
    /\ close' = [close EXCEPT ![l].status = status]
    /\ live' = IF status = "CONFIRMED" THEN live \ {l} ELSE live
    /\ UNCHANGED <<ladder, open, approval, realized, calls>>

SettleOpen(l, status) ==
    /\ open[l].status = "PENDING"
    /\ open' = [open EXCEPT ![l].status = status]
    /\ live' = IF status = "CONFIRMED" THEN live \cup {l} ELSE live
    /\ UNCHANGED <<ladder, close, approval, realized, calls>>

SettleApproval(l, status) ==
    /\ approval[l] = "PENDING"
    /\ approval' = [approval EXCEPT ![l] = status]
    /\ UNCHANGED <<ladder, close, open, live, realized, calls>>

Settle(l) ==
    \E status \in {"CONFIRMED", "FAILED"} :
        SettleClose(l, status) \/ SettleOpen(l, status) \/ SettleApproval(l, status)

(* The user withdraws the liquidity outside of FUNI.                       *)
ExternalClose(l) ==
    /\ l \in live /\ live' = live \ {l}
    /\ UNCHANGED <<ladder, rows, realized, calls>>

(* The reconcile worker projects confirmed rows; it discovers and picks the *)
(* row of a close only while its ladder is open.                           *)
WorkerProjectsClose(l) ==
    Status(l) = "OPEN" /\ ProjectClose(l) /\ UNCHANGED <<rows, live, calls>>
WorkerProjectsOpen(l) == ProjectOpen(l) /\ UNCHANGED <<rows, live, realized, calls>>

(* The state cache: an opened ladder is watched once it is actionable, and *)
(* positions found empty converge theirs.                                  *)
ConvergeOpenPending(l) ==
    /\ Phase(l) = "OPEN_PENDING" /\ Status(l) = "OPEN"
    /\ ladder' = [ladder EXCEPT ![l].phase = "WATCHING"]
    /\ UNCHANGED <<rows, live, realized, calls>>

ConvergeTerminal(l) ==
    /\ Status(l) = "OPEN" /\ l \notin live
    /\ close[l].status # "PENDING" /\ approval[l] # "PENDING"
    /\ ladder' = [ladder EXCEPT ![l] = IF close[l].status = "CONFIRMED" THEN FuniClosed(@) ELSE ExternallyClosed(@)]
    /\ UNCHANGED <<rows, live, realized, calls>>

(* The close of the operator, without a lease and whatever the phase.      *)
OperatorClose(l) ==
    /\ Status(l) = "OPEN" /\ close[l].status \in {"NONE", "FAILED"}
    /\ \/ /\ l \in live /\ close[l].tries < MaxTries
          /\ close' = [close EXCEPT ![l] = [status |-> "PENDING", tries |-> @.tries + 1]]
          /\ UNCHANGED ladder
       \/ /\ l \notin live
          /\ ladder' = [ladder EXCEPT ![l] =
                          IF @.phase \in {"OPEN_PENDING", "WATCHING"}
                          THEN OperatorClosed(Mirrored(@)) ELSE Mirrored(@)]
          /\ UNCHANGED close
    /\ UNCHANGED <<open, approval, live, realized, calls>>

(* Its projection inline, after the receipt or at a later attempt.         *)
OperatorProjects(l) == ProjectClose(l) /\ UNCHANGED <<rows, live, calls>>

(* cancelV4BidLadderRepositionPreClose and stopV4BidLadderReplacementOpen  *)
(* take the lease and give it back without an await.                       *)
CancelPreClose(l) ==
    /\ lease[l] = NULL /\ Phase(l) = "WATCHING" /\ close[l].status = "NONE"
    /\ ladder' = [ladder EXCEPT ![l] = Blocked(@, "CANCELLED_PRE_CLOSE")]
    /\ UNCHANGED <<rows, live, realized, calls>>

StopReplacement(l) ==
    /\ lease[l] = NULL
    /\ Phase(l) \in {"CLOSE_CONFIRMED", "PRINCIPAL_RECONCILED"} /\ ladder[l].next = NULL
    /\ ladder' = [ladder EXCEPT ![l] = Blocked(@, "OPEN_STOPPED")]
    /\ UNCHANGED <<rows, live, realized, calls>>

(* resumeV4BidLadderReposition, by the CLI: the new child succeeds the     *)
(* cancelled one, and is the active child of the source.                   *)
Resume(l) ==
    LET k == ladder[l].next
    IN  /\ lease[l] = NULL
        /\ Status(l) = "CLOSED" /\ ladder[l].provenance = "FUNI"
        /\ Phase(l) = "BLOCKED" /\ ladder[l].reason = "JIT_EXHAUSTED"
        /\ close[l] = [status |-> "CONFIRMED", tries |-> 1]
        /\ k # NULL /\ Status(k) = "CANCELLED" /\ Phase(k) = "BLOCKED"
        /\ ladder[k].next = NULL /\ open[k].status = "NONE"
        /\ ~Unresolved
        /\ Fresh # {}                               \* bound MaxLadders
        /\ ladder' = [Created(ladder, k, NextFresh) EXCEPT
                        ![l].phase = "REOPEN_PLANNED", ![l].reopen = NextFresh, ![l].reason = "NONE"]
        /\ UNCHANGED <<rows, live, realized, calls>>

(* expireAbandonedPlannedV4BidLadders, by any open in the bot: a ladder    *)
(* planned for 30 minutes without a transaction is cancelled, with no      *)
(* regard to its reset.                                                    *)
Expirable(l) == Status(l) = "PLANNED" /\ open[l].status = "NONE" /\ approval[l] = "NONE"

ExpirePlanned(l) ==
    /\ Expirable(l)
    /\ ladder' = [ladder EXCEPT ![l].status = "CANCELLED"]
    /\ UNCHANGED <<rows, live, realized, calls>>

(* A lease ends when its holder is gone, or has not renewed it in time.    *)
Holds(c, l) == pc[c] # "idle" /\ call[c].source = l

LeaseExpires(l) ==
    /\ lease[l] # NULL
    /\ lease' = [lease EXCEPT ![l] = NULL]
    /\ IF Holds(lease[l], l) THEN faults < MaxFaults /\ faults' = faults + 1 ELSE UNCHANGED faults
    /\ UNCHANGED <<ladder, rows, live, realized, pc, call>>

BotCrash ==
    /\ \E c \in Callers : pc[c] # "idle"
    /\ faults < MaxFaults /\ faults' = faults + 1
    /\ pc' = [c \in Callers |-> "idle"] /\ call' = [c \in Callers |-> NoCall]
    /\ UNCHANGED <<ladder, rows, live, realized, lease>>
-----------------------------------------------------------------------------
Works(c) ==
    \/ Check(c) \/ Route(c) \/ Truth(c) \/ Close(c) \/ SendClose(c) \/ WaitClose(c) \/ Closed(c)
    \/ Principal(c) \/ PlanChild(c) \/ Authorize(c) \/ Open(c) \/ Approve(c) \/ WaitApproval(c)
    \/ Mint(c) \/ SendOpen(c) \/ WaitOpen(c) \/ Complete(c) \/ Drift(c) \/ Rematerialize(c)

Steps(c) == Works(c) \/ Fails(c) \/ ProofRefused(c)

Outside(l) ==
    \/ Settle(l) \/ ExternalClose(l) \/ WorkerProjectsClose(l) \/ WorkerProjectsOpen(l)
    \/ ConvergeOpenPending(l) \/ ConvergeTerminal(l) \/ OperatorClose(l) \/ OperatorProjects(l)
    \/ CancelPreClose(l) \/ StopReplacement(l) \/ Resume(l) \/ ExpirePlanned(l) \/ LeaseExpires(l)

Begins(l) ==
    UserConfirm(l) \/ BotImmediate(l) \/ BotPeriodic(l) \/ BotPassive(l) \/ BotOrphan(l)

Next ==
    \/ \E c \in Callers : Steps(c)
    \/ \E l \in Ladders : Begins(l) \/ Outside(l)
    \/ BotCrash

(* The consumer and the callers run, and so do the worker and the state    *)
(* cache; a pending row is decided; the lease of a dead holder expires.    *)
DeadLeaseExpires(l) == lease[l] # NULL /\ ~Holds(lease[l], l) /\ LeaseExpires(l)

(* The cycle puts every row it has tried behind all the others.            *)
CycleRotates(l) == WF_vars(BotPeriodic(l))

Fairness ==
    /\ \A c \in Callers : WF_vars(Works(c))
    /\ \A l \in Ladders :
        /\ WF_vars(BotImmediate(l)) /\ CycleRotates(l)
        /\ WF_vars(WorkerProjectsClose(l)) /\ WF_vars(ConvergeTerminal(l))
        /\ WF_vars(Settle(l)) /\ WF_vars(DeadLeaseExpires(l))

Spec == Init /\ [][Next]_vars /\ Fairness
-----------------------------------------------------------------------------
(* At most one ladder of a lineage has liquidity on chain or may get some  *)
(* from a pending opening, whoever has lost its lease and whatever has     *)
(* been retried, resumed or expired: the principal is invested once.       *)
Invested(l) == l \in live \/ open[l].status = "PENDING"

InvestedOnce == \A l, m \in Ladders : Invested(l) /\ Invested(m) => l = m

(* A cancelled ladder never has a transaction of its opening that could    *)
(* still land or has landed: expiry and orphan convergence do not race the *)
(* admission of the opening.                                               *)
CancelledNeverMints ==
    \A l \in Ladders : Status(l) = "CANCELLED" => open[l].status = "NONE" /\ l \notin live

(* From the prepared close on a reposition carries the word of the user,   *)
(* and past its confirmation the ladder is closed by exactly that close.   *)
ManualAndClosed ==
    \A l \in Ladders :
        /\ Phase(l) \in ClosePending \cup Converged => Manual(ladder[l])
        /\ Phase(l) \in Converged => Convergeable(ladder[l], close[l])

(* A confirmed close is booked as realized, or the reset is blocked for    *)
(* the operator to see.                                                    *)
CloseIsBooked ==
    \A l \in Ladders :
        close[l].status = "CONFIRMED" ~> l \in realized \/ Phase(l) = "BLOCKED"

(* A reposition whose close is confirmed completes or is blocked, unless   *)
(* its planned child has expired, or an approval that was sent beside the  *)
(* mint has failed: nobody completes an opening that is not authorized.    *)
ChildExpired(l) ==
    Phase(l) = "REOPEN_PLANNED" /\ Status(ActiveChild(l)) = "CANCELLED"

ChildUnauthorized(l) ==
    /\ Phase(l) \in {"REOPEN_PREPARED", "REOPEN_SUBMITTED"}
    /\ open[ActiveChild(l)].status = "CONFIRMED" /\ approval[ActiveChild(l)] = "FAILED"

RepositionEnds ==
    \A l \in Ladders :
        Phase(l) = "CLOSE_CONFIRMED" ~>
            Phase(l) \in {"COMPLETED", "BLOCKED"} \/ ChildExpired(l) \/ ChildUnauthorized(l)
===============================================================================
