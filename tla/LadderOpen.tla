------------------------------ MODULE LadderOpen ------------------------------
(***************************************************************************)
(* From an amount typed in a Telegram chat to a minted BID ladder: flow    *)
(* sessions (lp-ledger), live previews and the authority one of them       *)
(* grants (live-preview-lifecycle.ts, telegram-lp-bot), the expiry of      *)
(* abandoned ladders (v4-bid-ladder-cancellation.ts) and the live open     *)
(* (v4-bid-ladder-live.ts).                                                *)
(*                                                                         *)
(* The bot is one process: an action is what a handler does between two    *)
(* awaits.  Executions, the preview in flight, authorities and open calls  *)
(* are in its memory and a restart loses them; flows, ladders and rows are *)
(* in the database.  What submit does of a row is one step here, since     *)
(* DurableTransaction is about it.  One user and chat; every question to   *)
(* the chain, the allowances among them, is answered, refused or late as   *)
(* it pleases.                                                             *)
(***************************************************************************)
EXTENDS Naturals, FiniteSets, Sequences

CONSTANTS
    Ladders,        \* ladder ids a preview may plan
    MaxSessions,    \* bound on the flow sessions of the chat
    MaxRevision,    \* bound on the revision of a flow
    MaxPreviews,    \* bound on the preview executions
    MaxOpens,       \* bound on the confirmations that are admitted
    NULL

ASSUME BoundsAssumption ==
    /\ {MaxSessions, MaxRevision, MaxPreviews, MaxOpens} \subseteq Nat
    /\ NULL \notin Nat \cup Ladders

Stages == {"ERC20", "PERMIT2"}

Kinds == {"pool", "v4_strategy", "v4_bid_ladder_depth", "v4_bid_ladder_amount", "v4_bid_ladder_preview"}
FlowStatuses == {"active", "cancelled", "none"}
LifeStatuses == {"PREPARING", "COMPUTED", "DELIVERED", "FAILED"}
Phases == {"PREPARING", "COMPUTED", "DELIVERED", "FAILED", "SUPERSEDED"}

Previews == 1..MaxPreviews
Lifecycle == [status : LifeStatuses, request : Previews, ladder : Ladders]
Session == [id : 0..MaxSessions, status : FlowStatuses, due : BOOLEAN, revision : 0..MaxRevision, kind : Kinds,
            lifecycle : Lifecycle \cup {NULL}]

(* ready: no blocker so far.  overtaken, no field of the program: since it  *)
(* began (a manual one: since it was shown), the user has done what takes   *)
(* its place.                                                               *)
Preview == [manual : BOOLEAN, session : 0..MaxSessions, revision : 0..MaxRevision,
            ladder : Ladders \cup {NULL}, phase : Phases, overtaken : BOOLEAN,
            ready : BOOLEAN,
            at : {"progress", "pool", "native", "context", "chain", "deliver", "notify", "end"}]

(* old: not written for 30 minutes.  row: the OPEN_BATCH journal row.       *)
(* approval: the journal row of each approval; a receipt, once it is there. *)
Ladder == [status : {"NONE", "PLANNED", "OPEN", "CANCELLED"}, old : BOOLEAN,
           row : {"NONE", "SENT", "CONFIRMED", "FAILED"},
           approval : [Stages -> {"NONE", "SENT", "CONFIRMED"}], minted : 0..2]

Call == [at : {"none", "context", "chain", "approve", "final", "submit", "wait"},
         todo : SUBSET Stages]

VARIABLES
    flow,           \* the last of telegram_flow_sessions; the others are over
    picking,        \* the flow a depth selection has loaded, and overtaken
    previews,       \* preview executions, oldest first
    inFlight,       \* bidLadderDirectLiveInFlight of the scope
    authority,      \* bidLadderPreviewAuthorities: the granting preview
    opened,         \* the previews whose authority has been consumed, in order
    calls,          \* bidLadderLiveOpenInFlight
    ladders         \* v4_bid_ladders with their rows

vars == <<flow, picking, previews, inFlight, authority, opened, calls, ladders>>
ladderVars == <<opened, calls, ladders>>

Idle == [at |-> "none", todo |-> {}]
NoPick == [session |-> 0, revision |-> 0, overtaken |-> FALSE]

Init ==
    /\ flow = [id |-> 0, status |-> "none", due |-> FALSE, revision |-> 0, kind |-> "pool",
               lifecycle |-> NULL]
    /\ picking = NoPick
    /\ previews = << >> /\ inFlight = 0
    /\ authority = [l \in Ladders |-> 0]
    /\ opened = << >>
    /\ calls = [l \in Ladders |-> Idle]
    /\ ladders = [l \in Ladders |-> [status |-> "NONE", old |-> FALSE, row |-> "NONE",
                                     approval |-> [s \in Stages |-> "NONE"], minted |-> 0]]

TypeOK ==
    /\ flow \in Session
    /\ picking \in [session : 0..MaxSessions, revision : 0..MaxRevision, overtaken : BOOLEAN]
    /\ previews \in Seq(Preview) /\ Len(previews) <= MaxPreviews
    /\ inFlight \in 0..MaxPreviews
    /\ authority \in [Ladders -> 0..MaxPreviews]
    /\ opened \in Seq(Previews)
    /\ calls \in [Ladders -> Call]
    /\ ladders \in [Ladders -> Ladder]

-----------------------------------------------------------------------------
(* Flow sessions.                                                           *)

(* activeTelegramFlow, telegramFlow                                         *)
Live(s) == flow.id = s /\ flow.status = "active" /\ ~flow.due

(* transitionTelegramFlowCAS with expectedStatus active: the revision that   *)
(* was loaded is still the revision.                                        *)
Applicable(s, revision) ==
    Live(s) /\ flow.revision = revision /\ revision < MaxRevision

(* A write of a lifecycle that counts itself twice.                         *)
WrittenTwice(kind, lifecycle) ==
    [flow EXCEPT !.kind = kind, !.lifecycle = lifecycle,
                 !.revision = @ + IF lifecycle = NULL THEN 1 ELSE 2]

Written(kind, lifecycle) ==
    [flow EXCEPT !.kind = kind, !.lifecycle = lifecycle, !.revision = @ + 1]

(* createTelegramFlow: what was active is expired or superseded.            *)
Created == [id |-> flow.id + 1, status |-> "active", due |-> FALSE, revision |-> 0,
            kind |-> "pool", lifecycle |-> NULL]

Terminal(e) == previews[e].phase \in {"DELIVERED", "FAILED", "SUPERSEDED"}

(* supersedeActiveBidLadderPreview: the execution in flight ends, and every *)
(* authority of the user is gone.                                           *)
Overtaken(ps) == [e \in DOMAIN ps |->
    [ps[e] EXCEPT !.overtaken = @ \/ ~ps[e].manual \/ ps[e].phase = "DELIVERED"]]

Superseded(ps, e) ==
    IF e \in DOMAIN ps /\ ps[e].phase \in {"PREPARING", "COMPUTED"}
    THEN [ps EXCEPT ![e].phase = "SUPERSEDED"] ELSE ps

(* What the user overtakes keeps the authority it was granted.              *)
SupersedeFlight ==
    /\ previews' = Overtaken(Superseded(previews, inFlight))
    /\ UNCHANGED authority

SupersedeAll ==
    /\ previews' = Overtaken(Superseded(previews, inFlight))
    /\ authority' = [l \in Ladders |-> 0]

OvertakePick == picking' = [picking EXCEPT !.overtaken = picking # NoPick]

(* A token address or Start over: newFlow, cancelFlow without a session.    *)
NewFlow ==
    /\ flow.id < MaxSessions
    /\ flow' = Created
    /\ SupersedeAll /\ OvertakePick
    /\ UNCHANGED <<inFlight, ladderVars>>

(* advanceFlow of the flow that is loaded now: load and write are one turn. *)
Advance(kind, lifecycle) ==
    /\ Applicable(flow.id, flow.revision)
    /\ flow' = Written(kind, lifecycle)
    /\ SupersedeAll /\ OvertakePick
    /\ UNCHANGED <<inFlight, ladderVars>>

(* selectV4Pool: the state of the pool list, with the pool.                 *)
SelectPool == flow.kind = "pool" /\ Advance("v4_strategy", NULL)

(* bidLadderStart *)
Strategy == flow.kind = "v4_strategy" /\ Advance("v4_bid_ladder_depth", flow.lifecycle)

(* Back: to the pool list, or to the selected pool (returnToV4SelectedPool) *)
(* with the preview's lifecycle still in the state.                         *)
Back ==
    \/ flow.kind = "v4_strategy" /\ Advance("pool", NULL)
    \/ flow.kind \notin {"pool", "v4_strategy"} /\ Advance("v4_strategy", flow.lifecycle)

(* Text no step asked for: preserve, preserveBidLadderDepthText.            *)
OtherText == flow.kind # "v4_bid_ladder_amount" /\ Advance(flow.kind, flow.lifecycle)

(* cancelFlow of a session *)
Cancel ==
    /\ Live(flow.id) /\ flow.revision < MaxRevision
    /\ flow' = [flow EXCEPT !.status = "cancelled", !.revision = @ + 1]
    /\ SupersedeAll /\ OvertakePick
    /\ UNCHANGED <<inFlight, ladderVars>>

(* expires_at_ms passes; telegramFlow and recoverTelegramFlows write it     *)
(* down when they look.                                                     *)
Lapse ==
    /\ Live(flow.id)
    /\ flow' = [flow EXCEPT !.due = TRUE]
    /\ UNCHANGED <<picking, previews, inFlight, authority, ladderVars>>

(* bidLadderSelectDepth reads the pool between loading and writing the flow. *)
PickDepth ==
    /\ Live(flow.id) /\ flow.kind = "v4_bid_ladder_depth"
    /\ picking = NoPick
    /\ picking' = [session |-> flow.id, revision |-> flow.revision, overtaken |-> FALSE]
    /\ UNCHANGED <<flow, previews, inFlight, authority, ladderVars>>

DepthPicked ==
    /\ picking # NoPick
    /\ picking' = NoPick
    /\ \/ /\ Applicable(picking.session, picking.revision)
          /\ flow' = Written("v4_bid_ladder_amount", flow.lifecycle)
          /\ SupersedeAll
       \/ UNCHANGED <<flow, previews, authority>>      \* refused, or the pool is
    /\ UNCHANGED <<inFlight, ladderVars>>

-----------------------------------------------------------------------------
(* Live previews.                                                           *)

(* isCurrent of bidLadderDirectLiveOnce; a manual preview's only asks that  *)
(* its ladder is the ladder it was.                                         *)
IsCurrent(e) ==
    \/ previews[e].manual
    \/ /\ inFlight = e
       /\ Live(previews[e].session) /\ flow.revision = previews[e].revision
       /\ flow.lifecycle # NULL => flow.lifecycle.request = e

Ended(ps, e, phase) == [ps EXCEPT ![e].at = "end", ![e].phase = phase, ![e].revision = 0]

(* What an await that ends well finds: no terminal phase, and validateCurrent. *)
Continues(e, at) ==
    /\ e \in DOMAIN previews /\ previews[e].at = at
    /\ ~Terminal(e) /\ IsCurrent(e)

Cleared(e) == inFlight' = IF inFlight = e THEN 0 ELSE inFlight

(* persistInteractivePreviewLifecycle for a preview whose flow is as it left it. *)
Persisted(e, status) ==
    Written(flow.kind,
            [flow.lifecycle EXCEPT !.status = status])

(* An amount in the amount step: bidLadderDirectLive.  The one in flight is *)
(* superseded; the first thing run does is to ask whether this one is current. *)
AmountText ==
    /\ Live(flow.id) /\ flow.kind = "v4_bid_ladder_amount"
    /\ Len(previews) < MaxPreviews
    /\ LET e == Len(previews) + 1
           fresh == flow.lifecycle = NULL
           before == [p \in DOMAIN previews |->
               [Superseded(previews, inFlight)[p] EXCEPT !.overtaken = @ \/ p = inFlight]]
       IN /\ previews' = Append(before,
                 [manual |-> FALSE, session |-> flow.id, revision |-> flow.revision, ladder |-> NULL,
                  phase |-> IF fresh THEN "PREPARING" ELSE "SUPERSEDED", overtaken |-> FALSE,
                  ready |-> FALSE, at |-> IF fresh THEN "progress" ELSE "end"])
          /\ inFlight' = IF fresh THEN e ELSE 0
    /\ OvertakePick
    /\ UNCHANGED <<flow, authority, ladderVars>>

Painted(e) ==
    /\ Continues(e, "progress")
    /\ previews' = [previews EXCEPT ![e].at = "pool"]
    /\ UNCHANGED <<flow, picking, inFlight, authority, ladderVars>>

(* The pool is read: a ladder is planned and its preview written to the flow, *)
(* or the depth has no five ranges and the flow goes back to the depth step. *)
PoolRead(e) ==
    /\ Continues(e, "pool")
    /\ Applicable(previews[e].session, previews[e].revision)
    /\ \/ \E l \in {l \in Ladders : ladders[l].status \in {"NONE", "PLANNED"}} :
            /\ flow' = Written("v4_bid_ladder_preview",
                               [status |-> "PREPARING", request |-> e, ladder |-> l])
            /\ previews' = [previews EXCEPT ![e].at = "native", ![e].ladder = l,
                                            ![e].revision = @ + 1]
            /\ UNCHANGED inFlight
       \/ /\ flow' = Written("v4_bid_ladder_depth", flow.lifecycle)
          /\ previews' = Ended(previews, e, "FAILED")
          /\ Cleared(e)
    /\ UNCHANGED <<picking, authority, ladderVars>>

(* createBidLadder: a ladder of that id is left as it is, if all its legs   *)
(* are still the planned ones; otherwise the plan conflicts with it.        *)
Persistable(l) == ladders[l].status \in {"NONE", "PLANNED"}

PlanPersisted(e) ==
    /\ Continues(e, "native")
    /\ Persistable(previews[e].ladder)
    /\ ladders' = [ladders EXCEPT ![previews[e].ladder].status = IF @ = "NONE" THEN "PLANNED" ELSE @]
    /\ previews' = [previews EXCEPT ![e].at = "context"]
    /\ UNCHANGED <<flow, picking, inFlight, authority, opened, calls>>

(* The button of a ladder, or Retry LIVE Preview.                           *)
ManualPreview(l) ==
    /\ ladders[l].status # "NONE"
    /\ Len(previews) < MaxPreviews
    /\ previews' = Append(previews,
           [manual |-> TRUE, session |-> 0, revision |-> 0, ladder |-> l, phase |-> "PREPARING",
            overtaken |-> FALSE, ready |-> FALSE, at |-> "context"])
    /\ UNCHANGED <<flow, picking, inFlight, authority, ladderVars>>

(* No row, and so no hash, token, receipt or gas, of the ladder.            *)
NothingSent(l) == ladders[l].row = "NONE" /\ \A s \in Stages : ladders[l].approval[s] = "NONE"

(* No session that may still be confirmed names the ladder.                 *)
NotNamed(l) == ~Live(flow.id) \/ flow.lifecycle = NULL \/ flow.lifecycle.ladder # l

(* plannedV4BidLadderCancellationStatus                                     *)
Cancellable(l) ==
    /\ ladders[l].status = "PLANNED" /\ ladders[l].old
    /\ NothingSent(l) /\ NotNamed(l)

(* expireAbandonedPlannedV4BidLadders, the first thing openState does.      *)
Expired == [l \in Ladders |->
    IF Cancellable(l) THEN [ladders[l] EXCEPT !.status = "CANCELLED"] ELSE ladders[l]]

ContextRead(e) ==
    /\ Continues(e, "context")
    /\ ladders' = Expired
    /\ previews' = [previews EXCEPT ![e].at = "chain",
                                    ![e].ready = Expired[previews[e].ladder].status = "PLANNED"]
    /\ UNCHANGED <<flow, picking, inFlight, authority, opened, calls>>

(* previewV4BidLadderLive: what is read of the chain may add a blocker to    *)
(* the ladder's own, and removes none.                                      *)
Readiness(e) == {FALSE, previews[e].ready}

(* The preview is computed, with blockers or without, and persisted.        *)
Computed(e) ==
    /\ Continues(e, "chain")
    /\ \E ready \in Readiness(e) :
         previews' = [previews EXCEPT ![e].at = "deliver", ![e].phase = "COMPUTED", ![e].ready = ready,
                                      ![e].revision = IF previews[e].manual THEN @ ELSE @ + 1]
    /\ IF previews[e].manual THEN UNCHANGED flow
       ELSE /\ Applicable(previews[e].session, previews[e].revision)
            /\ flow' = Persisted(e, "COMPUTED")
    /\ UNCHANGED <<picking, inFlight, authority, ladderVars>>

(* The message is shown: only a preview without blockers, durably DELIVERED, *)
(* grants the authority to open its ladder.                                 *)
Delivered(e) ==
    /\ Continues(e, "deliver")
    /\ LET phase == IF previews[e].ready THEN "DELIVERED" ELSE "FAILED" IN
       /\ previews' = Ended(previews, e, phase)
       /\ IF previews[e].manual THEN UNCHANGED flow
          ELSE /\ Applicable(previews[e].session, previews[e].revision)
               /\ flow' = Persisted(e, phase)
    /\ authority' = [authority EXCEPT ![previews[e].ladder] = IF previews[e].ready THEN e ELSE 0]
    /\ Cleared(e)
    /\ UNCHANGED <<picking, ladderVars>>

(* An await fails or the deadline strikes before the ladder is persisted.   *)
FailsEarly(e) ==
    /\ previews[e].at \in {"progress", "pool", "native"} /\ ~Terminal(e)
    /\ previews' = Ended(previews, e, "FAILED")
    /\ Cleared(e)
    /\ UNCHANGED <<flow, picking, authority, ladderVars>>

(* The same within runLivePreviewDeliveryWorkflow: the outcome is persisted *)
(* if the flow is still the preview's, then the failure is shown.           *)
FailsLate(e) ==
    /\ previews[e].at \in {"context", "chain", "deliver"} /\ ~Terminal(e)
    /\ IF ~previews[e].manual /\ Applicable(previews[e].session, previews[e].revision)
       THEN flow' = Persisted(e, "FAILED") ELSE UNCHANGED flow
    /\ previews' = [Ended(previews, e, "FAILED") EXCEPT ![e].at = "notify"]
    /\ UNCHANGED <<picking, inFlight, authority, ladderVars>>

(* ... and whatever authority there was for the ladder goes.                *)
Notified(e) ==
    /\ previews[e].at = "notify"
    /\ previews' = Ended(previews, e, "FAILED")
    /\ authority' = [authority EXCEPT ![previews[e].ladder] = 0]
    /\ Cleared(e)
    /\ UNCHANGED <<flow, picking, ladderVars>>

(* A superseded execution ends without a word, also one that finds out now. *)
Dropped(e) ==
    /\ previews[e].at \notin {"notify", "end"}
    /\ previews[e].phase = "SUPERSEDED" \/ ~IsCurrent(e)
    /\ previews' = Ended(previews, e, "SUPERSEDED")
    /\ authority' = IF previews[e].at \in {"context", "chain", "deliver"}
                    THEN [authority EXCEPT ![previews[e].ladder] = 0] ELSE authority
    /\ Cleared(e)
    /\ UNCHANGED <<flow, picking, ladderVars>>

PreviewStep(e) ==
    \/ Painted(e) \/ PoolRead(e) \/ PlanPersisted(e) \/ ContextRead(e) \/ Computed(e)
    \/ Delivered(e) \/ FailsEarly(e) \/ FailsLate(e) \/ Notified(e) \/ Dropped(e)

-----------------------------------------------------------------------------
(* The live open.                                                           *)

AuthorityLapses(l) ==
    /\ authority[l] # 0
    /\ authority' = [authority EXCEPT ![l] = 0]
    /\ UNCHANGED <<flow, picking, previews, inFlight, ladderVars>>

(* The flow of the granting preview still says DELIVERED for this request.  *)
Authorized(l) ==
    LET e == authority[l] IN
    /\ e # 0
    /\ previews[e].manual \/
       /\ Live(previews[e].session)
       /\ flow.lifecycle # NULL
       /\ flow.lifecycle.status = "DELIVERED"
       /\ flow.lifecycle.request = e /\ flow.lifecycle.ladder = l

(* The authority is consumed before the open begins.                        *)
Consumed(l) == [authority EXCEPT ![l] = 0]

(* Confirm Live Open, Resume Open: bidLadderLiveOpen.  A call in flight is   *)
(* answered with its own promise.                                           *)
Confirm(l) ==
    /\ calls[l].at = "none"
    /\ \/ /\ Authorized(l)
          /\ Len(opened) < MaxOpens
          /\ opened' = Append(opened, authority[l])
          /\ calls' = [calls EXCEPT ![l].at = "context"]
          /\ authority' = Consumed(l)
       \/ /\ ~Authorized(l) /\ authority[l] # 0
          /\ authority' = [authority EXCEPT ![l] = 0]
          /\ UNCHANGED <<opened, calls>>
    /\ UNCHANGED <<flow, picking, previews, inFlight, ladders>>

(* A refusal, a failing read or a pending row: the call ends with a reply.  *)
OpenEnds(l) ==
    /\ calls[l].at # "none"
    /\ calls' = [calls EXCEPT ![l] = Idle]
    /\ UNCHANGED <<flow, picking, previews, inFlight, authority, opened, ladders>>

Goes(l, at, todo) == calls' = [calls EXCEPT ![l] = [at |-> at, todo |-> todo]]

botVars == <<flow, picking, previews, inFlight, authority, opened>>

(* confirmedV4BidLadderOpenTruth: the journal keeps a receipt of success.   *)
ReceiptConfirmed(l) == ladders[l].row = "CONFIRMED"

(* The price is read; a confirmed receipt is reused, else openState begins. *)
OpenContext(l) ==
    /\ calls[l].at = "context"
    /\ \/ /\ ReceiptConfirmed(l)
          /\ Goes(l, "wait", {}) /\ UNCHANGED ladders
       \/ /\ ~ReceiptConfirmed(l)
          /\ ladders' = Expired
          /\ IF Expired[l].status = "PLANNED" THEN Goes(l, "chain", {}) ELSE Goes(l, "none", {})
    /\ UNCHANGED botVars

(* pendingOther: a row of another ladder of this wallet is undecided.       *)
PendingOther(l) == \E k \in Ladders \ {l} :
    ladders[k].row = "SENT" \/ \E s \in Stages : ladders[k].approval[s] = "SENT"

(* readOpenChainState: balance and allowances of one block, which the user  *)
(* or another program may have changed in any way since the last one.       *)
Wanting == SUBSET Stages

(* materializeOpenState found no blocker, and the approvals that are wanting. *)
OpenAdmitted(l) ==
    /\ calls[l].at = "chain"
    /\ ~PendingOther(l)
    /\ \E todo \in Wanting : Goes(l, IF todo = {} THEN "final" ELSE "approve", todo)
    /\ UNCHANGED <<botVars, ladders>>

NextApproval(todo) == IF "ERC20" \in todo THEN "ERC20" ELSE "PERMIT2"

(* A row is written whatever has become of the ladder since it was read.    *)
AdmittedAlways(l) == l \in Ladders

(* Submit writes a row only for a ladder that is still PLANNED.             *)
Admitted(l) == ladders[l].status = "PLANNED"

ApprovalSent(l) ==
    LET s == NextApproval(calls[l].todo) IN
    /\ calls[l].at = "approve"
    /\ ladders[l].approval[s] = "NONE" /\ Admitted(l)
    /\ ladders' = [ladders EXCEPT ![l].approval[s] = "SENT", ![l].old = FALSE]
    /\ UNCHANGED <<botVars, calls>>

ApprovalMined(l) == \E s \in Stages :
    /\ ladders[l].approval[s] = "SENT"
    /\ ladders' = [ladders EXCEPT ![l].approval[s] = "CONFIRMED"]
    /\ UNCHANGED <<botVars, calls>>

(* refreshOpenApprovalDelta at the receipt's block, which for a row that was *)
(* confirmed by an earlier call is long past.                               *)
Approved(l) ==
    LET s == NextApproval(calls[l].todo) IN
    /\ calls[l].at = "approve" /\ calls[l].todo # {}
    /\ ladders[l].approval[s] = "CONFIRMED"
    /\ \E todo \in IF s = "ERC20" THEN {{}, {"PERMIT2"}} ELSE {{}} :
         Goes(l, IF todo = {} THEN "final" ELSE "approve", todo)
    /\ UNCHANGED <<botVars, ladders>>

(* validateFinalOpenAuthority                                               *)
FinallyValid(l) ==
    /\ calls[l].at = "final"
    /\ ladders[l].status = "PLANNED"
    /\ ~PendingOther(l)
    /\ Goes(l, "submit", {})
    /\ UNCHANGED <<botVars, ladders>>

(* submit of OPEN_BATCH: an undecided row is taken up, a new one written in  *)
(* the transaction that admits the ladder.                                  *)
Submit(l) ==
    /\ calls[l].at = "submit"
    /\ \/ ladders[l].row \in {"SENT", "CONFIRMED"} /\ UNCHANGED ladders
       \/ /\ ladders[l].row \in {"NONE", "FAILED"} /\ Admitted(l)
          /\ ladders' = [ladders EXCEPT ![l].row = "SENT", ![l].old = FALSE]
    /\ Goes(l, "wait", {})
    /\ UNCHANGED botVars

(* The five mints, or a revert.                                             *)
Mined(l) ==
    /\ ladders[l].row = "SENT"
    /\ \/ ladders' = [ladders EXCEPT ![l].row = "CONFIRMED", ![l].minted = @ + 1]
       \/ ladders' = [ladders EXCEPT ![l].row = "FAILED"]
    /\ UNCHANGED <<botVars, calls>>

(* What the transaction asked for, spent and minted is what was planned.    *)
Provable(l) == ladders[l].row = "CONFIRMED" /\ ladders[l].minted > 0

(* The parent and the legs the update is conditioned on; by CancelledNeverMints *)
(* no other ladder has a confirmed row.                                     *)
Bindable(l) == ladders[l].status \in {"PLANNED", "OPEN"}

(* finalizeV4BidLadderOpenProjection, of the call or of the reconcile       *)
(* worker: five mints bind the legs, and a PLANNED parent is OPEN.          *)
Projected(l) ==
    /\ Provable(l) /\ Bindable(l)
    /\ ladders' = [ladders EXCEPT ![l].status = "OPEN", ![l].old = FALSE]

ProjectedInline(l) ==
    /\ calls[l].at = "wait"
    /\ Projected(l)
    /\ Goes(l, "none", {})
    /\ UNCHANGED botVars

WorkerProjects(l) ==
    /\ ladders[l].status = "PLANNED" /\ Projected(l)
    /\ UNCHANGED <<botVars, calls>>

Ages(l) ==
    /\ ladders[l].status = "PLANNED" /\ ~ladders[l].old
    /\ ladders' = [ladders EXCEPT ![l].old = TRUE]
    /\ UNCHANGED <<botVars, calls>>

OpenStep(l) ==
    \/ OpenContext(l) \/ OpenAdmitted(l) \/ ApprovalSent(l) \/ Approved(l) \/ FinallyValid(l)
    \/ Submit(l) \/ ProjectedInline(l) \/ OpenEnds(l)

(* The bot's memory is gone.                                                *)
Restart ==
    /\ picking' = NoPick /\ inFlight' = 0
    /\ previews' = [e \in DOMAIN previews |-> Ended(previews, e, previews[e].phase)[e]]
    /\ authority' = [l \in Ladders |-> 0]
    /\ calls' = [l \in Ladders |-> Idle]
    /\ UNCHANGED <<flow, opened, ladders>>

Next ==
    \/ NewFlow \/ SelectPool \/ Strategy \/ Back \/ OtherText \/ Cancel \/ Lapse
    \/ PickDepth \/ DepthPicked \/ AmountText \/ Restart
    \/ \E e \in DOMAIN previews : PreviewStep(e)
    \/ \E l \in Ladders :
         \/ ManualPreview(l) \/ AuthorityLapses(l) \/ Confirm(l) \/ OpenStep(l)
         \/ ApprovalMined(l) \/ Mined(l) \/ WorkerProjects(l) \/ Ages(l)

Spec == Init /\ [][Next]_vars

-----------------------------------------------------------------------------
(* Properties.                                                              *)

(* What the user has overtaken has no effect any more: an open starts from  *)
(* a preview that was shown without blockers, that nothing the user did     *)
(* since has taken the place of, and that no other open has used; and a     *)
(* depth selection that was overtaken leaves the flow alone.  Neither a     *)
(* restart nor a callback that comes late or twice changes that             *)
(* (bidLadderLiveOpen, transitionTelegramFlowCAS).                          *)
OvertakenHasNoEffect ==
    [][/\ opened' # opened =>
            LET e == opened'[Len(opened')] IN
            /\ previews[e].phase = "DELIVERED" /\ previews[e].ready
            /\ ~previews[e].overtaken
            /\ \A i \in DOMAIN opened : opened[i] # e
       /\ (picking.overtaken /\ picking' = NoPick) => flow' = flow]_vars

(* A ladder that was given up as abandoned has no transaction and gets none: *)
(* no row, no mint and no approval, whichever open was under way when the   *)
(* thirty minutes were over (cancelPlannedV4BidLadder, submit).             *)
CancelledNeverMints == \A l \in Ladders :
    ladders[l].status = "CANCELLED" => NothingSent(l) /\ ladders[l].minted = 0
=============================================================================
