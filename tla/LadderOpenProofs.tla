--------------------------- MODULE LadderOpenProofs ---------------------------
(***************************************************************************)
(* LadderOpen keeps its types, gives a ladder that was given up no         *)
(* transaction, and starts no open from a preview that the user has        *)
(* overtaken: for any number of ladders, flows, previews and restarts.     *)
(*                                                                         *)
(* Every write of a flow raises its revision and no two flows have one id, *)
(* so what was loaded before a write never matches the flow again; and an  *)
(* authority belongs to a preview that has ended, which nothing rewrites   *)
(* but a step that takes the authorities of the user away.                 *)
(***************************************************************************)
EXTENDS LadderOpen, SequenceTheorems, TLAPS

-----------------------------------------------------------------------------
(* The inductive invariant.                                                 *)

(* What was loaded of a flow is never ahead of it.                          *)
NotAhead(session, revision, f) ==
    session <= f.id /\ (session = f.id => revision <= f.revision)

LoadedNow(session, revision, f) == session = f.id /\ revision = f.revision

(* A depth selection that still matches the flow finds the depth step, and  *)
(* one that was overtaken does not match it.                                *)
PickSound(pick, f) ==
    pick # NoPick =>
        /\ NotAhead(pick.session, pick.revision, f)
        /\ LoadedNow(pick.session, pick.revision, f) =>
               f.kind = "v4_bid_ladder_depth" /\ ~pick.overtaken

Over(p) == p.phase \in {"DELIVERED", "FAILED", "SUPERSEDED"}

(* A preview p beside the flow f: a text preview that has read the pool and *)
(* still matches the flow has its lifecycle in it.                          *)
PreviewSound(p, f) ==
    /\ p \in Preview
    /\ ~p.manual =>
         /\ NotAhead(p.session, p.revision, f)
         /\ p.at \in {"native", "context", "chain", "deliver"} /\ LoadedNow(p.session, p.revision, f)
                => f.lifecycle \in Lifecycle
    /\ p.manual /\ ~Over(p) => ~p.overtaken

(* The preview in flight is a text preview that has not ended.              *)
FlightSound(ps, flight) ==
    flight # 0 =>
        /\ flight \in DOMAIN ps /\ ~ps[flight].manual /\ ps[flight].at # "end"
        /\ ps[flight].overtaken => Over(ps[flight])

(* A preview whose authority opens the ladder l.                            *)
Grants(p, l) ==
    p.at = "end" /\ p.phase = "DELIVERED" /\ p.ready /\ ~p.overtaken /\ p.ladder = l

AuthoritySound(ps, granted, used) ==
    /\ granted \in [Ladders -> 0..MaxPreviews]
    /\ \A l \in Ladders : granted[l] # 0 =>
         /\ granted[l] \in DOMAIN ps /\ Grants(ps[granted[l]], l)
         /\ \A i \in DOMAIN used : used[i] # granted[l]

OpenedSound(ps, used) ==
    /\ used \in Seq(Previews)
    /\ \A i \in DOMAIN used : used[i] \in DOMAIN ps /\ ps[used[i]].at = "end"

PreviewsSound(ps, f) ==
    /\ ps \in Seq(Preview) /\ Len(ps) <= MaxPreviews
    /\ \A e \in DOMAIN ps : PreviewSound(ps[e], f)

Picks == [session : 0..MaxSessions, revision : 0..MaxRevision, overtaken : BOOLEAN]

BotInv ==
    /\ flow \in Session
    /\ picking \in Picks /\ PickSound(picking, flow)
    /\ PreviewsSound(previews, flow)
    /\ inFlight \in 0..MaxPreviews /\ FlightSound(previews, inFlight)
    /\ AuthoritySound(previews, authority, opened)
    /\ OpenedSound(previews, opened)

(* A row is mined once, and a ladder that was given up has none.            *)
LadderSound(x) ==
    /\ x \in Ladder
    /\ x.minted = IF x.row = "CONFIRMED" THEN 1 ELSE 0
    /\ x.status = "CANCELLED" => x.row = "NONE" /\ \A s \in Stages : x.approval[s] = "NONE"

StoreInv ==
    /\ calls \in [Ladders -> Call]
    /\ ladders \in [Ladders -> Ladder] /\ \A l \in Ladders : LadderSound(ladders[l])

OpenInv == BotInv /\ StoreInv

-----------------------------------------------------------------------------
(* The ladders and the calls that open them.                                *)

LEMMA LadderMoves ==
    ASSUME StoreInv, NEW l \in Ladders, NEW y, LadderSound(y), ladders' = [ladders EXCEPT ![l] = y],
           calls' \in [Ladders -> Call]
    PROVE  StoreInv'
  <1>1. y \in Ladder
    BY DEF LadderSound
  <1>2. \A m \in Ladders : ladders'[m] = IF m = l THEN y ELSE ladders[m]
    BY DEF StoreInv
  <1>3. \A m \in Ladders : LadderSound(ladders'[m])
    BY <1>2 DEF StoreInv
  <1> QED  BY <1>1, <1>3 DEF StoreInv

LEMMA StoreStays ==
    ASSUME StoreInv, UNCHANGED <<calls, ladders>>
    PROVE  StoreInv'
  BY DEF StoreInv, LadderSound

LEMMA CallsMove ==
    ASSUME StoreInv, calls' \in [Ladders -> Call], UNCHANGED ladders
    PROVE  StoreInv'
  BY DEF StoreInv, LadderSound

LEMMA GoesTyped ==
    ASSUME StoreInv, NEW l \in Ladders, NEW todo \in SUBSET Stages,
           NEW at \in {"none", "context", "chain", "approve", "final", "submit", "wait"},
           Goes(l, at, todo)
    PROVE  calls' \in [Ladders -> Call]
  BY DEF StoreInv, Goes, Call

(* A ladder is given up while nothing was sent of it.                       *)
LEMMA ExpiredSound ==
    ASSUME StoreInv, ladders' = Expired, calls' \in [Ladders -> Call]
    PROVE  StoreInv'
  <1>1. ASSUME NEW l \in Ladders PROVE ladders'[l] \in Ladder /\ LadderSound(ladders'[l])
    <2> DEFINE x == ladders[l]
               y == [x EXCEPT !.status = "CANCELLED"]
    <2>1. x \in Ladder /\ LadderSound(x)
      BY DEF StoreInv
    <2>2. ladders'[l] = IF Cancellable(l) THEN y ELSE x
      BY DEF Expired
    <2>3. Cancellable(l) => x.row = "NONE" /\ \A s \in Stages : x.approval[s] = "NONE"
      BY DEF Cancellable, NothingSent
    <2> HIDE DEF x
    <2>4. /\ y \in Ladder /\ y.status = "CANCELLED" /\ y.row = x.row /\ y.minted = x.minted
          /\ y.approval = x.approval
      BY <2>1 DEF Ladder
    <2> HIDE DEF y
    <2> QED  BY <2>1, <2>2, <2>3, <2>4 DEF LadderSound
  <1>2. DOMAIN ladders' = Ladders /\ ladders' = [l \in Ladders |-> ladders'[l]]
    BY DEF Expired
  <1> QED  BY <1>1, <1>2 DEF StoreInv

LEMMA PlanPersistedStore ==
    ASSUME StoreInv, NEW e, PlanPersisted(e)
    PROVE  StoreInv'
  <1> DEFINE l == previews[e].ladder
             x == ladders[l]
             status == IF x.status = "NONE" THEN "PLANNED" ELSE x.status
             y == [x EXCEPT !.status = status]
  <1>1. ladders' = [ladders EXCEPT ![l] = y] /\ calls' = calls
    BY DEF PlanPersisted
  <1>2. CASE l \in Ladders
    <2>1. x \in Ladder /\ LadderSound(x)
      BY <1>2 DEF StoreInv
    <2>2. status \in {"PLANNED", x.status} /\ (status = "CANCELLED" => x.status = "CANCELLED")
      OBVIOUS
    <2> HIDE DEF x, status, l
    <2>3. /\ y \in Ladder /\ y.status = status /\ y.row = x.row /\ y.minted = x.minted
          /\ y.approval = x.approval
      BY <2>1, <2>2 DEF Ladder
    <2> HIDE DEF y
    <2>4. LadderSound(y)
      BY <2>1, <2>2, <2>3 DEF LadderSound
    <2> QED  BY <1>1, <1>2, <2>4, LadderMoves DEF StoreInv
  <1>3. CASE l \notin Ladders
    <2>1. ladders' = ladders
      BY <1>1, <1>3 DEF StoreInv
    <2> QED  BY <1>1, <2>1, StoreStays
  <1> QED  BY <1>2, <1>3

LEMMA ApprovalSentStore ==
    ASSUME StoreInv, NEW l \in Ladders, ApprovalSent(l)
    PROVE  StoreInv'
  <1> DEFINE s == NextApproval(calls[l].todo)
             x == ladders[l]
             approval == [x.approval EXCEPT ![s] = "SENT"]
             y == [x EXCEPT !.approval = approval, !.old = FALSE]
  <1>1. x \in Ladder /\ LadderSound(x) /\ x.status = "PLANNED"
    BY DEF StoreInv, ApprovalSent, Admitted
  <1>2. ladders' = [ladders EXCEPT ![l] = y] /\ calls' = calls
    BY DEF ApprovalSent, StoreInv
  <1>3. approval \in [Stages -> {"NONE", "SENT", "CONFIRMED"}]
    BY <1>1 DEF Ladder
  <1> HIDE DEF x, approval
  <1>4. y \in Ladder /\ y.status = "PLANNED" /\ y.row = x.row /\ y.minted = x.minted
    BY <1>1, <1>3 DEF Ladder
  <1> HIDE DEF y
  <1>5. LadderSound(y)
    BY <1>1, <1>4 DEF LadderSound
  <1> QED  BY <1>2, <1>5, LadderMoves DEF StoreInv

LEMMA ApprovalMinedStore ==
    ASSUME StoreInv, NEW l \in Ladders, ApprovalMined(l)
    PROVE  StoreInv'
  <1>1. PICK s \in Stages : /\ ladders[l].approval[s] = "SENT"
                            /\ ladders' = [ladders EXCEPT ![l].approval[s] = "CONFIRMED"]
    BY DEF ApprovalMined
  <1> DEFINE x == ladders[l]
             approval == [x.approval EXCEPT ![s] = "CONFIRMED"]
             y == [x EXCEPT !.approval = approval]
  <1>2. x \in Ladder /\ LadderSound(x) /\ x.approval[s] = "SENT"
    BY <1>1 DEF StoreInv
  <1>3. ladders' = [ladders EXCEPT ![l] = y] /\ calls' = calls
    BY <1>1 DEF ApprovalMined, StoreInv
  <1>4. approval \in [Stages -> {"NONE", "SENT", "CONFIRMED"}] /\ x.status # "CANCELLED"
    BY <1>2 DEF Ladder, LadderSound
  <1> HIDE DEF x, approval
  <1>5. y \in Ladder /\ y.status = x.status /\ y.row = x.row /\ y.minted = x.minted
    BY <1>2, <1>4 DEF Ladder
  <1> HIDE DEF y
  <1>6. LadderSound(y)
    BY <1>2, <1>4, <1>5 DEF LadderSound
  <1> QED  BY <1>3, <1>6, LadderMoves DEF StoreInv

LEMMA SubmitStore ==
    ASSUME StoreInv, NEW l \in Ladders, Submit(l)
    PROVE  StoreInv'
  <1> DEFINE x == ladders[l]
             y == [x EXCEPT !.row = "SENT", !.old = FALSE]
  <1>1. calls' \in [Ladders -> Call]
    BY GoesTyped DEF Submit
  <1>2. CASE ladders' = ladders
    BY <1>1, <1>2, CallsMove
  <1>3. CASE x.row \in {"NONE", "FAILED"} /\ x.status = "PLANNED" /\ ladders' # ladders
    <2>1. x \in Ladder /\ LadderSound(x)
      BY DEF StoreInv
    <2>2. ladders' = [ladders EXCEPT ![l] = y]
      BY <1>3 DEF Submit, StoreInv
    <2> HIDE DEF x
    <2>3. y \in Ladder /\ y.status = "PLANNED" /\ y.row = "SENT" /\ y.minted = x.minted
      BY <1>3, <2>1 DEF Ladder
    <2> HIDE DEF y
    <2>4. LadderSound(y)
      BY <1>3, <2>1, <2>3 DEF LadderSound
    <2> QED  BY <1>1, <2>2, <2>4, LadderMoves
  <1> QED  BY <1>2, <1>3 DEF Submit, Admitted

LEMMA MinedStore ==
    ASSUME StoreInv, NEW l \in Ladders, Mined(l)
    PROVE  StoreInv'
  <1> DEFINE x == ladders[l]
             total == x.minted + 1
             y == [x EXCEPT !.row = "CONFIRMED", !.minted = total]
             z == [x EXCEPT !.row = "FAILED"]
  <1>1. /\ x \in Ladder /\ LadderSound(x) /\ x.row = "SENT" /\ calls' = calls
        /\ \/ ladders' = [ladders EXCEPT ![l] = y]
           \/ ladders' = [ladders EXCEPT ![l] = z]
    BY DEF StoreInv, Mined
  <1>2. total = 1 /\ x.status # "CANCELLED" /\ x.minted = 0
    BY <1>1 DEF LadderSound
  <1> HIDE DEF x, total
  <1>3. /\ y.status = x.status /\ y.row = "CONFIRMED" /\ y.minted = total
        /\ z.status = x.status /\ z.row = "FAILED" /\ z.minted = x.minted
    BY <1>1 DEF Ladder
  <1>5. y \in Ladder /\ z \in Ladder
    <2>1. total \in 0..2
      BY <1>2
    <2> QED  BY <1>1, <2>1 DEF Ladder
  <1> HIDE DEF y, z
  <1>4. LadderSound(y) /\ LadderSound(z)
    BY <1>2, <1>3, <1>5 DEF LadderSound
  <1> QED  BY <1>1, <1>4, LadderMoves DEF StoreInv

LEMMA ProjectedStore ==
    ASSUME StoreInv, NEW l \in Ladders, Projected(l), calls' \in [Ladders -> Call]
    PROVE  StoreInv'
  <1> DEFINE x == ladders[l]
             y == [x EXCEPT !.status = "OPEN", !.old = FALSE]
  <1>1. x \in Ladder /\ LadderSound(x) /\ ladders' = [ladders EXCEPT ![l] = y]
    BY DEF StoreInv, Projected
  <1> HIDE DEF x
  <1>2. y \in Ladder /\ y.status = "OPEN" /\ y.row = x.row /\ y.minted = x.minted
    BY <1>1 DEF Ladder
  <1> HIDE DEF y
  <1>3. LadderSound(y)
    BY <1>1, <1>2 DEF LadderSound
  <1> QED  BY <1>1, <1>3, LadderMoves

LEMMA AgesStore ==
    ASSUME StoreInv, NEW l \in Ladders, Ages(l)
    PROVE  StoreInv'
  <1> DEFINE x == ladders[l]
             y == [x EXCEPT !.old = TRUE]
  <1>1. x \in Ladder /\ LadderSound(x) /\ ladders' = [ladders EXCEPT ![l] = y]
        /\ calls' = calls
    BY DEF StoreInv, Ages
  <1> HIDE DEF x
  <1>2. y \in Ladder /\ y.status = x.status /\ y.row = x.row /\ y.minted = x.minted
        /\ y.approval = x.approval
    BY <1>1 DEF Ladder
  <1> HIDE DEF y
  <1>3. LadderSound(y)
    BY <1>1, <1>2 DEF LadderSound
  <1> QED  BY <1>1, <1>3, LadderMoves DEF StoreInv

LEMMA OpenStepStore ==
    ASSUME StoreInv, NEW l \in Ladders, OpenStep(l)
    PROVE  StoreInv'
  <1>1. CASE OpenContext(l)
    <2>1. calls' \in [Ladders -> Call]
      BY <1>1, GoesTyped DEF OpenContext
    <2> QED  BY <1>1, <2>1, CallsMove, ExpiredSound DEF OpenContext
  <1>2. CASE OpenAdmitted(l)
    <2>1. calls' \in [Ladders -> Call]
      BY <1>2, GoesTyped DEF OpenAdmitted, Wanting
    <2> QED  BY <1>2, <2>1, CallsMove DEF OpenAdmitted
  <1>3. CASE Approved(l)
    <2>1. calls' \in [Ladders -> Call]
      BY <1>3, GoesTyped DEF Approved, Stages
    <2> QED  BY <1>3, <2>1, CallsMove DEF Approved
  <1>4. CASE FinallyValid(l)
    <2>1. calls' \in [Ladders -> Call]
      BY <1>4, GoesTyped DEF FinallyValid
    <2> QED  BY <1>4, <2>1, CallsMove DEF FinallyValid
  <1>5. CASE ProjectedInline(l)
    <2>1. calls' \in [Ladders -> Call]
      BY <1>5, GoesTyped DEF ProjectedInline
    <2> QED  BY <1>5, <2>1, ProjectedStore DEF ProjectedInline
  <1>6. CASE OpenEnds(l)
    <2>1. calls' \in [Ladders -> Call]
      BY <1>6 DEF OpenEnds, StoreInv, Call, Idle
    <2> QED  BY <1>6, <2>1, CallsMove DEF OpenEnds
  <1> QED  BY <1>1, <1>2, <1>3, <1>4, <1>5, <1>6, ApprovalSentStore, SubmitStore DEF OpenStep

-----------------------------------------------------------------------------
(* The flow goes on.                                                        *)

Later(f, g) == g.id > f.id \/ (g.id = f.id /\ g.revision > f.revision)

Succeeds(f, g) ==
    /\ g \in Session
    /\ \/ Later(f, g)
       \/ g.id = f.id /\ g.revision = f.revision /\ g.kind = f.kind /\ g.lifecycle = f.lifecycle

LEMMA PreviewStays ==
    ASSUME NEW f \in Session, NEW g, Succeeds(f, g), NEW p, PreviewSound(p, f)
    PROVE  PreviewSound(p, g)
  <1>1. /\ f.id \in Nat /\ g.id \in Nat /\ f.revision \in Nat /\ g.revision \in Nat
        /\ p.session \in Nat /\ p.revision \in Nat
    BY BoundsAssumption DEF Session, Preview, PreviewSound, Succeeds
  <1>2. CASE Later(f, g)
    <2>1. ASSUME NotAhead(p.session, p.revision, f)
          PROVE  NotAhead(p.session, p.revision, g) /\ ~LoadedNow(p.session, p.revision, g)
      BY <1>1, <1>2, <2>1 DEF NotAhead, LoadedNow, Later
    <2> QED  BY <2>1 DEF PreviewSound
  <1>3. CASE ~Later(f, g)
    BY <1>3 DEF Succeeds, PreviewSound, NotAhead, LoadedNow
  <1> QED  BY <1>2, <1>3

LEMMA PickStays ==
    ASSUME NEW f \in Session, NEW g, Succeeds(f, g), NEW pick \in Picks, PickSound(pick, f)
    PROVE  PickSound(pick, g)
  <1>1. /\ f.id \in Nat /\ g.id \in Nat /\ f.revision \in Nat /\ g.revision \in Nat
        /\ pick.session \in Nat /\ pick.revision \in Nat
    BY BoundsAssumption DEF Session, Picks, Succeeds
  <1>2. CASE Later(f, g)
    <2>1. ASSUME NotAhead(pick.session, pick.revision, f)
          PROVE  NotAhead(pick.session, pick.revision, g) /\ ~LoadedNow(pick.session, pick.revision, g)
      BY <1>1, <1>2, <2>1 DEF NotAhead, LoadedNow, Later
    <2> QED  BY <2>1 DEF PickSound
  <1>3. CASE ~Later(f, g)
    BY <1>3 DEF Succeeds, PickSound, NotAhead, LoadedNow
  <1> QED  BY <1>2, <1>3

LEMMA WrittenNext ==
    ASSUME flow \in Session, flow.revision < MaxRevision, NEW kind \in Kinds,
           NEW lifecycle \in Lifecycle \cup {NULL}
    PROVE  /\ Written(kind, lifecycle) \in Session
           /\ Later(flow, Written(kind, lifecycle)) /\ Succeeds(flow, Written(kind, lifecycle))
           /\ Written(kind, lifecycle).id = flow.id
           /\ Written(kind, lifecycle).revision = flow.revision + 1
           /\ Written(kind, lifecycle).lifecycle = lifecycle
  <1> DEFINE next == flow.revision + 1
             f == [flow EXCEPT !.kind = kind, !.lifecycle = lifecycle, !.revision = next]
  <1>1. next \in 0..MaxRevision /\ flow.revision \in Nat /\ next > flow.revision
    BY BoundsAssumption DEF Session
  <1> HIDE DEF next
  <1>2. /\ f \in Session /\ f.id = flow.id /\ f.revision = next /\ f.lifecycle = lifecycle
    BY <1>1 DEF Session
  <1>3. Written(kind, lifecycle) = f
    BY DEF Written, next
  <1> HIDE DEF f
  <1>4. Later(flow, f) /\ Succeeds(flow, f)
    BY <1>1, <1>2 DEF Later, Succeeds
  <1> QED  BY <1>2, <1>3, <1>4 DEF next

LEMMA CreatedNext ==
    ASSUME flow \in Session, flow.id < MaxSessions
    PROVE  Later(flow, Created) /\ Succeeds(flow, Created)
  <1>1. flow.id + 1 \in 0..MaxSessions /\ flow.id + 1 > flow.id /\ 0 \in 0..MaxRevision
    BY BoundsAssumption DEF Session
  <1>2. Created \in Session /\ Created.id = flow.id + 1
    BY <1>1 DEF Created, Session, Kinds, FlowStatuses
  <1> QED  BY <1>1, <1>2 DEF Later, Succeeds

(* A selection that is overtaken while the flow goes on.                    *)
LEMMA PickOvertaken ==
    ASSUME flow \in Session, picking \in Picks, PickSound(picking, flow), OvertakePick,
           NEW g \in Session,
           Later(flow, g) \/ (g = flow /\ flow.kind # "v4_bid_ladder_depth")
    PROVE  picking' \in Picks /\ PickSound(picking', g)
  <1> DEFINE flag == picking # NoPick
  <1>1. flag \in BOOLEAN
    OBVIOUS
  <1>2. picking' = [picking EXCEPT !.overtaken = flag]
    BY DEF OvertakePick
  <1> HIDE DEF flag
  <1>3. /\ picking' \in Picks /\ picking'.session = picking.session
        /\ picking'.revision = picking.revision /\ picking'.overtaken = flag
    BY <1>1, <1>2 DEF Picks
  <1>4. CASE picking = NoPick
    <2>1. picking' = NoPick
      BY <1>2, <1>4 DEF flag, NoPick
    <2> QED  BY <1>3, <2>1 DEF PickSound
  <1>5. CASE picking # NoPick
    <2>1. NotAhead(picking.session, picking.revision, flow)
      BY <1>5 DEF PickSound
    <2>2. /\ flow.id \in Nat /\ g.id \in Nat /\ flow.revision \in Nat /\ g.revision \in Nat
          /\ picking.session \in Nat /\ picking.revision \in Nat
      BY BoundsAssumption DEF Session, Picks
    <2>3. NotAhead(picking.session, picking.revision, g) /\ ~LoadedNow(picking.session, picking.revision, g)
      BY <1>5, <2>1, <2>2 DEF NotAhead, LoadedNow, Later, PickSound
    <2>4. LoadedNow(picking'.session, picking'.revision, g) <=> LoadedNow(picking.session, picking.revision, g)
      BY <1>3 DEF LoadedNow
    <2> QED  BY <1>3, <2>3, <2>4 DEF PickSound, NotAhead
  <1> QED  BY <1>4, <1>5

-----------------------------------------------------------------------------
(* The previews.                                                            *)

LEMMA SupersededAt ==
    ASSUME NEW ps \in Seq(Preview), NEW flight
    PROVE  /\ DOMAIN Superseded(ps, flight) = DOMAIN ps
           /\ \A e \in DOMAIN ps :
                /\ Superseded(ps, flight)[e] \in Preview
                /\ \/ Superseded(ps, flight)[e] = ps[e]
                   \/ /\ e = flight /\ ~Over(ps[e])
                      /\ Superseded(ps, flight)[e] = [ps[e] EXCEPT !.phase = "SUPERSEDED"]
                /\ e = flight => Over(Superseded(ps, flight)[e])
  <1>1. /\ ps \in [1..Len(ps) -> Preview] /\ DOMAIN ps = 1..Len(ps)
    BY LenProperties
  <1>2. CASE flight \in DOMAIN ps /\ ps[flight].phase \in {"PREPARING", "COMPUTED"}
    <2> DEFINE y == [ps[flight] EXCEPT !.phase = "SUPERSEDED"]
    <2>1. Superseded(ps, flight) = [ps EXCEPT ![flight] = y]
      BY <1>2 DEF Superseded
    <2>2. y \in Preview /\ y.phase = "SUPERSEDED"
      BY <1>1, <1>2 DEF Preview, Phases
    <2>3. ~Over(ps[flight])
      BY <1>2 DEF Over
    <2> HIDE DEF y
    <2>4. \A e \in DOMAIN ps : [ps EXCEPT ![flight] = y][e] = IF e = flight THEN y ELSE ps[e]
      BY <1>1
    <2>5. Over(y)
      BY <2>2 DEF Over
    <2> QED  BY <1>1, <1>2, <2>1, <2>2, <2>3, <2>4, <2>5 DEF y
  <1>3. CASE ~(flight \in DOMAIN ps /\ ps[flight].phase \in {"PREPARING", "COMPUTED"})
    <2>1. Superseded(ps, flight) = ps
      BY <1>3 DEF Superseded
    <2>2. \A e \in DOMAIN ps : e = flight => Over(ps[e])
      BY <1>1, <1>3 DEF Over, Preview, Phases
    <2> QED  BY <1>1, <2>1, <2>2
  <1> QED  BY <1>2, <1>3

LEMMA SequenceOf ==
    ASSUME NEW S, NEW n \in Nat, NEW f, DOMAIN f = 1..n, f = [e \in DOMAIN f |-> f[e]],
           \A e \in 1..n : f[e] \in S
    PROVE  f \in Seq(S) /\ Len(f) = n
  <1>1. f \in [1..n -> S]
    OBVIOUS
  <1>2. f \in Seq(S)
    BY <1>1, SeqDef
  <1>3. Len(f) \in Nat /\ DOMAIN f = 1..Len(f)
    BY <1>2, LenProperties
  <1> QED  BY <1>2, <1>3

(* A preview that is overtaken, and perhaps superseded, as it was otherwise. *)
LEMMA OvertakenSound ==
    ASSUME NEW f, NEW p, PreviewSound(p, f), NEW q \in Preview,
           q = p \/ (~p.manual /\ ~Over(p) /\ q = [p EXCEPT !.phase = "SUPERSEDED"]),
           NEW flag \in BOOLEAN, p.manual /\ ~Over(p) => ~flag
    PROVE  /\ PreviewSound([q EXCEPT !.overtaken = flag], f)
           /\ [q EXCEPT !.overtaken = flag].at = p.at
           /\ [q EXCEPT !.overtaken = flag].manual = p.manual
           /\ [q EXCEPT !.overtaken = flag].phase = q.phase
  <1> DEFINE y == [q EXCEPT !.overtaken = flag]
  <1>1. p \in Preview
    BY DEF PreviewSound
  <1>2. /\ q.manual = p.manual /\ q.session = p.session /\ q.revision = p.revision /\ q.at = p.at
        /\ Over(p) => Over(q)
    BY <1>1 DEF Preview, Over
  <1>3. /\ y \in Preview /\ y.manual = q.manual /\ y.session = q.session /\ y.revision = q.revision
        /\ y.at = q.at /\ y.phase = q.phase /\ y.overtaken = flag
    BY DEF Preview
  <1> HIDE DEF y
  <1>4. q.manual => q = p
    BY <1>1, <1>2
  <1>5. y.manual /\ ~Over(y) => ~y.overtaken
    BY <1>2, <1>3, <1>4 DEF Over
  <1>6. PreviewSound(y, f)
    BY <1>2, <1>3, <1>5 DEF PreviewSound
  <1> QED  BY <1>2, <1>3, <1>6 DEF y

LEMMA AllSuperseded ==
    ASSUME BotInv, SupersedeAll, flow' \in Session, Succeeds(flow, flow'),
           UNCHANGED <<inFlight, opened>>, picking' \in Picks, PickSound(picking', flow')
    PROVE  BotInv'
  <1> DEFINE qs == Superseded(previews, inFlight)
             flag(e) == qs[e].overtaken \/ ~qs[e].manual \/ qs[e].phase = "DELIVERED"
             y(e) == [qs[e] EXCEPT !.overtaken = flag(e)]
  <1>1. previews \in Seq(Preview) /\ Len(previews) <= MaxPreviews /\ Len(previews) \in Nat
        /\ DOMAIN previews = 1..Len(previews)
    BY LenProperties DEF BotInv, PreviewsSound
  <1>2. /\ DOMAIN qs = DOMAIN previews
        /\ \A e \in DOMAIN previews :
             /\ qs[e] \in Preview
             /\ qs[e] = previews[e] \/ (e = inFlight /\ ~Over(previews[e])
                                        /\ qs[e] = [previews[e] EXCEPT !.phase = "SUPERSEDED"])
             /\ e = inFlight => Over(qs[e])
    BY <1>1, SupersededAt
  <1>3. /\ DOMAIN previews' = DOMAIN previews /\ previews' = [e \in DOMAIN previews |-> y(e)]
        /\ authority' = [l \in Ladders |-> 0]
    BY <1>2 DEF SupersedeAll, Overtaken
  <1> HIDE DEF qs
  <1>4. ASSUME NEW e \in DOMAIN previews
        PROVE  /\ PreviewSound(previews'[e], flow') /\ previews'[e].at = previews[e].at
               /\ previews'[e].manual = previews[e].manual
               /\ e = inFlight => Over(previews'[e])
    <2>1. PreviewSound(previews[e], flow')
      BY PreviewStays DEF BotInv, PreviewsSound
    <2>2. previews'[e] = y(e)
      BY <1>3
    <2>3. flag(e) \in BOOLEAN
      BY <1>2 DEF Preview
    <2>4. e = inFlight => ~previews[e].manual
      BY <1>1 DEF BotInv, FlightSound
    <2>5. qs[e] = previews[e]
          \/ (~previews[e].manual /\ ~Over(previews[e]) /\ qs[e] = [previews[e] EXCEPT !.phase = "SUPERSEDED"])
      BY <1>2, <2>4
    <2>6. previews[e].manual /\ ~Over(previews[e]) => ~flag(e)
      BY <2>1, <2>5 DEF PreviewSound, Over
    <2>7. qs[e] \in Preview /\ (e = inFlight => Over(qs[e]))
      BY <1>2
    <2> HIDE DEF flag
    <2>8. /\ PreviewSound(y(e), flow') /\ y(e).at = previews[e].at
          /\ y(e).manual = previews[e].manual /\ y(e).phase = qs[e].phase
      BY <2>1, <2>3, <2>5, <2>6, <2>7, OvertakenSound
    <2> HIDE DEF y
    <2> QED  BY <2>2, <2>7, <2>8 DEF Over
  <1>5. PreviewsSound(previews', flow')
    <2>1. \A e \in DOMAIN previews : previews'[e] \in Preview
      BY <1>4 DEF PreviewSound
    <2>2. previews' = [e \in DOMAIN previews' |-> previews'[e]]
      BY <1>3
    <2> HIDE DEF y
    <2>3. previews' \in Seq(Preview) /\ Len(previews') = Len(previews)
      BY <1>1, <1>3, <2>1, <2>2, SequenceOf
    <2> QED  BY <1>1, <1>3, <1>4, <2>3 DEF PreviewsSound
  <1> HIDE DEF y
  <1>6. FlightSound(previews', inFlight')
    BY <1>3, <1>4 DEF BotInv, FlightSound
  <1>7. AuthoritySound(previews', authority', opened')
    <2>1. 0 \in 0..MaxPreviews
      BY BoundsAssumption
    <2> QED  BY <1>3, <2>1 DEF AuthoritySound
  <1>8. OpenedSound(previews', opened')
    BY <1>3, <1>4 DEF BotInv, OpenedSound
  <1> QED  BY <1>5, <1>6, <1>7, <1>8 DEF BotInv

(* One preview that has not ended moves on.                                 *)
LEMMA PreviewMoves ==
    ASSUME BotInv, NEW e \in DOMAIN previews, previews[e].at # "end",
           NEW y, PreviewSound(y, flow'), y.manual = previews[e].manual,
           previews' = [previews EXCEPT ![e] = y], flow' \in Session, Succeeds(flow, flow'),
           UNCHANGED <<picking, opened>>,
           inFlight' = inFlight \/ Cleared(e),
           inFlight' = e => y.at # "end" /\ (y.overtaken => Over(y)),
           authority' \in [Ladders -> 0..MaxPreviews],
           \A l \in Ladders : authority'[l] \in {0, authority[l]} \/ (authority'[l] = e /\ Grants(y, l))
    PROVE  BotInv'
  <1>1. previews \in Seq(Preview) /\ DOMAIN previews = 1..Len(previews) /\ y \in Preview
    BY LenProperties DEF BotInv, PreviewsSound, PreviewSound
  <1>2. previews' \in Seq(Preview) /\ Len(previews') = Len(previews)
    BY <1>1, ExceptSeq
  <1>3. \A d \in DOMAIN previews : previews'[d] = IF d = e THEN y ELSE previews[d]
    BY <1>1
  <1>4. DOMAIN previews' = DOMAIN previews
    OBVIOUS
  <1>5. PreviewsSound(previews', flow')
    <2>1. \A d \in DOMAIN previews : PreviewSound(previews'[d], flow')
      BY <1>3, PreviewStays DEF BotInv, PreviewsSound
    <2> QED  BY <1>2, <1>4, <2>1 DEF BotInv, PreviewsSound
  <1>6. inFlight' \in 0..MaxPreviews /\ FlightSound(previews', inFlight')
    <2>1. inFlight' \in {0, inFlight}
      BY DEF Cleared
    <2>2. inFlight' \in 0..MaxPreviews
      BY <2>1, BoundsAssumption DEF BotInv
    <2>3. FlightSound(previews', inFlight')
      BY <1>3, <1>4, <2>1 DEF BotInv, FlightSound
    <2> QED  BY <2>2, <2>3
  <1>7. PickSound(picking', flow')
    BY PickStays DEF BotInv
  <1>8. \A i \in DOMAIN opened : opened[i] # e
    BY DEF BotInv, OpenedSound
  <1>9. AuthoritySound(previews', authority', opened')
    <2>1. ASSUME NEW l \in Ladders, authority'[l] # 0
          PROVE  /\ authority'[l] \in DOMAIN previews' /\ Grants(previews'[authority'[l]], l)
                 /\ \A i \in DOMAIN opened : opened[i] # authority'[l]
      <3>1. CASE authority'[l] = e /\ Grants(y, l)
        BY <1>3, <1>4, <1>8, <3>1
      <3>2. CASE authority'[l] = authority[l]
        <4>1. /\ authority[l] \in DOMAIN previews /\ Grants(previews[authority[l]], l)
              /\ \A i \in DOMAIN opened : opened[i] # authority[l]
          BY <2>1, <3>2 DEF BotInv, AuthoritySound
        <4>2. authority[l] # e
          BY <4>1 DEF Grants
        <4> QED  BY <1>3, <1>4, <3>2, <4>1, <4>2
      <3> QED  BY <2>1, <3>1, <3>2
    <2> QED  BY <2>1 DEF AuthoritySound
  <1>10. OpenedSound(previews', opened')
    BY <1>3, <1>4, <1>8 DEF BotInv, OpenedSound
  <1> QED  BY <1>5, <1>6, <1>7, <1>9, <1>10 DEF BotInv

LEMMA PreviewAt ==
    ASSUME BotInv, NEW e \in DOMAIN previews
    PROVE  /\ previews[e] \in Preview /\ PreviewSound(previews[e], flow)
           /\ e \in 1..MaxPreviews /\ flow \in Session /\ Succeeds(flow, flow)
           /\ inFlight = e => (previews[e].overtaken => Over(previews[e]))
  <1>1. /\ DOMAIN previews = 1..Len(previews) /\ Len(previews) <= MaxPreviews /\ Len(previews) \in Nat
    BY LenProperties DEF BotInv, PreviewsSound
  <1>2. e \in 1..MaxPreviews
    BY <1>1, BoundsAssumption
  <1>3. Succeeds(flow, flow)
    BY DEF BotInv, Succeeds
  <1>4. inFlight = e => (previews[e].overtaken => Over(previews[e]))
    BY <1>2 DEF BotInv, FlightSound
  <1> QED  BY <1>2, <1>3, <1>4 DEF BotInv, PreviewsSound, PreviewSound

EndedAs(p, at, phase) == [p EXCEPT !.at = at, !.phase = phase, !.revision = 0]

LEMMA EndedSound ==
    ASSUME NEW f \in Session, NEW p, PreviewSound(p, f), NEW at \in {"notify", "end"},
           NEW phase \in Phases, Over(p) => Over([p EXCEPT !.phase = phase]),
           NEW g, Succeeds(f, g)
    PROVE  /\ PreviewSound(EndedAs(p, at, phase), g)
           /\ EndedAs(p, at, phase).manual = p.manual /\ EndedAs(p, at, phase).at = at
           /\ EndedAs(p, at, phase).phase = phase /\ EndedAs(p, at, phase).ready = p.ready
           /\ EndedAs(p, at, phase).overtaken = p.overtaken
           /\ EndedAs(p, at, phase).ladder = p.ladder
  <1> DEFINE y == EndedAs(p, at, phase)
  <1>1. p \in Preview /\ 0 \in 0..MaxRevision
    BY BoundsAssumption DEF PreviewSound
  <1>2. /\ y \in Preview /\ y.manual = p.manual /\ y.at = at /\ y.phase = phase
        /\ y.ready = p.ready /\ y.overtaken = p.overtaken /\ y.ladder = p.ladder
        /\ y.session = p.session /\ y.revision = 0
    BY <1>1 DEF EndedAs, Preview
  <1>3. [p EXCEPT !.phase = phase].phase = phase
    BY <1>1 DEF Preview
  <1> HIDE DEF y
  <1>4. /\ f.revision \in Nat /\ p.revision \in Nat
    BY <1>1, BoundsAssumption DEF Session, Preview
  <1>5. ~y.manual => NotAhead(y.session, y.revision, f)
    BY <1>2, <1>4 DEF PreviewSound, NotAhead
  <1>6. y.manual /\ ~Over(y) => ~y.overtaken
    BY <1>2, <1>3 DEF Over, PreviewSound
  <1>7. PreviewSound(y, f)
    BY <1>2, <1>5, <1>6 DEF PreviewSound
  <1>8. PreviewSound(y, g)
    BY <1>7, PreviewStays
  <1> QED  BY <1>2, <1>8 DEF y

LEMMA EndedIs ==
    ASSUME BotInv, NEW e \in DOMAIN previews, NEW phase
    PROVE  /\ Ended(previews, e, phase) = [previews EXCEPT ![e] = EndedAs(previews[e], "end", phase)]
           /\ [Ended(previews, e, phase) EXCEPT ![e].at = "notify"] =
                  [previews EXCEPT ![e] = EndedAs(previews[e], "notify", phase)]
  <1>1. previews \in [1..Len(previews) -> Preview] /\ DOMAIN previews = 1..Len(previews)
    BY LenProperties DEF BotInv, PreviewsSound
  <1> DEFINE x == EndedAs(previews[e], "end", phase)
             y == EndedAs(previews[e], "notify", phase)
             ps == [previews EXCEPT ![e] = x]
  <1>2. Ended(previews, e, phase) = ps
    BY <1>1 DEF Ended, EndedAs
  <1>3. [x EXCEPT !.at = "notify"] = y
    BY <1>1 DEF EndedAs, Preview
  <1>4. [ps EXCEPT ![e].at = "notify"] = [ps EXCEPT ![e] = [x EXCEPT !.at = "notify"]]
    BY <1>1
  <1> HIDE DEF x, y
  <1>5. [ps EXCEPT ![e] = y] = [previews EXCEPT ![e] = y]
    BY <1>1
  <1> QED  BY <1>2, <1>3, <1>4, <1>5 DEF x, y

(* The lifecycle of a text preview is written to the flow as it left it.    *)
LEMMA PersistedNext ==
    ASSUME BotInv, NEW e \in DOMAIN previews, previews[e].at \in {"context", "chain", "deliver"},
           ~previews[e].manual, Applicable(previews[e].session, previews[e].revision),
           NEW status \in LifeStatuses, flow' = Persisted(e, status)
    PROVE  /\ flow' \in Session /\ Succeeds(flow, flow') /\ flow'.lifecycle \in Lifecycle
           /\ flow'.id = previews[e].session /\ flow'.revision = previews[e].revision + 1
           /\ previews[e].revision < MaxRevision
  <1> DEFINE lifecycle == [flow.lifecycle EXCEPT !.status = status]
  <1>1. PreviewSound(previews[e], flow) /\ flow \in Session
    BY PreviewAt
  <1>2. flow.id = previews[e].session /\ flow.revision = previews[e].revision
        /\ flow.revision < MaxRevision
    BY DEF Applicable, Live
  <1>3. flow.lifecycle \in Lifecycle
    BY <1>1, <1>2 DEF PreviewSound, LoadedNow
  <1>4. lifecycle \in Lifecycle /\ flow.kind \in Kinds
    BY <1>1, <1>3 DEF Lifecycle, Session
  <1>5. flow' = Written(flow.kind, lifecycle)
    BY DEF Persisted
  <1> HIDE DEF lifecycle
  <1> QED  BY <1>1, <1>2, <1>4, <1>5, WrittenNext

(* A preview goes on to its next await, and nothing else moves.             *)
LEMMA PreviewAwaits ==
    ASSUME BotInv, NEW e \in DOMAIN previews, previews[e].at \in {"progress", "native", "context"},
           NEW y \in Preview, y.at \in {"pool", "context", "chain"},
           previews[e].at = "progress" => y.at = "pool",
           y.manual = previews[e].manual, y.session = previews[e].session,
           y.revision = previews[e].revision, y.phase = previews[e].phase,
           y.overtaken = previews[e].overtaken,
           previews' = [previews EXCEPT ![e] = y],
           UNCHANGED <<flow, picking, inFlight, authority, opened>>
    PROVE  BotInv'
  <1>1. /\ PreviewSound(previews[e], flow) /\ flow' \in Session /\ Succeeds(flow, flow')
        /\ inFlight = e => (previews[e].overtaken => Over(previews[e]))
    BY PreviewAt
  <1>2. authority' \in [Ladders -> 0..MaxPreviews]
    BY DEF BotInv, AuthoritySound
  <1>3. PreviewSound(y, flow') /\ (inFlight' = e => y.at # "end" /\ (y.overtaken => Over(y)))
    BY <1>1 DEF PreviewSound, Over
  <1> QED  BY <1>1, <1>2, <1>3, PreviewMoves

LEMMA PaintedBot ==
    ASSUME BotInv, NEW e \in DOMAIN previews, Painted(e)
    PROVE  BotInv'
  <1> DEFINE p == previews[e]
             y == [p EXCEPT !.at = "pool"]
  <1>1. /\ previews' = [previews EXCEPT ![e] = y] /\ p.at = "progress"
        /\ UNCHANGED <<flow, picking, inFlight, authority, opened>>
    BY DEF Painted, Continues, ladderVars
  <1>2. p \in Preview
    BY PreviewAt
  <1> HIDE DEF p
  <1>3. /\ y \in Preview /\ y.at = "pool" /\ y.manual = p.manual /\ y.session = p.session
        /\ y.revision = p.revision /\ y.phase = p.phase /\ y.overtaken = p.overtaken
    BY <1>2 DEF Preview
  <1> HIDE DEF y
  <1> QED  BY <1>1, <1>3, PreviewAwaits DEF p

LEMMA PlanPersistedBot ==
    ASSUME BotInv, NEW e \in DOMAIN previews, PlanPersisted(e)
    PROVE  BotInv'
  <1> DEFINE p == previews[e]
             y == [p EXCEPT !.at = "context"]
  <1>1. /\ previews' = [previews EXCEPT ![e] = y] /\ p.at = "native"
        /\ UNCHANGED <<flow, picking, inFlight, authority, opened>>
    BY DEF PlanPersisted, Continues
  <1>2. p \in Preview
    BY PreviewAt
  <1> HIDE DEF p
  <1>3. /\ y \in Preview /\ y.at = "context" /\ y.manual = p.manual /\ y.session = p.session
        /\ y.revision = p.revision /\ y.phase = p.phase /\ y.overtaken = p.overtaken
    BY <1>2 DEF Preview
  <1> HIDE DEF y
  <1> QED  BY <1>1, <1>3, PreviewAwaits DEF p

LEMMA ContextReadBot ==
    ASSUME BotInv, NEW e \in DOMAIN previews, ContextRead(e)
    PROVE  BotInv'
  <1> DEFINE p == previews[e]
             ready == Expired[p.ladder].status = "PLANNED"
             y == [p EXCEPT !.at = "chain", !.ready = ready]
  <1>1. /\ previews' = [previews EXCEPT ![e] = y] /\ p.at = "context"
        /\ UNCHANGED <<flow, picking, inFlight, authority, opened>>
    BY DEF ContextRead, Continues
  <1>2. p \in Preview /\ ready \in BOOLEAN
    BY PreviewAt
  <1> HIDE DEF p, ready
  <1>3. /\ y \in Preview /\ y.at = "chain" /\ y.manual = p.manual /\ y.session = p.session
        /\ y.revision = p.revision /\ y.phase = p.phase /\ y.overtaken = p.overtaken
    BY <1>2 DEF Preview
  <1> HIDE DEF y
  <1> QED  BY <1>1, <1>3, PreviewAwaits DEF p

(* A preview that ends, or has only its failure to show.                    *)
LEMMA PreviewEnds ==
    ASSUME BotInv, NEW e \in DOMAIN previews, previews[e].at # "end",
           NEW phase \in {"FAILED", "SUPERSEDED"}, NEW at \in {"notify", "end"},
           previews' = [previews EXCEPT ![e] = EndedAs(previews[e], at, phase)],
           flow' \in Session, Succeeds(flow, flow'), UNCHANGED <<picking, opened>>,
           IF at = "end" THEN Cleared(e) ELSE inFlight' = inFlight,
           authority' \in {authority, [authority EXCEPT ![previews[e].ladder] = 0]}
    PROVE  BotInv'
  <1> DEFINE p == previews[e]
             y == EndedAs(p, at, phase)
  <1>1. p \in Preview /\ PreviewSound(p, flow) /\ flow \in Session /\ phase \in Phases
        /\ e \in 1..MaxPreviews
    BY PreviewAt DEF Phases
  <1>2. Over(p) => Over([p EXCEPT !.phase = phase])
    BY <1>1 DEF Over, Preview
  <1>3. /\ PreviewSound(y, flow') /\ y.manual = p.manual /\ y.at = at /\ y.phase = phase
    BY <1>1, <1>2, EndedSound
  <1>4. Over(y)
    BY <1>3 DEF Over
  <1>5. /\ authority' \in [Ladders -> 0..MaxPreviews]
        /\ \A l \in Ladders : authority'[l] \in {0, authority[l]}
    BY BoundsAssumption DEF BotInv, AuthoritySound
  <1>6. inFlight' = e => y.at # "end" /\ (y.overtaken => Over(y))
    BY <1>1, <1>3, <1>4 DEF Cleared
  <1> HIDE DEF y
  <1>7. previews' = [previews EXCEPT ![e] = y]
    BY DEF y
  <1> QED  BY <1>3, <1>5, <1>6, <1>7, PreviewMoves

LEMMA PoolReadBot ==
    ASSUME BotInv, NEW e \in DOMAIN previews, PoolRead(e)
    PROVE  BotInv'
  <1> DEFINE p == previews[e]
  <1>1. /\ p.at = "pool" /\ ~Over(p) /\ flow.id = p.session /\ flow.revision = p.revision
        /\ p.revision < MaxRevision /\ UNCHANGED <<picking, authority, opened>>
    BY DEF PoolRead, Continues, Terminal, Over, Applicable, Live, ladderVars
  <1>2. /\ p \in Preview /\ PreviewSound(p, flow) /\ flow \in Session /\ e \in 1..MaxPreviews
        /\ inFlight = e => ~p.overtaken
    BY <1>1, PreviewAt
  <1>3. ASSUME NEW l \in Ladders,
               flow' = Written("v4_bid_ladder_preview", [status |-> "PREPARING", request |-> e, ladder |-> l]),
               previews' = [previews EXCEPT ![e].at = "native", ![e].ladder = l, ![e].revision = @ + 1],
               inFlight' = inFlight
        PROVE  BotInv'
    <2> DEFINE lifecycle == [status |-> "PREPARING", request |-> e, ladder |-> l]
               next == p.revision + 1
               y == [p EXCEPT !.at = "native", !.ladder = l, !.revision = next]
    <2>1. lifecycle \in Lifecycle /\ "v4_bid_ladder_preview" \in Kinds
      BY <1>2 DEF Lifecycle, LifeStatuses, Previews, Kinds
    <2>2. previews' = [previews EXCEPT ![e] = y]
      BY <1>3
    <2>3. flow' = Written("v4_bid_ladder_preview", lifecycle)
      BY <1>3
    <2> HIDE DEF lifecycle
    <2>4. /\ flow' \in Session /\ Succeeds(flow, flow') /\ flow'.id = p.session
          /\ flow'.revision = p.revision + 1 /\ flow'.lifecycle \in Lifecycle
      BY <1>1, <1>2, <2>1, <2>3, WrittenNext
    <2>5. next \in 0..MaxRevision /\ flow'.revision = next
      BY <1>1, <1>2, <2>4, BoundsAssumption DEF Preview
    <2> HIDE DEF next, p
    <2>6. /\ y \in Preview /\ y.at = "native" /\ y.manual = p.manual /\ y.session = p.session
          /\ y.revision = next /\ y.phase = p.phase /\ y.overtaken = p.overtaken
      BY <1>2, <2>5 DEF Preview
    <2> HIDE DEF y
    <2>7. NotAhead(y.session, y.revision, flow')
      BY <2>4, <2>5, <2>6, BoundsAssumption DEF NotAhead, Session
    <2>8. PreviewSound(y, flow')
      BY <1>2, <2>4, <2>6, <2>7 DEF PreviewSound, Over
    <2>9. inFlight' = e => y.at # "end" /\ (y.overtaken => Over(y))
      BY <1>2, <1>3, <2>6
    <2>10. authority' \in [Ladders -> 0..MaxPreviews]
      BY <1>1 DEF BotInv, AuthoritySound
    <2> QED  BY <1>1, <1>3, <2>2, <2>4, <2>6, <2>8, <2>9, <2>10, PreviewMoves DEF p
  <1>4. CASE /\ flow' = Written("v4_bid_ladder_depth", flow.lifecycle)
             /\ previews' = Ended(previews, e, "FAILED") /\ Cleared(e)
    <2>1. "v4_bid_ladder_depth" \in Kinds /\ flow.lifecycle \in Lifecycle \cup {NULL}
      BY <1>2 DEF Kinds, Session
    <2>2. flow' \in Session /\ Succeeds(flow, flow')
      BY <1>1, <1>2, <1>4, <2>1, WrittenNext
    <2>3. previews' = [previews EXCEPT ![e] = EndedAs(p, "end", "FAILED")]
      BY <1>4, EndedIs
    <2> QED  BY <1>1, <1>4, <2>2, <2>3, PreviewEnds
  <1> QED  BY <1>3, <1>4 DEF PoolRead

LEMMA ComputedBot ==
    ASSUME BotInv, NEW e \in DOMAIN previews, Computed(e)
    PROVE  BotInv'
  <1> DEFINE p == previews[e]
             next == IF p.manual THEN p.revision ELSE p.revision + 1
  <1>1. /\ p.at = "chain" /\ ~Over(p) /\ UNCHANGED <<picking, inFlight, authority, opened>>
    BY DEF Computed, Continues, Terminal, Over, ladderVars
  <1>2. /\ p \in Preview /\ PreviewSound(p, flow) /\ flow \in Session /\ Succeeds(flow, flow)
        /\ inFlight = e => ~p.overtaken
    BY <1>1, PreviewAt
  <1>3. /\ flow' \in Session /\ Succeeds(flow, flow') /\ next \in 0..MaxRevision
        /\ ~p.manual => /\ flow'.lifecycle \in Lifecycle /\ flow'.id = p.session
                        /\ flow'.revision = next
    <2>1. CASE p.manual
      BY <1>2, <2>1 DEF Computed, Preview
    <2>2. CASE ~p.manual
      <3>1. Applicable(p.session, p.revision) /\ flow' = Persisted(e, "COMPUTED")
        BY <2>2 DEF Computed
      <3>2. /\ flow' \in Session /\ Succeeds(flow, flow') /\ flow'.lifecycle \in Lifecycle
            /\ flow'.id = p.session /\ flow'.revision = p.revision + 1 /\ p.revision < MaxRevision
        BY <1>1, <2>2, <3>1, PersistedNext DEF LifeStatuses
      <3> QED  BY <1>2, <2>2, <3>2, BoundsAssumption DEF Preview
    <2> QED  BY <2>1, <2>2
  <1>4. PICK ready \in Readiness(e) :
            previews' = [previews EXCEPT ![e].at = "deliver", ![e].phase = "COMPUTED", ![e].ready = ready,
                                         ![e].revision = IF previews[e].manual THEN @ ELSE @ + 1]
    BY DEF Computed
  <1>5. ready \in BOOLEAN
    BY <1>2 DEF Readiness, Preview
  <1> DEFINE y == [p EXCEPT !.at = "deliver", !.phase = "COMPUTED", !.ready = ready, !.revision = next]
  <1>6. previews' = [previews EXCEPT ![e] = y]
    BY <1>4
  <1> HIDE DEF next, p
  <1>7. /\ y \in Preview /\ y.at = "deliver" /\ y.manual = p.manual /\ y.session = p.session
        /\ y.revision = next /\ y.phase = "COMPUTED" /\ y.overtaken = p.overtaken
    BY <1>2, <1>3, <1>5 DEF Preview, Phases
  <1> HIDE DEF y
  <1>8. PreviewSound(y, flow')
    <2>1. ~y.manual => NotAhead(y.session, y.revision, flow')
      BY <1>3, <1>7, BoundsAssumption DEF NotAhead, Session
    <2> QED  BY <1>1, <1>2, <1>3, <1>7, <2>1 DEF PreviewSound, Over
  <1>9. inFlight' = e => y.at # "end" /\ (y.overtaken => Over(y))
    BY <1>1, <1>2, <1>7
  <1>10. authority' \in [Ladders -> 0..MaxPreviews]
    BY <1>1 DEF BotInv, AuthoritySound
  <1> QED  BY <1>1, <1>3, <1>6, <1>7, <1>8, <1>9, <1>10, PreviewMoves DEF p

(* What is delivered without blockers is not overtaken: its flow, or its    *)
(* place in flight, would be gone.                                          *)
LEMMA DeliveredBot ==
    ASSUME BotInv, NEW e \in DOMAIN previews, Delivered(e)
    PROVE  BotInv'
  <1> DEFINE p == previews[e]
             phase == IF p.ready THEN "DELIVERED" ELSE "FAILED"
             y == EndedAs(p, "end", phase)
             grant == IF p.ready THEN e ELSE 0
  <1>1. /\ p.at = "deliver" /\ ~Over(p) /\ IsCurrent(e) /\ UNCHANGED <<picking, opened>>
        /\ previews' = Ended(previews, e, phase)
        /\ authority' = [authority EXCEPT ![p.ladder] = grant] /\ Cleared(e)
    BY DEF Delivered, Continues, Terminal, Over, ladderVars
  <1>2. /\ p \in Preview /\ PreviewSound(p, flow) /\ flow \in Session /\ Succeeds(flow, flow)
        /\ e \in 1..MaxPreviews /\ (inFlight = e => ~p.overtaken)
    BY <1>1, PreviewAt
  <1>3. flow' \in Session /\ Succeeds(flow, flow')
    <2>1. CASE p.manual
      BY <1>2, <2>1 DEF Delivered
    <2>2. CASE ~p.manual
      <3>1. Applicable(p.session, p.revision) /\ flow' = Persisted(e, phase)
        BY <2>2 DEF Delivered
      <3>2. phase \in LifeStatuses
        BY DEF LifeStatuses
      <3> HIDE DEF phase
      <3> QED  BY <1>1, <2>2, <3>1, <3>2, PersistedNext
    <2> QED  BY <2>1, <2>2
  <1>4. ~p.overtaken
    BY <1>1, <1>2 DEF IsCurrent, PreviewSound
  <1>5. phase \in Phases /\ (p.ready => phase = "DELIVERED") /\ grant \in 0..MaxPreviews
        /\ (grant = IF p.ready THEN e ELSE 0)
    BY <1>2, BoundsAssumption DEF Phases
  <1>6. previews' = [previews EXCEPT ![e] = y]
    BY <1>1, EndedIs
  <1> HIDE DEF phase, grant, p
  <1>7. /\ PreviewSound(y, flow') /\ y.manual = p.manual /\ y.at = "end" /\ y.phase = phase
        /\ y.ready = p.ready /\ y.overtaken = p.overtaken /\ y.ladder = p.ladder
    <2>1. /\ PreviewSound(p, flow) /\ flow \in Session /\ Succeeds(flow, flow') /\ phase \in Phases
          /\ Over(p) => Over([p EXCEPT !.phase = phase])
      BY <1>1, <1>2, <1>3, <1>5
    <2> QED  BY <2>1, EndedSound
  <1>8. p.ready => Grants(y, p.ladder)
    BY <1>2, <1>4, <1>5, <1>7 DEF Grants, Preview
  <1> HIDE DEF y
  <1>9. authority' \in [Ladders -> 0..MaxPreviews]
    BY <1>1, <1>5 DEF BotInv, AuthoritySound
  <1>10. \A l \in Ladders : authority'[l] \in {0, authority[l]} \/ (authority'[l] = e /\ Grants(y, l))
    BY <1>1, <1>5, <1>8 DEF BotInv, AuthoritySound
  <1>11. inFlight' # e
    BY <1>1, <1>2 DEF Cleared
  <1> QED  BY <1>1, <1>3, <1>6, <1>7, <1>9, <1>10, <1>11, PreviewMoves DEF p

LEMMA FailureBot ==
    ASSUME BotInv, NEW e \in DOMAIN previews,
           FailsEarly(e) \/ FailsLate(e) \/ Notified(e) \/ Dropped(e)
    PROVE  BotInv'
  <1>1. flow \in Session /\ Succeeds(flow, flow)
    BY PreviewAt
  <1>2. CASE FailsEarly(e)
    <2>1. previews' = [previews EXCEPT ![e] = EndedAs(previews[e], "end", "FAILED")]
      BY <1>2, EndedIs DEF FailsEarly
    <2> QED  BY <1>1, <1>2, <2>1, PreviewEnds DEF FailsEarly, ladderVars
  <1>3. CASE FailsLate(e)
    <2>1. previews' = [previews EXCEPT ![e] = EndedAs(previews[e], "notify", "FAILED")]
      BY <1>3, EndedIs DEF FailsLate
    <2>2. flow' \in Session /\ Succeeds(flow, flow')
      BY <1>1, <1>3, PersistedNext DEF FailsLate, LifeStatuses
    <2> QED  BY <1>1, <1>3, <2>1, <2>2, PreviewEnds DEF FailsLate, ladderVars
  <1>4. CASE Notified(e)
    <2>1. previews' = [previews EXCEPT ![e] = EndedAs(previews[e], "end", "FAILED")]
      BY <1>4, EndedIs DEF Notified
    <2> QED  BY <1>1, <1>4, <2>1, PreviewEnds DEF Notified, ladderVars
  <1>5. CASE Dropped(e)
    <2>1. previews' = [previews EXCEPT ![e] = EndedAs(previews[e], "end", "SUPERSEDED")]
      BY <1>5, EndedIs DEF Dropped
    <2> QED  BY <1>1, <1>5, <2>1, PreviewEnds DEF Dropped, ladderVars
  <1> QED  BY <1>2, <1>3, <1>4, <1>5

LEMMA PreviewStepBot ==
    ASSUME BotInv, NEW e \in DOMAIN previews, PreviewStep(e)
    PROVE  BotInv'
  BY PaintedBot, PoolReadBot, PlanPersistedBot, ContextReadBot, ComputedBot, DeliveredBot,
     FailureBot DEF PreviewStep

(* A new preview, beside which the one in flight may have been superseded.  *)
LEMMA PreviewAppended ==
    ASSUME BotInv, NEW ps, PreviewsSound(ps, flow), Len(ps) = Len(previews), Len(ps) < MaxPreviews,
           \A e \in DOMAIN previews : previews[e].at = "end" => ps[e] = previews[e],
           NEW x, PreviewSound(x, flow), previews' = Append(ps, x),
           UNCHANGED <<flow, authority, opened>>,
           picking' \in Picks, PickSound(picking', flow),
           inFlight' \in 0..MaxPreviews, FlightSound(previews', inFlight')
    PROVE  BotInv'
  <1>1. /\ ps \in Seq(Preview) /\ x \in Preview /\ DOMAIN ps = 1..Len(ps) /\ Len(ps) \in Nat
        /\ DOMAIN previews = 1..Len(previews)
    BY LenProperties DEF BotInv, PreviewsSound, PreviewSound
  <1>2. /\ previews' \in Seq(Preview) /\ Len(previews') = Len(ps) + 1
        /\ \A e \in 1..Len(ps) : previews'[e] = ps[e]
        /\ previews'[Len(ps) + 1] = x
    BY <1>1, AppendProperties
  <1>3. DOMAIN previews' = 1..(Len(ps) + 1)
    BY <1>2, LenProperties
  <1>4. PreviewsSound(previews', flow')
    <2>1. Len(previews') <= MaxPreviews
      BY <1>1, <1>2, BoundsAssumption
    <2>2. \A e \in DOMAIN previews' : PreviewSound(previews'[e], flow)
      BY <1>1, <1>2, <1>3 DEF PreviewsSound
    <2> QED  BY <1>2, <2>1, <2>2 DEF PreviewsSound
  <1>5. \A e \in DOMAIN previews : e \in DOMAIN previews'
                                   /\ (previews[e].at = "end" => previews'[e] = previews[e])
    BY <1>1, <1>2, <1>3
  <1>6. AuthoritySound(previews', authority', opened')
    BY <1>5 DEF BotInv, AuthoritySound, Grants
  <1>7. OpenedSound(previews', opened')
    BY <1>5 DEF BotInv, OpenedSound
  <1> QED  BY <1>4, <1>6, <1>7 DEF BotInv

LEMMA AmountTextBot ==
    ASSUME BotInv, AmountText
    PROVE  BotInv'
  <1> DEFINE n == Len(previews)
             fresh == flow.lifecycle = NULL
             qs == Superseded(previews, inFlight)
             flag(e) == qs[e].overtaken \/ e = inFlight
             ps == [e \in DOMAIN previews |-> [qs[e] EXCEPT !.overtaken = flag(e)]]
             x == [manual |-> FALSE, session |-> flow.id, revision |-> flow.revision, ladder |-> NULL,
                   phase |-> IF fresh THEN "PREPARING" ELSE "SUPERSEDED", overtaken |-> FALSE,
                   ready |-> FALSE, at |-> IF fresh THEN "progress" ELSE "end"]
  <1>1. /\ n \in Nat /\ n < MaxPreviews /\ DOMAIN previews = 1..n /\ previews \in Seq(Preview)
        /\ flow \in Session /\ flow.kind = "v4_bid_ladder_amount" /\ OvertakePick
        /\ UNCHANGED <<flow, authority, opened>>
    BY LenProperties DEF AmountText, BotInv, PreviewsSound, ladderVars
  <1>2. /\ previews' = Append(ps, x) /\ inFlight' = IF fresh THEN n + 1 ELSE 0
    BY DEF AmountText
  <1>3. \A e \in DOMAIN previews :
             /\ qs[e] \in Preview
             /\ qs[e] = previews[e] \/ (e = inFlight /\ ~Over(previews[e])
                                        /\ qs[e] = [previews[e] EXCEPT !.phase = "SUPERSEDED"])
             /\ e = inFlight => Over(qs[e])
    BY <1>1, SupersededAt
  <1> HIDE DEF qs
  <1>4. ASSUME NEW e \in DOMAIN previews
        PROVE  PreviewSound(ps[e], flow) /\ (previews[e].at = "end" => ps[e] = previews[e])
    <2>1. PreviewSound(previews[e], flow) /\ previews[e] \in Preview /\ e \in 1..MaxPreviews
      BY PreviewAt
    <2>2. flag(e) \in BOOLEAN /\ ps[e] = [qs[e] EXCEPT !.overtaken = flag(e)]
      BY <1>3 DEF Preview
    <2>3. e = inFlight => ~previews[e].manual /\ previews[e].at # "end"
      BY <2>1 DEF BotInv, FlightSound
    <2>4. qs[e] = previews[e]
          \/ (~previews[e].manual /\ ~Over(previews[e]) /\ qs[e] = [previews[e] EXCEPT !.phase = "SUPERSEDED"])
      BY <1>3, <2>3
    <2>5. previews[e].manual /\ ~Over(previews[e]) => ~flag(e)
      BY <2>1, <2>3, <2>4 DEF PreviewSound
    <2>6. e # inFlight => qs[e] = previews[e] /\ (flag(e) <=> previews[e].overtaken)
      BY <1>3
    <2>7. e # inFlight => flag(e) = previews[e].overtaken
      BY <2>1, <2>2, <2>6 DEF Preview
    <2>8. qs[e] \in Preview
      BY <1>3
    <2> HIDE DEF flag, ps
    <2>9. PreviewSound(ps[e], flow)
      BY <2>1, <2>2, <2>4, <2>5, <2>8, OvertakenSound
    <2>10. e # inFlight => ps[e] = previews[e]
      BY <2>1, <2>2, <2>6, <2>7 DEF Preview
    <2> QED  BY <2>3, <2>9, <2>10
  <1>5. PreviewsSound(ps, flow) /\ Len(ps) = n /\ DOMAIN ps = 1..n
    <2>1. \A e \in 1..n : ps[e] \in Preview
      BY <1>1, <1>4 DEF PreviewSound
    <2>2. DOMAIN ps = 1..n /\ ps = [e \in DOMAIN ps |-> ps[e]]
      BY <1>1
    <2> HIDE DEF ps
    <2>3. ps \in Seq(Preview) /\ Len(ps) = n
      BY <1>1, <2>1, <2>2, SequenceOf
    <2> QED  BY <1>1, <1>4, <2>2, <2>3, BoundsAssumption DEF PreviewsSound
  <1> HIDE DEF ps
  <1>6. /\ x \in Preview /\ ~x.manual /\ ~x.overtaken /\ x.session = flow.id
        /\ x.revision = flow.revision /\ x.at \in {"progress", "end"} /\ (fresh => x.at = "progress")
    <2>1. /\ (IF fresh THEN "PREPARING" ELSE "SUPERSEDED") \in Phases
          /\ (IF fresh THEN "progress" ELSE "end") \in {"progress", "end"}
      BY DEF Phases
    <2> QED  BY <1>1, <2>1 DEF Preview, Session
  <1> HIDE DEF x, fresh
  <1>7. PreviewSound(x, flow)
    BY <1>1, <1>6, BoundsAssumption DEF PreviewSound, NotAhead, Session
  <1>8. inFlight' \in 0..MaxPreviews /\ FlightSound(previews', inFlight')
    <2>1. ps \in Seq(Preview)
      BY <1>5 DEF PreviewsSound
    <2>2. /\ previews' \in Seq(Preview) /\ Len(previews') = n + 1 /\ previews'[n + 1] = x
      BY <1>2, <1>5, <1>6, <2>1, AppendProperties
    <2>3. DOMAIN previews' = 1..(n + 1)
      BY <2>2, LenProperties
    <2>4. inFlight' \in 0..MaxPreviews
      BY <1>1, <1>2, BoundsAssumption
    <2> HIDE DEF n
    <2> QED  BY <1>1, <1>2, <1>6, <2>2, <2>3, <2>4 DEF FlightSound
  <1>9. picking' \in Picks /\ PickSound(picking', flow)
    BY <1>1, PickOvertaken DEF BotInv
  <1> QED  BY <1>1, <1>2, <1>4, <1>5, <1>7, <1>8, <1>9, PreviewAppended

LEMMA ManualPreviewBot ==
    ASSUME BotInv, NEW l \in Ladders, ManualPreview(l)
    PROVE  BotInv'
  <1> DEFINE x == [manual |-> TRUE, session |-> 0, revision |-> 0, ladder |-> l, phase |-> "PREPARING",
                   overtaken |-> FALSE, ready |-> FALSE, at |-> "context"]
  <1>1. /\ Len(previews) < MaxPreviews /\ previews' = Append(previews, x)
        /\ UNCHANGED <<flow, picking, inFlight, authority, opened>>
        /\ previews \in Seq(Preview) /\ Len(previews) \in Nat /\ DOMAIN previews = 1..Len(previews)
    BY LenProperties DEF ManualPreview, BotInv, PreviewsSound, ladderVars
  <1>2. x \in Preview /\ x.manual /\ ~x.overtaken
    BY BoundsAssumption DEF Preview, Phases
  <1> HIDE DEF x
  <1>3. PreviewSound(x, flow)
    BY <1>2 DEF PreviewSound
  <1>4. /\ previews' \in Seq(Preview) /\ Len(previews') = Len(previews) + 1
        /\ \A e \in 1..Len(previews) : previews'[e] = previews[e]
    BY <1>1, <1>2, AppendProperties
  <1>5. DOMAIN previews' = 1..(Len(previews) + 1)
    BY <1>4, LenProperties
  <1>6. inFlight' \in 0..MaxPreviews /\ FlightSound(previews', inFlight')
    BY <1>1, <1>4, <1>5 DEF BotInv, FlightSound
  <1> QED  BY <1>1, <1>3, <1>6, PreviewAppended DEF BotInv

-----------------------------------------------------------------------------
(* The flow, the authorities and a restart.                                 *)

LEMMA OvertakesBot ==
    ASSUME BotInv, SupersedeAll, OvertakePick, Later(flow, flow'), Succeeds(flow, flow'),
           UNCHANGED <<inFlight, opened>>
    PROVE  BotInv'
  <1>1. flow \in Session /\ flow' \in Session /\ picking \in Picks /\ PickSound(picking, flow)
    BY DEF BotInv, Succeeds
  <1>2. picking' \in Picks /\ PickSound(picking', flow')
    BY <1>1, PickOvertaken
  <1> QED  BY <1>1, <1>2, AllSuperseded

LEMMA AdvanceBot ==
    ASSUME BotInv, NEW kind \in Kinds, NEW lifecycle \in Lifecycle \cup {NULL},
           Advance(kind, lifecycle)
    PROVE  BotInv'
  <1>1. /\ flow \in Session /\ flow.revision < MaxRevision /\ flow' = Written(kind, lifecycle)
        /\ SupersedeAll /\ OvertakePick /\ UNCHANGED <<inFlight, opened>>
    BY DEF BotInv, Advance, Applicable, ladderVars
  <1>2. Later(flow, flow') /\ Succeeds(flow, flow')
    BY <1>1, WrittenNext
  <1> QED  BY <1>1, <1>2, OvertakesBot

LEMMA UserBot ==
    ASSUME BotInv, NewFlow \/ SelectPool \/ Strategy \/ Back \/ OtherText \/ Cancel
    PROVE  BotInv'
  <1>1. flow \in Session /\ flow.kind \in Kinds /\ flow.lifecycle \in Lifecycle \cup {NULL}
    BY DEF BotInv, Session
  <1>2. {"v4_strategy", "v4_bid_ladder_depth", "pool"} \subseteq Kinds /\ NULL \in Lifecycle \cup {NULL}
    BY DEF Kinds
  <1>3. CASE NewFlow
    <2>1. Later(flow, flow') /\ Succeeds(flow, flow')
      BY <1>1, <1>3, CreatedNext DEF NewFlow
    <2> QED  BY <1>3, <2>1, OvertakesBot DEF NewFlow, ladderVars
  <1>4. CASE Cancel
    <2> DEFINE next == flow.revision + 1
    <2>1. next \in 0..MaxRevision /\ next > flow.revision /\ flow' = [flow EXCEPT !.status = "cancelled", !.revision = next]
      BY <1>1, <1>4, BoundsAssumption DEF Cancel, Session
    <2> HIDE DEF next
    <2>2. flow' \in Session /\ flow'.id = flow.id /\ flow'.revision = next
      BY <1>1, <2>1 DEF Session, FlowStatuses
    <2>3. Later(flow, flow') /\ Succeeds(flow, flow')
      BY <2>1, <2>2 DEF Later, Succeeds
    <2> QED  BY <1>4, <2>3, OvertakesBot DEF Cancel, ladderVars
  <1>5. CASE SelectPool \/ Strategy \/ Back \/ OtherText
    BY <1>1, <1>2, <1>5, AdvanceBot DEF SelectPool, Strategy, Back, OtherText
  <1> QED  BY <1>3, <1>4, <1>5

LEMMA LapseBot ==
    ASSUME BotInv, Lapse
    PROVE  BotInv'
  <1>1. /\ flow' = [flow EXCEPT !.due = TRUE] /\ flow \in Session
        /\ UNCHANGED <<picking, previews, inFlight, authority, opened>>
    BY DEF Lapse, BotInv, ladderVars
  <1>2. Succeeds(flow, flow')
    BY <1>1 DEF Succeeds, Session
  <1>3. PickSound(picking', flow') /\ PreviewsSound(previews', flow') /\ flow' \in Session
    <2>1. PickSound(picking, flow')
      BY <1>1, <1>2, PickStays DEF BotInv
    <2>2. PreviewsSound(previews, flow')
      BY <1>1, <1>2, PreviewStays DEF BotInv, PreviewsSound
    <2> QED  BY <1>1, <1>2, <2>1, <2>2 DEF Succeeds
  <1> QED  BY <1>1, <1>3 DEF BotInv

LEMMA PickDepthBot ==
    ASSUME BotInv, PickDepth
    PROVE  BotInv'
  <1>1. /\ picking' = [session |-> flow.id, revision |-> flow.revision, overtaken |-> FALSE]
        /\ flow \in Session /\ flow.kind = "v4_bid_ladder_depth"
        /\ UNCHANGED <<flow, previews, inFlight, authority, opened>>
    BY DEF PickDepth, BotInv, ladderVars
  <1>2. picking' \in Picks /\ PickSound(picking', flow')
    BY <1>1, BoundsAssumption DEF Picks, Session, PickSound, NotAhead
  <1> QED  BY <1>1, <1>2 DEF BotInv

LEMMA DepthPickedBot ==
    ASSUME BotInv, DepthPicked
    PROVE  BotInv'
  <1>1. picking' = NoPick /\ UNCHANGED <<inFlight, opened>> /\ flow \in Session
        /\ flow.lifecycle \in Lifecycle \cup {NULL} /\ "v4_bid_ladder_amount" \in Kinds
    BY DEF DepthPicked, BotInv, ladderVars, Session, Kinds
  <1>2. picking' \in Picks /\ \A f : PickSound(picking', f)
    BY <1>1, BoundsAssumption DEF NoPick, Picks, PickSound
  <1>3. CASE /\ Applicable(picking.session, picking.revision)
             /\ flow' = Written("v4_bid_ladder_amount", flow.lifecycle) /\ SupersedeAll
    <2>1. flow' \in Session /\ Succeeds(flow, flow')
      BY <1>1, <1>3, WrittenNext DEF Applicable, Live
    <2> QED  BY <1>1, <1>2, <1>3, <2>1, AllSuperseded
  <1>4. CASE UNCHANGED <<flow, previews, authority>>
    BY <1>1, <1>2, <1>4 DEF BotInv
  <1> QED  BY <1>3, <1>4 DEF DepthPicked

LEMMA AuthorityLapsesBot ==
    ASSUME BotInv, NEW l \in Ladders, authority' = [authority EXCEPT ![l] = 0],
           UNCHANGED <<flow, picking, previews, inFlight, opened>>
    PROVE  BotInv'
  <1>1. AuthoritySound(previews, authority', opened)
    BY BoundsAssumption DEF BotInv, AuthoritySound
  <1> QED  BY <1>1 DEF BotInv

(* An authority opens one ladder, and is used up.                           *)
LEMMA ConfirmBot ==
    ASSUME BotInv, NEW l \in Ladders, Confirm(l)
    PROVE  BotInv'
  <1>1. UNCHANGED <<flow, picking, previews, inFlight>> /\ authority' = [authority EXCEPT ![l] = 0]
        /\ authority[l] # 0
    BY DEF Confirm, Consumed, Authorized
  <1>2. CASE opened' = opened
    BY <1>1, <1>2, AuthorityLapsesBot
  <1>3. CASE opened' = Append(opened, authority[l])
    <2> DEFINE e == authority[l]
    <2>1. /\ opened \in Seq(Previews) /\ e \in Previews /\ e \in DOMAIN previews
          /\ Grants(previews[e], l) /\ Len(opened) \in Nat /\ DOMAIN opened = 1..Len(opened)
      BY <1>1, BoundsAssumption, LenProperties DEF BotInv, AuthoritySound, OpenedSound, Previews
    <2>2. /\ opened' \in Seq(Previews) /\ Len(opened') = Len(opened) + 1
          /\ \A i \in 1..Len(opened) : opened'[i] = opened[i]
          /\ opened'[Len(opened) + 1] = e
      BY <1>3, <2>1, AppendProperties
    <2>3. DOMAIN opened' = 1..(Len(opened) + 1)
      BY <2>2, LenProperties
    <2>4. \A i \in DOMAIN opened' : opened'[i] = e \/ (i \in DOMAIN opened /\ opened'[i] = opened[i])
      BY <2>1, <2>2, <2>3
    <2>5. OpenedSound(previews', opened')
      BY <1>1, <2>1, <2>2, <2>4 DEF BotInv, OpenedSound, Grants
    <2>6. ASSUME NEW m \in Ladders, authority'[m] # 0
          PROVE  /\ authority'[m] \in DOMAIN previews /\ Grants(previews[authority'[m]], m)
                 /\ \A i \in DOMAIN opened' : opened'[i] # authority'[m]
      <3>1. m # l /\ authority'[m] = authority[m]
        BY <1>1, <2>6 DEF BotInv, AuthoritySound
      <3>2. /\ authority[m] \in DOMAIN previews /\ Grants(previews[authority[m]], m)
            /\ \A i \in DOMAIN opened : opened[i] # authority[m]
        BY <2>6, <3>1 DEF BotInv, AuthoritySound
      <3>3. authority[m] # e
        BY <2>1, <3>1, <3>2 DEF Grants
      <3> QED  BY <2>4, <3>1, <3>2, <3>3
    <2>7. authority' \in [Ladders -> 0..MaxPreviews]
      BY <1>1, BoundsAssumption DEF BotInv, AuthoritySound
    <2>8. AuthoritySound(previews', authority', opened')
      BY <1>1, <2>6, <2>7 DEF AuthoritySound
    <2> QED  BY <1>1, <2>5, <2>8 DEF BotInv
  <1> QED  BY <1>2, <1>3 DEF Confirm

LEMMA RestartBot ==
    ASSUME BotInv, Restart
    PROVE  BotInv'
  <1> DEFINE y(e) == EndedAs(previews[e], "end", previews[e].phase)
  <1>1. /\ previews \in Seq(Preview) /\ Len(previews) \in Nat /\ Len(previews) <= MaxPreviews
        /\ DOMAIN previews = 1..Len(previews)
    BY LenProperties DEF BotInv, PreviewsSound
  <1>2. /\ picking' = NoPick /\ inFlight' = 0 /\ authority' = [l \in Ladders |-> 0]
        /\ flow' = flow /\ opened' = opened
        /\ previews' = [e \in DOMAIN previews |-> Ended(previews, e, previews[e].phase)[e]]
    BY DEF Restart
  <1>3. ASSUME NEW e \in DOMAIN previews
        PROVE  PreviewSound(previews'[e], flow) /\ previews'[e].at = "end"
    <2>1. /\ previews[e] \in Preview /\ PreviewSound(previews[e], flow) /\ flow \in Session
          /\ Succeeds(flow, flow)
      BY PreviewAt
    <2>2. Ended(previews, e, previews[e].phase) = [previews EXCEPT ![e] = y(e)]
      BY EndedIs
    <2>3. previews'[e] = y(e)
      BY <1>2, <2>2
    <2>4. previews[e].phase \in Phases /\ (Over(previews[e]) => Over([previews[e] EXCEPT !.phase = previews[e].phase]))
      BY <2>1 DEF Preview, Over
    <2> QED  BY <2>1, <2>3, <2>4, EndedSound
  <1>4. PreviewsSound(previews', flow')
    <2>1. DOMAIN previews' = 1..Len(previews) /\ previews' = [e \in DOMAIN previews' |-> previews'[e]]
          /\ \A e \in 1..Len(previews) : previews'[e] \in Preview
      BY <1>1, <1>2, <1>3 DEF PreviewSound
    <2>2. previews' \in Seq(Preview) /\ Len(previews') = Len(previews)
      BY <1>1, <2>1, SequenceOf
    <2> QED  BY <1>1, <1>2, <1>3, <2>1, <2>2 DEF PreviewsSound
  <1>5. picking' \in Picks /\ PickSound(picking', flow')
    BY <1>2, BoundsAssumption DEF NoPick, Picks, PickSound
  <1>6. inFlight' \in 0..MaxPreviews /\ FlightSound(previews', inFlight')
    BY <1>2, BoundsAssumption DEF FlightSound
  <1>7. AuthoritySound(previews', authority', opened')
    BY <1>2, BoundsAssumption DEF AuthoritySound
  <1>8. OpenedSound(previews', opened')
    BY <1>2, <1>3 DEF BotInv, OpenedSound
  <1> QED  BY <1>2, <1>4, <1>5, <1>6, <1>7, <1>8 DEF BotInv

LEMMA BotStays ==
    ASSUME BotInv, UNCHANGED botVars
    PROVE  BotInv'
  BY DEF BotInv, botVars

-----------------------------------------------------------------------------
(* The theorems.                                                            *)

LEMMA InitOpen == Init => OpenInv
  <1> SUFFICES ASSUME Init PROVE OpenInv
    OBVIOUS
  <1>1. /\ 0 \in 0..MaxSessions /\ 0 \in 0..MaxRevision /\ 0 \in 0..MaxPreviews
        /\ MaxPreviews >= 0
    BY BoundsAssumption
  <1>2. flow \in Session
    BY <1>1 DEF Init, Session, FlowStatuses, Kinds
  <1>3. picking \in Picks /\ PickSound(picking, flow)
    BY <1>1 DEF Init, Picks, NoPick, PickSound
  <1>4. PreviewsSound(previews, flow) /\ FlightSound(previews, inFlight)
    BY <1>1, EmptySeq DEF Init, PreviewsSound, FlightSound
  <1>5. AuthoritySound(previews, authority, opened) /\ OpenedSound(previews, opened)
    BY <1>1, EmptySeq DEF Init, AuthoritySound, OpenedSound
  <1>6. BotInv
    BY <1>1, <1>2, <1>3, <1>4, <1>5 DEF BotInv, Init
  <1> DEFINE x == [status |-> "NONE", old |-> FALSE, row |-> "NONE",
                   approval |-> [s \in Stages |-> "NONE"], minted |-> 0]
  <1>7. x \in Ladder /\ LadderSound(x)
    BY DEF Ladder, LadderSound
  <1>8. ladders = [l \in Ladders |-> x] /\ calls = [l \in Ladders |-> Idle]
    BY DEF Init
  <1> HIDE DEF x
  <1>9. StoreInv
    BY <1>1, <1>7, <1>8 DEF StoreInv, Idle, Call
  <1> QED  BY <1>6, <1>9 DEF OpenInv

LEMMA OpenStepBot ==
    ASSUME NEW l \in Ladders,
           OpenStep(l) \/ ApprovalMined(l) \/ Mined(l) \/ WorkerProjects(l) \/ Ages(l)
    PROVE  UNCHANGED botVars
  <1>1. CASE OpenContext(l) \/ OpenAdmitted(l) \/ ApprovalSent(l) \/ Approved(l) \/ FinallyValid(l)
    BY <1>1 DEF OpenContext, OpenAdmitted, ApprovalSent, Approved, FinallyValid, botVars
  <1>2. CASE Submit(l) \/ ProjectedInline(l) \/ OpenEnds(l)
    BY <1>2 DEF Submit, ProjectedInline, OpenEnds, botVars
  <1>3. CASE ApprovalMined(l) \/ Mined(l) \/ WorkerProjects(l) \/ Ages(l)
    BY <1>3 DEF ApprovalMined, Mined, WorkerProjects, Ages, botVars
  <1> QED  BY <1>1, <1>2, <1>3 DEF OpenStep

LEMMA UserStore ==
    ASSUME \/ NewFlow \/ SelectPool \/ Strategy \/ Back \/ OtherText \/ Cancel \/ Lapse
           \/ PickDepth \/ DepthPicked \/ AmountText
    PROVE  UNCHANGED ladderVars
  BY DEF NewFlow, SelectPool, Strategy, Back, OtherText, Cancel, Lapse, PickDepth, DepthPicked,
         AmountText, Advance

LEMMA PreviewStepStore ==
    ASSUME StoreInv, NEW e \in DOMAIN previews, PreviewStep(e)
    PROVE  StoreInv' /\ opened' = opened /\ picking' = picking
  <1>1. CASE ContextRead(e)
    <2>1. ladders' = Expired /\ calls' \in [Ladders -> Call]
          /\ opened' = opened /\ picking' = picking
      BY <1>1 DEF ContextRead, StoreInv
    <2> QED  BY <2>1, ExpiredSound
  <1>2. CASE PlanPersisted(e)
    BY <1>2, PlanPersistedStore DEF PlanPersisted
  <1>3. CASE Painted(e) \/ PoolRead(e) \/ Computed(e) \/ Delivered(e)
    <2>1. UNCHANGED ladderVars /\ picking' = picking
      BY <1>3 DEF Painted, PoolRead, Computed, Delivered
    <2> QED  BY <2>1, StoreStays DEF ladderVars
  <1>4. CASE FailsEarly(e) \/ FailsLate(e) \/ Notified(e) \/ Dropped(e)
    <2>1. UNCHANGED ladderVars /\ picking' = picking
      BY <1>4 DEF FailsEarly, FailsLate, Notified, Dropped
    <2> QED  BY <2>1, StoreStays DEF ladderVars
  <1> QED  BY <1>1, <1>2, <1>3, <1>4 DEF PreviewStep

LEMMA OpenInductive == OpenInv /\ [Next]_vars => OpenInv'
  <1> SUFFICES ASSUME OpenInv, [Next]_vars PROVE OpenInv'
    OBVIOUS
  <1> USE DEF OpenInv
  <1>1. CASE \/ NewFlow \/ SelectPool \/ Strategy \/ Back \/ OtherText \/ Cancel \/ Lapse
             \/ PickDepth \/ DepthPicked \/ AmountText
    <2>1. StoreInv'
      BY <1>1, UserStore, StoreStays DEF ladderVars
    <2>2. BotInv'
      BY <1>1, UserBot, LapseBot, PickDepthBot, DepthPickedBot, AmountTextBot
    <2> QED  BY <2>1, <2>2
  <1>2. CASE Restart
    <2>1. StoreInv'
      BY <1>2, BoundsAssumption DEF Restart, StoreInv, LadderSound, Idle, Call
    <2> QED  BY <1>2, <2>1, RestartBot
  <1>3. ASSUME NEW e \in DOMAIN previews, PreviewStep(e) PROVE OpenInv'
    BY <1>3, PreviewStepStore, PreviewStepBot
  <1>4. ASSUME NEW l \in Ladders, ManualPreview(l) PROVE OpenInv'
    BY <1>4, ManualPreviewBot, StoreStays DEF ManualPreview, ladderVars
  <1>5. ASSUME NEW l \in Ladders, AuthorityLapses(l) PROVE OpenInv'
    BY <1>5, AuthorityLapsesBot, StoreStays DEF AuthorityLapses, ladderVars
  <1>6. ASSUME NEW l \in Ladders, Confirm(l) PROVE OpenInv'
    <2> DEFINE x == calls[l]
               y == [x EXCEPT !.at = "context"]
    <2>1. x \in Call /\ calls \in [Ladders -> Call]
      BY DEF StoreInv
    <2>2. y \in Call
      BY <2>1 DEF Call
    <2>3. calls' = [calls EXCEPT ![l] = y] \/ calls' = calls
      BY <1>6 DEF Confirm
    <2> HIDE DEF y
    <2>4. calls' \in [Ladders -> Call] /\ UNCHANGED ladders
      BY <1>6, <2>1, <2>2, <2>3 DEF Confirm
    <2> QED  BY <1>6, <2>4, ConfirmBot, CallsMove
  <1>7. ASSUME NEW l \in Ladders, OpenStep(l) PROVE OpenInv'
    BY <1>7, OpenStepBot, BotStays, OpenStepStore
  <1>8. ASSUME NEW l \in Ladders, ApprovalMined(l) \/ Mined(l) \/ WorkerProjects(l) \/ Ages(l)
        PROVE  OpenInv'
    <2>1. WorkerProjects(l) => StoreInv'
      BY ProjectedStore DEF WorkerProjects, StoreInv
    <2> QED  BY <1>8, <2>1, OpenStepBot, BotStays, ApprovalMinedStore, MinedStore, AgesStore
  <1>9. CASE UNCHANGED vars
    BY <1>9, StoreStays, BotStays DEF vars, botVars
  <1> QED  BY <1>1, <1>2, <1>3, <1>4, <1>5, <1>6, <1>7, <1>8, <1>9 DEF Next

LEMMA OpenInvariant == Spec => []OpenInv
  BY InitOpen, OpenInductive, PTL DEF Spec

(* Flows, previews, authorities, opens and ladders keep their types: a      *)
(* revision never outruns its bound, and no ladder is minted twice.         *)
THEOREM LadderOpenTyped == Spec => []TypeOK
  <1>1. OpenInv => TypeOK
    BY DEF OpenInv, BotInv, StoreInv, PreviewsSound, AuthoritySound, OpenedSound, Picks, TypeOK
  <1> QED  BY <1>1, OpenInvariant, PTL

(* A ladder that was given up as abandoned has no row, no approval and no   *)
(* mint, and gets none, whichever open was under way.                       *)
THEOREM AbandonedLadderNeverMints == Spec => []CancelledNeverMints
  <1>1. OpenInv => CancelledNeverMints
    BY DEF OpenInv, StoreInv, LadderSound, CancelledNeverMints, NothingSent
  <1> QED  BY <1>1, OpenInvariant, PTL

(* What a step may do to the opens and to a depth selection.                *)
LEMMA OpenedByConfirm ==
    ASSUME OpenInv, [Next]_vars, opened' # opened
    PROVE  \E l \in Ladders : Confirm(l)
  <1>1. ~Restart /\ ~UNCHANGED vars
    BY DEF Restart, vars
  <1>2. ~(\/ NewFlow \/ SelectPool \/ Strategy \/ Back \/ OtherText \/ Cancel \/ Lapse
          \/ PickDepth \/ DepthPicked \/ AmountText)
    BY UserStore DEF ladderVars
  <1>3. \A e \in DOMAIN previews : ~PreviewStep(e)
    BY PreviewStepStore DEF OpenInv
  <1>4. \A l \in Ladders : ~ManualPreview(l) /\ ~AuthorityLapses(l)
    BY DEF ManualPreview, AuthorityLapses, ladderVars
  <1>5. \A l \in Ladders : ~(OpenStep(l) \/ ApprovalMined(l) \/ Mined(l) \/ WorkerProjects(l) \/ Ages(l))
    BY OpenStepBot DEF botVars
  <1> QED  BY <1>1, <1>2, <1>3, <1>4, <1>5 DEF Next

LEMMA PickEnds ==
    ASSUME OpenInv, [Next]_vars
    PROVE  picking' = picking \/ flow' = flow \/ OvertakePick \/ DepthPicked
  <1>1. CASE \/ NewFlow \/ SelectPool \/ Strategy \/ Back \/ OtherText \/ Cancel \/ Lapse
             \/ PickDepth \/ DepthPicked \/ AmountText
    BY <1>1 DEF NewFlow, SelectPool, Strategy, Back, OtherText, Cancel, Lapse, PickDepth,
                AmountText, Advance
  <1>2. ASSUME NEW e \in DOMAIN previews, PreviewStep(e) PROVE picking' = picking
    BY <1>2, PreviewStepStore DEF OpenInv
  <1>3. ASSUME NEW l \in Ladders, ManualPreview(l) \/ AuthorityLapses(l) \/ Confirm(l)
        PROVE  picking' = picking
    BY <1>3 DEF ManualPreview, AuthorityLapses, Confirm
  <1>4. ASSUME NEW l \in Ladders,
               OpenStep(l) \/ ApprovalMined(l) \/ Mined(l) \/ WorkerProjects(l) \/ Ages(l)
        PROVE  picking' = picking
    BY <1>4, OpenStepBot DEF botVars
  <1>5. Restart => flow' = flow
    BY DEF Restart
  <1>6. UNCHANGED vars => picking' = picking
    BY DEF vars
  <1> QED  BY <1>1, <1>2, <1>3, <1>4, <1>5, <1>6 DEF Next

(* An open starts from a preview that was shown without blockers, that      *)
(* nothing has overtaken and no other open has used; and a depth selection  *)
(* that was overtaken leaves the flow alone: whatever awaits, lapses or is  *)
(* answered late in between.                                                *)
THEOREM OvertakenWithoutEffect == Spec => OvertakenHasNoEffect
  <1> DEFINE Started ==
          opened' # opened =>
            LET e == opened'[Len(opened')] IN
            /\ previews[e].phase = "DELIVERED" /\ previews[e].ready
            /\ ~previews[e].overtaken
            /\ \A i \in DOMAIN opened : opened[i] # e
             Picked == (picking.overtaken /\ picking' = NoPick) => flow' = flow
  <1>1. OpenInv /\ [Next]_vars => Started
    <2> SUFFICES ASSUME OpenInv, [Next]_vars, opened' # opened PROVE Started
      OBVIOUS
    <2>1. PICK l \in Ladders : Confirm(l)
      BY OpenedByConfirm
    <2>2. opened' = Append(opened, authority[l]) /\ authority[l] # 0
      BY <2>1 DEF Confirm, Authorized
    <2>3. /\ opened \in Seq(Previews) /\ authority[l] \in Previews
          /\ Grants(previews[authority[l]], l)
          /\ \A i \in DOMAIN opened : opened[i] # authority[l]
      BY <2>2, BoundsAssumption DEF OpenInv, BotInv, AuthoritySound, OpenedSound, Previews
    <2>4. opened'[Len(opened')] = authority[l]
      BY <2>2, <2>3, AppendProperties
    <2> QED  BY <2>3, <2>4 DEF Grants
  <1>2. OpenInv /\ [Next]_vars => Picked
    <2> SUFFICES ASSUME OpenInv, [Next]_vars, picking.overtaken, picking' = NoPick, flow' # flow
                 PROVE  FALSE
      OBVIOUS
    <2>1. picking \in Picks /\ PickSound(picking, flow) /\ picking # NoPick
      BY DEF OpenInv, BotInv, NoPick
    <2>2. ~OvertakePick
      <3>1. [picking EXCEPT !.overtaken = TRUE].overtaken = TRUE
        BY <2>1 DEF Picks
      <3> QED  BY <2>1, <3>1 DEF OvertakePick, NoPick
    <2>3. DepthPicked
      BY <2>1, <2>2, PickEnds
    <2>4. Applicable(picking.session, picking.revision)
      BY <2>3 DEF DepthPicked
    <2> QED  BY <2>1, <2>4 DEF Applicable, Live, PickSound, LoadedNow
  <1>3. OpenInv /\ [Next]_vars => [Started /\ Picked]_vars
    BY <1>1, <1>2
  <1> QED  BY <1>3, OpenInvariant, PTL DEF Spec, OvertakenHasNoEffect
=============================================================================
