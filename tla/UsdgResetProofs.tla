---------------------------- MODULE UsdgResetProofs ----------------------------
(***************************************************************************)
(* UsdgReset keeps its types, invests the principal of a lineage once,     *)
(* never mints a cancelled ladder and reopens nothing without the word of  *)
(* the user: for every bound, and whatever leases the callers have lost.   *)
(*                                                                         *)
(* Whether two callers meet on one ladder is decided by the rows and not   *)
(* by the lease.  A ladder that has been given a successor is over: it is  *)
(* CLOSED or CANCELLED and has no liquidity.  Only one ladder of the       *)
(* lineage has no successor, and only it can be invested.                  *)
(***************************************************************************)
EXTENDS UsdgReset, WellFoundedInduction, TLAPS

-----------------------------------------------------------------------------
(* The inductive invariant.                                                 *)

(* One ladder x, its row of the close, the status of its opening and        *)
(* whether it has liquidity.                                                *)
Sound(x, row, opened, alive) ==
    /\ alive => opened = "CONFIRMED"
    /\ x.status \in {"NONE", "CANCELLED"} => opened = "NONE"
    /\ x.status \in {"OPEN", "CLOSED"} => opened = "CONFIRMED"
    /\ row.status # "NONE" => x.status \in {"OPEN", "CLOSED"}
    /\ row.status = "CONFIRMED" => ~alive
    /\ x.status = "NONE" => x = Unborn
    /\ x.next # NULL => x.status \in {"CLOSED", "CANCELLED"} /\ ~alive
    /\ x.phase \in ClosePending \cup Converged => Manual(x)
    /\ x.phase \in Converged => Convergeable(x, row)
    /\ x.phase \in Reopening => x.reopen # NULL
    /\ x.phase = "BLOCKED" /\ x.reason = "JIT_EXHAUSTED" => Manual(x)

(* At most one ladder of the lineage has no successor.                      *)
OneLeaf(store) == \A l, m \in Ladders :
    /\ store[l].status # "NONE" /\ store[l].next = NULL
    /\ store[m].status # "NONE" /\ store[m].next = NULL
    => l = m

StoreGood(store, closes, opens, alive) ==
    /\ store \in [Ladders -> Ladder]
    /\ closes \in [Ladders -> Row] /\ opens \in [Ladders -> Row] /\ alive \in SUBSET Ladders
    /\ \A l \in Ladders : Sound(store[l], closes[l], opens[l].status, l \in alive)
    /\ OneLeaf(store)

StoreInv == StoreGood(ladder, close, open, live)

(* What a call knows of its ladders, between the awaits: its child is the   *)
(* child of its source, which nothing changes.                              *)
ChildLabels == {"open", "approve", "waitApproval", "mint", "sendOpen", "waitOpen", "complete",
                "drift", "rematerialize"}

CallSound(store, label, k) ==
    /\ label # "idle" => k.source \in Ladders /\ store[k.source].status # "NONE"
    /\ label \in ChildLabels \cup {"authorize"} => k.child \in Ladders
    /\ label \in ChildLabels => store[k.child].previous = k.source
    /\ label = "rematerialize" => k.jit < MaxJit

CallsInv ==
    /\ lease \in [Ladders -> Callers \cup {NULL}]
    /\ pc \in [Callers -> Labels] /\ call \in [Callers -> Call]
    /\ faults \in 0..MaxFaults
    /\ \A c \in Callers : CallSound(ladder, pc[c], call[c])

(* The columns that nothing else depends on.                                *)
AsideTyped == approval \in [Ladders -> RowStatuses] /\ realized \subseteq Ladders

ResetInv == StoreInv /\ CallsInv /\ AsideTyped

-----------------------------------------------------------------------------
(* The next ladder.                                                         *)

LEMMA LeastLadder ==
    ASSUME NEW S \in SUBSET Ladders, S # {}
    PROVE  \E l \in S : \A m \in S : l <= m
  <1>1. S \subseteq Nat
    BY BoundsAssumption DEF Ladders
  <1>2. PICK l \in S : \A m \in S : ~ (<<m, l>> \in OpToRel(<, Nat))
    BY <1>1, WFMin, NatLessThanWellFounded, Zenon
  <1>3. \A m \in S : ~ (m < l)
    BY <1>1, <1>2 DEF OpToRel
  <1> QED  BY <1>1, <1>3

LEMMA NextIsFresh == Fresh # {} => NextFresh \in Ladders /\ Status(NextFresh) = "NONE"
  <1> SUFFICES ASSUME Fresh # {} PROVE NextFresh \in Ladders /\ Status(NextFresh) = "NONE"
    OBVIOUS
  <1>1. Fresh \in SUBSET Ladders
    BY DEF Fresh
  <1>2. \E l \in Fresh : \A m \in Fresh : l <= m
    BY <1>1, LeastLadder
  <1>3. NextFresh \in Fresh
    BY <1>2 DEF NextFresh
  <1> QED  BY <1>3 DEF Fresh

-----------------------------------------------------------------------------
(* A ladder that becomes y.                                                 *)

Follows(x, y, row, opened, alive) ==
    /\ y \in Ladder /\ Sound(y, row, opened, alive)
    /\ y.next = x.next /\ y.previous = x.previous
    /\ y.status = "NONE" <=> x.status = "NONE"

(* A ladder that is there stays, and so does its predecessor.               *)
SameLineage(store, after) == \A m \in Ladders :
    /\ store[m].status # "NONE" => after[m].status # "NONE"
    /\ store[m].previous # NULL => after[m].previous = store[m].previous

LEMMA Becomes ==
    ASSUME NEW store, NEW closes, NEW opens, NEW alive, StoreGood(store, closes, opens, alive),
           NEW l \in Ladders, NEW y, Follows(store[l], y, closes[l], opens[l].status, l \in alive)
    PROVE  /\ StoreGood([store EXCEPT ![l] = y], closes, opens, alive)
           /\ SameLineage(store, [store EXCEPT ![l] = y])
  <1> DEFINE after == [store EXCEPT ![l] = y]
  <1>1. /\ after \in [Ladders -> Ladder] /\ after[l] = y
        /\ \A m \in Ladders \ {l} : after[m] = store[m]
    BY DEF StoreGood, Follows
  <1> HIDE DEF after
  <1>2. \A m \in Ladders : Sound(after[m], closes[m], opens[m].status, m \in alive)
    BY <1>1 DEF StoreGood, Follows
  <1>3. \A m \in Ladders : /\ after[m].next = store[m].next /\ after[m].previous = store[m].previous
                           /\ after[m].status = "NONE" <=> store[m].status = "NONE"
    BY <1>1 DEF Follows
  <1>4. OneLeaf(after)
    BY <1>3 DEF StoreGood, OneLeaf
  <1>5. StoreGood(after, closes, opens, alive)
    BY <1>1, <1>2, <1>4 DEF StoreGood
  <1>6. SameLineage(store, after)
    BY <1>3 DEF SameLineage
  <1> QED  BY <1>5, <1>6 DEF after

(* The ways in which the program rewrites the row of one ladder.            *)
LEMMA BlockedFollows ==
    ASSUME NEW x \in Ladder, NEW row \in Row, NEW opened, NEW alive, Sound(x, row, opened, alive),
           x.status # "NONE", NEW reason \in BlockReasons, reason = "JIT_EXHAUSTED" => Manual(x)
    PROVE  Follows(x, Blocked(x, reason), row, opened, alive)
  <1> DEFINE y == Blocked(x, reason)
  <1>1. /\ y \in Ladder /\ y.phase = "BLOCKED" /\ y.reason = reason
        /\ y.status = x.status /\ y.provenance = x.provenance /\ y.auth = x.auth
        /\ y.next = x.next /\ y.previous = x.previous
    BY DEF Blocked, Ladder, Phases, Terminal
  <1> HIDE DEF y
  <1>2. Sound(y, row, opened, alive)
    BY <1>1 DEF Sound, Manual, ClosePending, Converged, Immediate, Reopening
  <1> QED  BY <1>1, <1>2 DEF Follows, y

LEMMA OperatorClosedFollows ==
    ASSUME NEW x \in Ladder, NEW row \in Row, NEW opened, NEW alive, Sound(x, row, opened, alive),
           x.status # "NONE"
    PROVE  Follows(x, OperatorClosed(x), row, opened, alive)
  <1> DEFINE y == OperatorClosed(x)
  <1>1. /\ y \in Ladder /\ y.phase = "OPERATOR_CLOSED"
        /\ y.status = x.status /\ y.next = x.next /\ y.previous = x.previous
    BY DEF OperatorClosed, Ladder, Phases, Terminal
  <1> HIDE DEF y
  <1>2. Sound(y, row, opened, alive)
    BY <1>1 DEF Sound, ClosePending, Converged, Immediate, Reopening
  <1> QED  BY <1>1, <1>2 DEF Follows, y

LEMMA CloseConfirmedFollows ==
    ASSUME NEW x \in Ladder, NEW row \in Row, NEW opened, NEW alive, Sound(x, row, opened, alive),
           x.status # "NONE", Convergeable(x, row)
    PROVE  Follows(x, CloseConfirmed(x), row, opened, alive)
  <1> DEFINE y == CloseConfirmed(x)
  <1>1. /\ y \in Ladder /\ y.phase = "CLOSE_CONFIRMED"
        /\ y.status = x.status /\ y.provenance = x.provenance /\ y.auth = x.auth
        /\ y.next = x.next /\ y.previous = x.previous
    BY DEF CloseConfirmed, Ladder, Phases, Immediate, BlockReasons
  <1> HIDE DEF y
  <1>2. Sound(y, row, opened, alive)
    BY <1>1 DEF Sound, Manual, Convergeable, Reopening
  <1> QED  BY <1>1, <1>2 DEF Follows, y

(* An open ladder is closed, by one of the three provenances.               *)
ClosedBy(x, provenance) == [x EXCEPT !.status = "CLOSED", !.provenance = provenance]

LEMMA ClosedByFollows ==
    ASSUME NEW x \in Ladder, NEW row \in Row, NEW opened, NEW alive, Sound(x, row, opened, alive),
           x.status = "OPEN", NEW provenance \in Provenances
    PROVE  Follows(x, ClosedBy(x, provenance), row, opened, alive)
  <1> DEFINE y == ClosedBy(x, provenance)
  <1>1. /\ y \in Ladder /\ y.status = "CLOSED" /\ y.phase = x.phase /\ y.reason = x.reason
        /\ y.auth = x.auth /\ y.next = x.next /\ y.previous = x.previous /\ y.reopen = x.reopen
    BY DEF ClosedBy, Ladder, Statuses
  <1>2. x.phase \notin Converged
    BY DEF Sound, Convergeable
  <1> HIDE DEF y
  <1>3. Sound(y, row, opened, alive)
    BY <1>1, <1>2 DEF Sound, Manual
  <1> QED  BY <1>1, <1>3 DEF Follows, y

LEMMA FollowsTwice ==
    ASSUME NEW x, NEW y, NEW z, NEW row, NEW opened, NEW alive,
           Follows(x, y, row, opened, alive), Follows(y, z, row, opened, alive)
    PROVE  Follows(x, z, row, opened, alive)
  BY DEF Follows

LEMMA FollowsSame ==
    ASSUME NEW x \in Ladder, NEW row, NEW opened, NEW alive, Sound(x, row, opened, alive)
    PROVE  Follows(x, x, row, opened, alive)
  BY DEF Follows

(* The state of a ladder l, as its row of the store and what goes with it.  *)
SoundAt(l) == Sound(ladder[l], close[l], open[l].status, l \in live)
FollowsAt(l, y) == Follows(ladder[l], y, close[l], open[l].status, l \in live)

LEMMA LadderSound ==
    ASSUME StoreInv, NEW l \in Ladders
    PROVE  /\ ladder[l] \in Ladder /\ close[l] \in Row /\ open[l] \in Row
           /\ SoundAt(l) /\ FollowsAt(l, ladder[l])
  BY FollowsSame DEF StoreInv, StoreGood, SoundAt, FollowsAt

(* A step that rewrites one ladder as it may be, and no row of the journal. *)
LineageKept == SameLineage(ladder, ladder')

StoreKept == StoreInv' /\ LineageKept

LEMMA OneLadder ==
    ASSUME StoreInv, NEW l \in Ladders, NEW y, FollowsAt(l, y),
           ladder' = [ladder EXCEPT ![l] = y], UNCHANGED <<close, open, live>>
    PROVE  StoreKept
  <1> DEFINE after == [ladder EXCEPT ![l] = y]
  <1>1. /\ StoreGood(after, close, open, live)
        /\ SameLineage(ladder, after)
    <2>1. StoreGood(ladder, close, open, live)
      BY DEF StoreInv
    <2>2. Follows(ladder[l], y, close[l], open[l].status, l \in live)
      BY DEF FollowsAt
    <2>3. StoreGood(after, close, open, live)
      BY <2>1, <2>2, Becomes
    <2>4. SameLineage(ladder, after)
      BY <2>1, <2>2, Becomes
    <2> QED  BY <2>3, <2>4
  <1>2. ladder' = after
    OBVIOUS
  <1> HIDE DEF after
  <1> QED  BY <1>1, <1>2 DEF StoreKept, StoreInv, LineageKept

LEMMA NoLadder ==
    ASSUME StoreInv, UNCHANGED <<ladder, close, open, live>>
    PROVE  StoreKept
  BY DEF StoreKept, StoreInv, StoreGood, OneLeaf, LineageKept, SameLineage

(* What the convergences make of a ladder that is there.                    *)
LEMMA BlockedAt ==
    ASSUME StoreInv, NEW l \in Ladders, Status(l) # "NONE", NEW reason \in BlockReasons,
           reason = "JIT_EXHAUSTED" => Manual(ladder[l])
    PROVE  FollowsAt(l, Blocked(ladder[l], reason))
  BY LadderSound, BlockedFollows DEF SoundAt, FollowsAt, Status

LEMMA FuniClosedAt ==
    ASSUME StoreInv, NEW l \in Ladders, Status(l) # "NONE"
    PROVE  /\ FuniClosed(ladder[l]) \in Ladder /\ FollowsAt(l, FuniClosed(ladder[l]))
  <1> DEFINE x == ladder[l]
             y == IF x.status = "OPEN" THEN ClosedBy(x, "FUNI") ELSE x
             z == IF y.phase = "WATCHING" THEN OperatorClosed(y) ELSE y
  <1>1. FollowsAt(l, y)
    BY LadderSound, ClosedByFollows DEF SoundAt, FollowsAt, Provenances
  <1>2. y \in Ladder /\ y.status # "NONE" /\ Sound(y, close[l], open[l].status, l \in live)
    BY <1>1 DEF FollowsAt, Follows, Status
  <1>3. Follows(y, OperatorClosed(y), close[l], open[l].status, l \in live)
        /\ Follows(y, y, close[l], open[l].status, l \in live)
    BY <1>2, LadderSound, OperatorClosedFollows, FollowsSame
  <1>4. FuniClosed(x) = z
    BY DEF FuniClosed, ClosedBy
  <1> HIDE DEF y
  <1>5. FollowsAt(l, z)
    BY <1>1, <1>3, FollowsTwice DEF FollowsAt
  <1> QED  BY <1>4, <1>5 DEF FollowsAt, Follows

LEMMA ExternallyClosedAt ==
    ASSUME StoreInv, NEW l \in Ladders, Status(l) = "OPEN"
    PROVE  FollowsAt(l, ExternallyClosed(ladder[l]))
  <1> DEFINE x == ladder[l]
             y == ClosedBy(x, "UNKNOWN_EXTERNAL")
             z == IF y.phase \in Terminal THEN y ELSE Blocked(y, "OTHER")
  <1>1. FollowsAt(l, y)
    BY LadderSound, ClosedByFollows DEF SoundAt, FollowsAt, Provenances, Status
  <1>2. y \in Ladder /\ y.status # "NONE" /\ Sound(y, close[l], open[l].status, l \in live)
    BY <1>1 DEF FollowsAt, Follows, Status
  <1>3. Follows(y, Blocked(y, "OTHER"), close[l], open[l].status, l \in live)
        /\ Follows(y, y, close[l], open[l].status, l \in live)
    BY <1>2, LadderSound, BlockedFollows, FollowsSame DEF BlockReasons
  <1>4. ExternallyClosed(x) = z
    BY DEF ExternallyClosed, ClosedBy
  <1> HIDE DEF y
  <1>5. FollowsAt(l, z)
    BY <1>1, <1>3, FollowsTwice DEF FollowsAt
  <1> QED  BY <1>4, <1>5

LEMMA MirroredAt ==
    ASSUME StoreInv, NEW l \in Ladders, Status(l) = "OPEN"
    PROVE  /\ FollowsAt(l, Mirrored(ladder[l]))
           /\ FollowsAt(l, OperatorClosed(Mirrored(ladder[l])))
  <1> DEFINE y == Mirrored(ladder[l])
  <1>1. y = ClosedBy(ladder[l], "MIRROR")
    BY DEF Mirrored, ClosedBy
  <1>2. FollowsAt(l, y)
    BY <1>1, LadderSound, ClosedByFollows DEF SoundAt, FollowsAt, Provenances, Status
  <1> HIDE DEF y
  <1>3. y \in Ladder /\ y.status # "NONE" /\ Sound(y, close[l], open[l].status, l \in live)
    BY <1>2 DEF FollowsAt, Follows, Status
  <1>4. FollowsAt(l, OperatorClosed(y))
    BY <1>2, <1>3, LadderSound, OperatorClosedFollows, FollowsTwice DEF FollowsAt
  <1> QED  BY <1>2, <1>4 DEF y

LEMMA ParentConvergedAt ==
    ASSUME StoreInv, NEW l \in Ladders, Status(l) # "NONE"
    PROVE  FollowsAt(l, ParentConverged(l))
  <1> DEFINE x == ladder[l]
  <1>1. FollowsAt(l, Blocked(x, "OTHER")) /\ FollowsAt(l, x)
    BY BlockedAt, LadderSound DEF BlockReasons
  <1>2. FollowsAt(l, OperatorClosed(x))
    BY LadderSound, OperatorClosedFollows DEF SoundAt, FollowsAt, Status
  <1>3. Convergeable(x, close[l]) => FollowsAt(l, CloseConfirmed(x))
    BY LadderSound, CloseConfirmedFollows DEF SoundAt, FollowsAt, Status
  <1>4. ParentConverged(l) \in {x, Blocked(x, "OTHER"), OperatorClosed(x)}
        \/ (Convergeable(x, close[l]) /\ ParentConverged(l) = CloseConfirmed(x))
    BY DEF ParentConverged
  <1> QED  BY <1>1, <1>2, <1>3, <1>4

LEMMA ProjectedCloseAt ==
    ASSUME StoreInv, NEW l \in Ladders, Status(l) # "NONE",
           Phase(l) \in ClosePending => Convergeable(FuniClosed(ladder[l]), close[l])
    PROVE  FollowsAt(l, ProjectedClose(l))
  <1> DEFINE y == FuniClosed(ladder[l])
  <1>1. y \in Ladder /\ FollowsAt(l, y)
    BY FuniClosedAt
  <1>2. y.phase \in ClosePending => Phase(l) \in ClosePending
    BY LadderSound DEF FuniClosed, OperatorClosed, Phase, ClosePending, Ladder
  <1>3. ProjectedClose(l) = IF y.phase \in ClosePending THEN CloseConfirmed(y)
                            ELSE IF y.phase = "OPEN_PENDING" THEN OperatorClosed(y) ELSE y
    BY DEF ProjectedClose
  <1>4. y.phase \in ClosePending => Convergeable(y, close[l])
    BY <1>2
  <1> HIDE DEF y
  <1>5. y.status # "NONE" /\ Sound(y, close[l], open[l].status, l \in live)
    BY <1>1 DEF FollowsAt, Follows, Status
  <1>6. /\ Follows(y, OperatorClosed(y), close[l], open[l].status, l \in live)
        /\ Convergeable(y, close[l]) =>
               Follows(y, CloseConfirmed(y), close[l], open[l].status, l \in live)
    BY <1>1, <1>5, LadderSound, OperatorClosedFollows, CloseConfirmedFollows
  <1>7. /\ FollowsAt(l, OperatorClosed(y))
        /\ Convergeable(y, close[l]) => FollowsAt(l, CloseConfirmed(y))
    BY <1>1, <1>6, FollowsTwice DEF FollowsAt
  <1> QED  BY <1>1, <1>3, <1>4, <1>7

(* The phases after a confirmed close.                                      *)
LEMMA ReopenFollows ==
    ASSUME NEW x \in Ladder, NEW y \in Ladder, NEW row, NEW opened, NEW alive,
           Sound(x, row, opened, alive), x.status # "NONE", Convergeable(x, row),
           y.phase \in Converged, y.phase \in Reopening => y.reopen # NULL,
           y.status = x.status, y.provenance = x.provenance, y.auth = x.auth,
           y.next = x.next, y.previous = x.previous
    PROVE  Follows(x, y, row, opened, alive)
  <1>1. Sound(y, row, opened, alive)
    BY DEF Sound, Convergeable, Manual, Converged, Immediate
  <1> QED  BY <1>1 DEF Follows

(* A planned child of a blocked source is cancelled: it has no transaction. *)
LEMMA OrphanGood ==
    ASSUME NEW store, StoreGood(store, close, open, live), NEW l \in Ladders
    PROVE  /\ StoreGood(OrphanConverged(store, l), close, open, live)
           /\ SameLineage(store, OrphanConverged(store, l))
  <1> DEFINE k == IF store[l].reopen # NULL THEN store[l].reopen ELSE store[l].next
             x == store[k]
             b == Blocked(x, "OTHER")
             y == [b EXCEPT !.status = "CANCELLED"]
  <1>1. CASE ~Orphan(store, l)
    BY <1>1 DEF OrphanConverged, SameLineage
  <1>2. CASE Orphan(store, l)
    <2>1. /\ k # NULL /\ x.status = "PLANNED" /\ x.phase = "OPEN_PENDING" /\ open[k].status = "NONE"
      BY <1>2 DEF Orphan
    <2>2. k \in Ladders
      BY <2>1 DEF StoreGood, Ladder
    <2>3. x \in Ladder /\ Sound(x, close[k], open[k].status, k \in live)
      BY <2>2 DEF StoreGood
    <2>4. OrphanConverged(store, l) = [store EXCEPT ![k] = y]
      BY <1>2 DEF OrphanConverged
    <2> HIDE DEF x, k
    <2>5. /\ b \in Ladder /\ b.phase = "BLOCKED" /\ b.reason = "OTHER"
          /\ b.next = x.next /\ b.previous = x.previous
      BY <2>3 DEF Blocked, Ladder, Phases, Terminal, BlockReasons
    <2> HIDE DEF b
    <2>6. /\ y \in Ladder /\ y.phase = "BLOCKED" /\ y.reason = "OTHER" /\ y.status = "CANCELLED"
          /\ y.next = x.next /\ y.previous = x.previous
      BY <2>5 DEF Ladder, Statuses
    <2> HIDE DEF y
    <2>7. Sound(y, close[k], open[k].status, k \in live)
      BY <2>1, <2>3, <2>6 DEF Sound, ClosePending, Converged, Immediate, Reopening
    <2>8. Follows(store[k], y, close[k], open[k].status, k \in live)
      BY <2>1, <2>6, <2>7 DEF Follows, x
    <2>9. StoreGood([store EXCEPT ![k] = y], close, open, live)
      BY <2>2, <2>8, Becomes
    <2>10. SameLineage(store, [store EXCEPT ![k] = y])
      BY <2>2, <2>8, Becomes
    <2> QED  BY <2>4, <2>9, <2>10
  <1> QED  BY <1>1, <1>2

(* A successor is given to the one ladder that has none and is over.        *)
LEMMA CreatedGood ==
    ASSUME StoreInv, NEW p \in Ladders, Status(p) \in {"CLOSED", "CANCELLED"}, p \notin live,
           ladder[p].next = NULL, Fresh # {}
    PROVE  /\ StoreGood(Created(ladder, p, NextFresh), close, open, live)
           /\ SameLineage(ladder, Created(ladder, p, NextFresh))
           /\ \A m \in Ladders : Status(m) # "NONE" =>
                  /\ Created(ladder, p, NextFresh)[m] =
                         IF m = p THEN [ladder[p] EXCEPT !.next = NextFresh] ELSE ladder[m]
  <1> DEFINE k == NextFresh
             child == [Unborn EXCEPT !.status = "PLANNED", !.previous = p]
             parent == [ladder[p] EXCEPT !.next = k]
             after == Created(ladder, p, k)
  <1>1. k \in Ladders /\ ladder[k].status = "NONE" /\ k # p /\ NULL \notin Ladders
    BY NextIsFresh, BoundsAssumption DEF Status, Ladders
  <1>2. /\ ladder \in [Ladders -> Ladder]
        /\ \A m \in Ladders : Sound(ladder[m], close[m], open[m].status, m \in live)
        /\ OneLeaf(ladder)
    BY DEF StoreInv, StoreGood
  <1>3. Unborn \in Ladder /\ ladder[k] = Unborn
    <2>1. ladder[k] = Unborn
      BY <1>1, <1>2 DEF Sound
    <2> QED  BY <1>1, <1>2, <2>1
  <1>4. /\ child \in Ladder /\ child.status = "PLANNED" /\ child.previous = p /\ child.next = NULL
        /\ child.phase = "OPEN_PENDING"
    BY <1>3 DEF Unborn, Ladder, Statuses
  <1>5. /\ parent \in Ladder /\ parent.next = k /\ parent.previous = ladder[p].previous
        /\ parent.status = ladder[p].status /\ parent.phase = ladder[p].phase
        /\ parent.provenance = ladder[p].provenance /\ parent.auth = ladder[p].auth
        /\ parent.reason = ladder[p].reason /\ parent.reopen = ladder[p].reopen
    BY <1>1, <1>2 DEF Ladder
  <1>6. after = [ladder EXCEPT ![k] = child, ![p] = parent]
    BY <1>1, <1>2 DEF Created
  <1> HIDE DEF after, child, parent, k
  <1>7. /\ after \in [Ladders -> Ladder] /\ after[k] = child /\ after[p] = parent
        /\ \A m \in Ladders \ {k, p} : after[m] = ladder[m]
    BY <1>1, <1>2, <1>4, <1>5, <1>6
  <1>8. Sound(child, close[k], open[k].status, k \in live)
    <2>1. Sound(ladder[k], close[k], open[k].status, k \in live)
      BY <1>1, <1>2
    <2> QED  BY <1>1, <1>4, <2>1 DEF Sound, ClosePending, Converged, Immediate, Reopening
  <1>9. Sound(parent, close[p], open[p].status, p \in live)
    <2>1. Sound(ladder[p], close[p], open[p].status, p \in live)
      BY <1>2
    <2> QED  BY <1>5, <2>1 DEF Sound, Manual, Convergeable, Status
  <1>10. \A m \in Ladders : Sound(after[m], close[m], open[m].status, m \in live)
    BY <1>2, <1>7, <1>8, <1>9
  <1>11. \A m \in Ladders : after[m].status # "NONE" /\ after[m].next = NULL => m = k
    <2>1. \A m \in Ladders : ladder[m].status # "NONE" /\ ladder[m].next = NULL => m = p
      BY <1>2 DEF OneLeaf, Status
    <2> QED  BY <1>1, <1>5, <1>7, <2>1
  <1>12. OneLeaf(after)
    BY <1>11 DEF OneLeaf
  <1>13. StoreGood(after, close, open, live)
    BY <1>7, <1>10, <1>12 DEF StoreInv, StoreGood
  <1>14. SameLineage(ladder, after)
    BY <1>3, <1>4, <1>5, <1>7 DEF Unborn, SameLineage
  <1>15. \A m \in Ladders : Status(m) # "NONE" => after[m] = IF m = p THEN parent ELSE ladder[m]
    BY <1>1, <1>7 DEF Status
  <1> QED  BY <1>13, <1>14, <1>15 DEF after, parent, k

-----------------------------------------------------------------------------
(* The calls.                                                               *)

LEMMA CallSoundKept ==
    ASSUME CallsInv, LineageKept, NEW c \in Callers
    PROVE  CallSound(ladder', pc[c], call[c])
  <1>1. CallSound(ladder, pc[c], call[c]) /\ NULL \notin Ladders
    BY BoundsAssumption DEF CallsInv, Ladders
  <1> QED  BY <1>1 DEF CallSound, LineageKept, SameLineage, ChildLabels

LEMMA CallMoves ==
    ASSUME CallsInv, LineageKept, NEW c \in Callers, NEW label \in Labels, NEW k \in Call,
           pc' = [pc EXCEPT ![c] = label], call' = [call EXCEPT ![c] = k],
           CallSound(ladder', label, k),
           lease' \in [Ladders -> Callers \cup {NULL}], faults' \in 0..MaxFaults
    PROVE  CallsInv'
  <1>1. pc' \in [Callers -> Labels] /\ call' \in [Callers -> Call]
    BY DEF CallsInv
  <1>2. \A d \in Callers : CallSound(ladder', pc'[d], call'[d])
    BY CallSoundKept DEF CallsInv
  <1> QED  BY <1>1, <1>2 DEF CallsInv

LEMMA IdleSound == NoCall \in Call /\ \A store : CallSound(store, "idle", NoCall)
  BY BoundsAssumption DEF NoCall, Call, CallSound, ChildLabels

LEMMA ReleasedTyped ==
    ASSUME CallsInv, NEW c
    PROVE  Released(c) \in [Ladders -> Callers \cup {NULL}]
  BY DEF CallsInv, Released

LEMMA ExitKeeps ==
    ASSUME CallsInv, LineageKept, NEW c \in Callers, Exit(c)
    PROVE  CallsInv'
  <1>1. pc' = [pc EXCEPT ![c] = "idle"] /\ call' = [call EXCEPT ![c] = NoCall]
        /\ lease' = Released(c) /\ faults' = faults
    BY DEF Exit, Goto
  <1> QED  BY <1>1, IdleSound, ReleasedTyped, CallMoves DEF Labels, CallsInv

LEMMA ContinueKeeps ==
    ASSUME CallsInv, LineageKept, NEW c \in Callers, NEW label \in Labels,
           CallSound(ladder', label, call[c]), Continue(c, label)
    PROVE  CallsInv'
  <1>1. /\ pc' = [pc EXCEPT ![c] = label] /\ call' = [call EXCEPT ![c] = call[c]]
        /\ lease' = lease /\ faults' = faults /\ call[c] \in Call
    BY DEF Continue, Goto, CallsInv
  <1> QED  BY <1>1, CallMoves DEF CallsInv

(* The labels of a source, and those of a child.                            *)
LEMMA ContinueAtSource ==
    ASSUME CallsInv, LineageKept, NEW c \in Callers, pc[c] # "idle",
           NEW label \in Labels \ (ChildLabels \cup {"authorize"}), Continue(c, label)
    PROVE  CallsInv'
  <1>1. CallSound(ladder', label, call[c])
    BY CallSoundKept DEF CallSound, ChildLabels
  <1> QED  BY <1>1, ContinueKeeps

LEMMA ContinueAtChild ==
    ASSUME CallsInv, LineageKept, NEW c \in Callers, pc[c] \in ChildLabels,
           NEW label \in (ChildLabels \ {"rematerialize"}) \cup {"authorize"}, Continue(c, label)
    PROVE  CallsInv'
  <1>1. CallSound(ladder', label, call[c]) /\ label \in Labels
    BY CallSoundKept DEF CallSound, ChildLabels, Labels
  <1> QED  BY <1>1, ContinueKeeps

(* Every call of the process ends.                                          *)
LEMMA AllIdleKeeps ==
    ASSUME CallsInv, pc' = [c \in Callers |-> "idle"], call' = [c \in Callers |-> NoCall],
           lease' = lease, faults' \in 0..MaxFaults
    PROVE  CallsInv'
  BY IdleSound DEF CallsInv, Labels

LEMMA CallsStay ==
    ASSUME CallsInv, LineageKept, UNCHANGED calls
    PROVE  CallsInv'
  BY CallSoundKept DEF CallsInv, calls

-----------------------------------------------------------------------------
(* The steps of a call.                                                     *)

LEMMA SourceThere ==
    ASSUME ResetInv, NEW c \in Callers, pc[c] # "idle"
    PROVE  Source(c) \in Ladders /\ Status(Source(c)) # "NONE"
  BY DEF ResetInv, CallsInv, CallSound, Source, Status

LEMMA ChildThere ==
    ASSUME ResetInv, NEW c \in Callers, pc[c] \in ChildLabels
    PROVE  /\ Child(c) \in Ladders /\ Status(Child(c)) # "NONE"
           /\ ladder[Child(c)].previous = Source(c) /\ Source(c) # NULL
  <1>1. Child(c) \in Ladders /\ ladder[Child(c)].previous = Source(c)
    BY DEF ResetInv, CallsInv, CallSound, Source, Child
  <1>2. Source(c) # NULL
    BY SourceThere, BoundsAssumption DEF ChildLabels, Ladders
  <1>3. SoundAt(Child(c))
    BY <1>1, LadderSound DEF ResetInv
  <1> QED  BY <1>1, <1>2, <1>3 DEF SoundAt, Sound, Unborn, Status

LEMMA StepKeeps ==
    ASSUME ResetInv, StoreKept, CallsInv', UNCHANGED <<approval, realized>>
    PROVE  ResetInv'
  BY DEF ResetInv, StoreKept, AsideTyped

LEMMA OutsideKeeps ==
    ASSUME ResetInv, StoreKept, UNCHANGED <<approval, realized, calls>>
    PROVE  ResetInv'
  <1>1. CallsInv'
    BY CallsStay DEF ResetInv, StoreKept
  <1> QED  BY <1>1, StepKeeps

LEMMA DispatchKeeps ==
    ASSUME ResetInv, NEW c \in Callers, NEW l \in Ladders, Status(l) # "NONE",
           NEW periodic \in BOOLEAN, Dispatch(c, l, periodic)
    PROVE  ResetInv'
  <1> DEFINE k == [NoCall EXCEPT !.source = l, !.periodic = periodic]
  <1>1. /\ k \in Call /\ k.source = l
    BY IdleSound DEF Call
  <1>2. /\ call' = [call EXCEPT ![c] = k] /\ pc' = [pc EXCEPT ![c] = "check"]
        /\ lease' = [lease EXCEPT ![l] = c] /\ faults' = faults
        /\ UNCHANGED <<ladder, rows, live, realized>>
    BY DEF Dispatch, Acquire, Goto
  <1> HIDE DEF k
  <1>3. StoreKept
    BY <1>2, NoLadder DEF ResetInv, rows
  <1>4. lease' \in [Ladders -> Callers \cup {NULL}] /\ faults' \in 0..MaxFaults
    BY <1>2 DEF ResetInv, CallsInv
  <1>5. CallSound(ladder', "check", k)
    BY <1>1, <1>2 DEF CallSound, ChildLabels, Status
  <1>6. CallsInv'
    BY <1>1, <1>2, <1>3, <1>4, <1>5, CallMoves DEF StoreKept, ResetInv, Labels
  <1> QED  BY <1>2, <1>3, <1>6, StepKeeps DEF rows

LEMMA BeginsKeeps ==
    ASSUME ResetInv, NEW l \in Ladders, Begins(l)
    PROVE  ResetInv'
  <1>1. SoundAt(l) /\ ladder[l] \in Ladder
    BY LadderSound DEF ResetInv
  <1>2. Phase(l) # "OPEN_PENDING" => Status(l) # "NONE"
    BY <1>1 DEF SoundAt, Sound, Unborn, Phase, Status
  <1>3. CASE UserConfirm(l)
    BY <1>3, DispatchKeeps DEF UserConfirm, Callers
  <1>4. CASE BotImmediate(l)
    BY <1>2, <1>4, DispatchKeeps DEF BotImmediate, ImmediateRow, Immediate, Reopening, Callers
  <1>5. CASE BotPeriodic(l)
    BY <1>2, <1>5, DispatchKeeps DEF BotPeriodic, ClosePending, Callers
  <1>6. CASE BotPassive(l)
    <2>1. FollowsAt(l, ParentConverged(l))
      BY <1>6, ParentConvergedAt DEF BotPassive, ResetInv
    <2>2. StoreKept
      BY <1>6, <2>1, OneLadder DEF BotPassive, ResetInv, rows
    <2> QED  BY <1>6, <2>2, OutsideKeeps DEF BotPassive, rows
  <1>7. CASE BotOrphan(l)
    <2>1. /\ ladder' = OrphanConverged(ladder, l) /\ UNCHANGED <<rows, live, realized, calls>>
      BY <1>7 DEF BotOrphan
    <2>2. StoreGood(ladder', close, open, live) /\ SameLineage(ladder, ladder')
      BY <2>1, OrphanGood DEF ResetInv, StoreInv
    <2>3. StoreKept
      BY <2>1, <2>2 DEF StoreKept, StoreInv, LineageKept, rows
    <2> QED  BY <2>1, <2>3, OutsideKeeps DEF rows
  <1> QED  BY <1>3, <1>4, <1>5, <1>6, <1>7 DEF Begins

LEMMA CheckKeeps ==
    ASSUME ResetInv, NEW c \in Callers, Check(c)
    PROVE  ResetInv'
  <1> DEFINE l == Source(c)
  <1>1. l \in Ladders /\ Status(l) # "NONE" /\ pc[c] = "check"
    BY SourceThere DEF Check
  <1>2. UNCHANGED <<rows, live, realized>>
    BY DEF Check
  <1>3. FollowsAt(l, ParentConverged(l))
    BY <1>1, ParentConvergedAt DEF ResetInv
  <1>4. ladder' = ladder \/ ladder' = [ladder EXCEPT ![l] = ParentConverged(l)]
    BY DEF Check
  <1>5. StoreKept
    BY <1>1, <1>2, <1>3, <1>4, NoLadder, OneLadder DEF ResetInv, rows
  <1>6. Exit(c) \/ Continue(c, "route")
    BY DEF Check
  <1>7. CallsInv'
    BY <1>1, <1>5, <1>6, ExitKeeps, ContinueAtSource DEF ResetInv, StoreKept, Labels, ChildLabels
  <1> QED  BY <1>2, <1>5, <1>7, StepKeeps DEF rows

LEMMA ConflictKept ==
    ASSUME ResetInv, NEW c \in Callers, pc[c] # "idle", Conflict(c, Source(c)),
           UNCHANGED <<close, open, live>>
    PROVE  StoreKept
  <1> DEFINE l == Source(c)
             y == IF call[c].periodic THEN Blocked(ladder[l], "OTHER") ELSE ladder[l]
  <1>1. l \in Ladders /\ Status(l) # "NONE"
    BY SourceThere
  <1>2. FollowsAt(l, y)
    BY <1>1, BlockedAt, LadderSound DEF ResetInv, BlockReasons
  <1>3. ladder' = [ladder EXCEPT ![l] = y]
    BY DEF Conflict
  <1> HIDE DEF y
  <1> QED  BY <1>1, <1>2, <1>3, OneLadder DEF ResetInv

LEMMA CloseConfirmedAt ==
    ASSUME StoreInv, NEW l \in Ladders, Status(l) # "NONE", Convergeable(ladder[l], close[l])
    PROVE  FollowsAt(l, CloseConfirmed(ladder[l]))
  BY LadderSound, CloseConfirmedFollows DEF SoundAt, FollowsAt, Status

LEMMA RouteKeeps ==
    ASSUME ResetInv, NEW c \in Callers, Route(c)
    PROVE  ResetInv'
  <1> DEFINE l == Source(c)
  <1>1. l \in Ladders /\ Status(l) # "NONE" /\ pc[c] = "route" /\ UNCHANGED <<rows, live, realized>>
    BY SourceThere DEF Route
  <1>2. StoreKept
    <2>1. CASE ladder' = ladder
      BY <1>1, <2>1, NoLadder DEF ResetInv, rows
    <2>2. CASE ladder' = [ladder EXCEPT ![l] = Blocked(@, "OTHER")]
      BY <1>1, <2>2, BlockedAt, OneLadder DEF ResetInv, rows, BlockReasons
    <2>3. CASE /\ Convergeable(ladder[l], close[l])
               /\ ladder' = [ladder EXCEPT ![l] = CloseConfirmed(@)]
      BY <1>1, <2>3, CloseConfirmedAt, OneLadder DEF ResetInv, rows
    <2>4. CASE Conflict(c, l)
      BY <1>1, <2>4, ConflictKept DEF rows
    <2> QED  BY <2>1, <2>2, <2>3, <2>4 DEF Route, RouteClosing
  <1>3. \/ Exit(c)
        \/ \E label \in {"truth", "route", "close", "principal", "plan"} : Continue(c, label)
        \/ Phase(l) \in Reopening /\ WithChild(c, "authorize", ActiveChild(l)) /\ ladder' = ladder
    BY DEF Route, RouteClosing, Conflict, Asserted
  <1>4. CallsInv'
    <2>1. CASE Exit(c)
      BY <1>2, <2>1, ExitKeeps DEF ResetInv, StoreKept
    <2>2. ASSUME NEW label \in {"truth", "route", "close", "principal", "plan"}, Continue(c, label)
          PROVE  CallsInv'
      <3>1. label \in Labels \ (ChildLabels \cup {"authorize"}) /\ pc[c] # "idle"
        BY <1>1 DEF Labels, ChildLabels
      <3> QED  BY <1>2, <2>2, <3>1, ContinueAtSource DEF ResetInv, StoreKept
    <2>3. CASE Phase(l) \in Reopening /\ WithChild(c, "authorize", ActiveChild(l)) /\ ladder' = ladder
      <3> DEFINE k == [call[c] EXCEPT !.child = ActiveChild(l)]
      <3>1. SoundAt(l) /\ ladder[l] \in Ladder
        BY <1>1, LadderSound DEF ResetInv
      <3>2. ActiveChild(l) \in Ladders
        BY <2>3, <3>1 DEF SoundAt, Sound, ActiveChild, Ladder, Phase
      <3>3. k \in Call /\ k.source = l /\ k.child = ActiveChild(l)
        BY <3>2 DEF ResetInv, CallsInv, Call, Source
      <3>4. pc' = [pc EXCEPT ![c] = "authorize"] /\ call' = [call EXCEPT ![c] = k]
            /\ lease' = lease /\ faults' = faults
        BY <2>3 DEF WithChild, Goto
      <3> HIDE DEF k
      <3>5. CallSound(ladder', "authorize", k)
        BY <1>1, <2>3, <3>2, <3>3 DEF CallSound, ChildLabels, Status
      <3> QED  BY <1>2, <3>3, <3>4, <3>5, CallMoves DEF ResetInv, StoreKept, CallsInv, Labels
    <2> QED  BY <1>3, <2>1, <2>2, <2>3
  <1> QED  BY <1>1, <1>2, <1>4, StepKeeps DEF rows

(* A call that ends by a failure is like one that exits, but counted.       *)
LEMMA FailureKeeps ==
    ASSUME CallsInv, LineageKept, NEW c \in Callers,
           faults < MaxFaults, faults' = faults + 1, Goto(c, "idle"),
           call' = [call EXCEPT ![c] = NoCall], lease' = Released(c)
    PROVE  CallsInv'
  <1>1. faults' \in 0..MaxFaults
    BY BoundsAssumption DEF CallsInv
  <1> QED  BY <1>1, IdleSound, ReleasedTyped, CallMoves DEF Goto, Labels

LEMMA FailsKeeps ==
    ASSUME ResetInv, NEW c \in Callers, Fails(c)
    PROVE  ResetInv'
  <1>1. StoreKept
    BY NoLadder DEF Fails, ResetInv, rows
  <1>2. CallsInv'
    BY <1>1, FailureKeeps DEF Fails, ResetInv, StoreKept
  <1> QED  BY <1>1, <1>2, StepKeeps DEF Fails, rows

LEMMA ProofRefusedKeeps ==
    ASSUME ResetInv, NEW c \in Callers, ProofRefused(c)
    PROVE  ResetInv'
  <1> DEFINE l == Source(c)
             y == IF call[c].periodic /\ ladder[l].phase \notin Terminal
                  THEN Blocked(ladder[l], "OTHER") ELSE ladder[l]
  <1>1. l \in Ladders /\ Status(l) # "NONE"
    BY SourceThere DEF ProofRefused
  <1>2. FollowsAt(l, y)
    BY <1>1, BlockedAt, LadderSound DEF ResetInv, BlockReasons
  <1>3. ladder' = [ladder EXCEPT ![l] = y] /\ UNCHANGED <<rows, live, realized>>
    BY DEF ProofRefused
  <1> HIDE DEF y
  <1>4. StoreKept
    BY <1>1, <1>2, <1>3, OneLadder DEF ResetInv, rows
  <1>5. CallsInv'
    BY <1>4, FailureKeeps DEF ProofRefused, ResetInv, StoreKept
  <1> QED  BY <1>3, <1>4, <1>5, StepKeeps DEF rows

LEMMA TruthKeeps ==
    ASSUME ResetInv, NEW c \in Callers, Truth(c)
    PROVE  ResetInv'
  <1>1. pc[c] = "truth" /\ UNCHANGED <<ladder, rows, live, realized>>
        /\ (Exit(c) \/ Continue(c, "close"))
    BY DEF Truth, Asserted
  <1>2. StoreKept
    BY <1>1, NoLadder DEF ResetInv, rows
  <1>3. CallsInv'
    BY <1>1, <1>2, ExitKeeps, ContinueAtSource DEF ResetInv, StoreKept, Labels, ChildLabels
  <1> QED  BY <1>1, <1>2, <1>3, StepKeeps DEF rows

-----------------------------------------------------------------------------
(* The close.                                                               *)

(* The rows of the journal of one ladder change, and its liquidity.         *)
LEMMA RowsBecome ==
    ASSUME NEW store, NEW closes, NEW opens, NEW alive, StoreGood(store, closes, opens, alive),
           NEW l \in Ladders, NEW r \in Row, NEW o \in Row, NEW now \in SUBSET Ladders,
           now \ {l} = alive \ {l}, Sound(store[l], r, o.status, l \in now)
    PROVE  StoreGood(store, [closes EXCEPT ![l] = r], [opens EXCEPT ![l] = o], now)
  <1> DEFINE cl == [closes EXCEPT ![l] = r]
             op == [opens EXCEPT ![l] = o]
  <1>1. /\ cl \in [Ladders -> Row] /\ op \in [Ladders -> Row] /\ cl[l] = r /\ op[l] = o
        /\ \A m \in Ladders \ {l} :
               /\ cl[m] = closes[m] /\ op[m] = opens[m]
               /\ m \in now <=> m \in alive
    BY DEF StoreGood
  <1> HIDE DEF cl, op
  <1>2. \A m \in Ladders : Sound(store[m], cl[m], op[m].status, m \in now)
    <2> SUFFICES ASSUME NEW m \in Ladders PROVE Sound(store[m], cl[m], op[m].status, m \in now)
      OBVIOUS
    <2>1. CASE m = l
      BY <1>1, <2>1
    <2>2. CASE m # l
      <3>1. Sound(store[m], closes[m], opens[m].status, m \in alive)
        BY DEF StoreGood
      <3> QED  BY <1>1, <2>2, <3>1 DEF Sound
    <2> QED  BY <2>1, <2>2
  <1>3. StoreGood(store, cl, op, now)
    BY <1>1, <1>2 DEF StoreGood
  <1> QED  BY <1>3 DEF cl, op

(* The journal of one ladder moves, and no ladder.                          *)
LEMMA OneRow ==
    ASSUME StoreInv, NEW l \in Ladders, NEW r \in Row, NEW o \in Row, live' \in SUBSET Ladders,
           live' \ {l} = live \ {l}, Sound(ladder[l], r, o.status, l \in live'),
           close' = [close EXCEPT ![l] = r], open' = [open EXCEPT ![l] = o], ladder' = ladder
    PROVE  StoreKept
  <1>1. StoreGood(ladder, close, open, live)
    BY DEF StoreInv
  <1>2. StoreGood(ladder, [close EXCEPT ![l] = r], [open EXCEPT ![l] = o], live')
    BY <1>1, RowsBecome
  <1>3. StoreInv'
    BY <1>2 DEF StoreInv
  <1> QED  BY <1>3 DEF StoreKept, LineageKept, SameLineage

LEMMA CloseKept ==
    ASSUME ResetInv, NEW c \in Callers, Close(c)
    PROVE  StoreKept
  <1> DEFINE l == Source(c)
             x == ladder[l]
  <1>1. l \in Ladders /\ Status(l) # "NONE" /\ UNCHANGED <<live, realized>> /\ StoreInv
    BY SourceThere DEF Close, ResetInv
  <1>2. CASE UNCHANGED <<ladder, rows>>
    BY <1>1, <1>2, NoLadder DEF rows
  <1>3. CASE Status(l) = "OPEN" /\ ladder' = [ladder EXCEPT ![l] = Mirrored(@)] /\ UNCHANGED rows
    BY <1>1, <1>3, MirroredAt, OneLadder DEF rows
  <1>4. CASE /\ close[l].status \in {"NONE", "FAILED"} /\ close[l].tries < MaxTries
             /\ Status(l) = "OPEN" /\ MayPrepareClose(c, x)
             /\ close' = [close EXCEPT ![l] = [status |-> "PENDING", tries |-> @.tries + 1]]
             /\ ladder' = [ladder EXCEPT ![l] = PreparedClose(@)]
             /\ UNCHANGED <<open, approval>>
    <2> DEFINE r == [status |-> "PENDING", tries |-> close[l].tries + 1]
               y == PreparedClose(x)
    <2>1. x \in Ladder /\ close[l] \in Row /\ open[l] \in Row /\ SoundAt(l)
      BY <1>1, LadderSound
    <2>2. r \in Row /\ r.status = "PENDING"
      BY <1>4, <2>1, BoundsAssumption DEF Row, RowStatuses
    <2>3. x.status = "OPEN" /\ x.phase \notin Converged
      BY <1>4, <2>1 DEF Status, SoundAt, Sound, Convergeable
    <2>4. /\ y \in Ladder /\ y.status = "OPEN" /\ y.next = x.next /\ y.previous = x.previous
          /\ y.phase = "CLOSE_PREPARED" /\ Manual(y)
      BY <1>4, <2>1, <2>3 DEF PreparedClose, MayPrepareClose, Manual, Ladder, Phases, ClosePending
    <2>5. close' = [close EXCEPT ![l] = r] /\ ladder' = [ladder EXCEPT ![l] = y]
          /\ open' = [open EXCEPT ![l] = open[l]] /\ open' = open /\ live' = live
      BY <1>1, <1>4 DEF StoreInv, StoreGood
    <2> HIDE DEF r, y
    <2>6. Sound(x, r, open[l].status, l \in live)
      BY <2>1, <2>2, <2>3 DEF SoundAt, Sound
    <2>7. StoreGood(ladder, close', open', live)
      <3>1. StoreGood(ladder, close, open, live) /\ live \in SUBSET Ladders
        BY <1>1 DEF StoreInv, StoreGood
      <3>2. StoreGood(ladder, [close EXCEPT ![l] = r], [open EXCEPT ![l] = open[l]], live)
        BY <1>1, <2>1, <2>2, <2>6, <3>1, RowsBecome
      <3> QED  BY <2>5, <3>2
    <2>8. close'[l] = r /\ open'[l] = open[l]
      BY <1>1, <2>5 DEF StoreInv, StoreGood
    <2>9. Sound(y, r, open[l].status, l \in live)
      BY <2>1, <2>2, <2>3, <2>4, <2>6
         DEF Sound, Converged, Immediate, Reopening, ClosePending
    <2>10. Follows(ladder[l], y, close'[l], open'[l].status, l \in live)
      BY <2>3, <2>4, <2>8, <2>9 DEF Follows
    <2>11. StoreGood(ladder', close', open', live) /\ SameLineage(ladder, ladder')
      <3>1. StoreGood([ladder EXCEPT ![l] = y], close', open', live)
        BY <1>1, <2>7, <2>10, Becomes
      <3>2. SameLineage(ladder, [ladder EXCEPT ![l] = y])
        BY <1>1, <2>7, <2>10, Becomes
      <3> QED  BY <2>5, <3>1, <3>2
    <2> QED  BY <2>5, <2>11 DEF StoreKept, StoreInv, LineageKept
  <1> QED  BY <1>2, <1>3, <1>4 DEF Close

LEMMA CloseKeeps ==
    ASSUME ResetInv, NEW c \in Callers, Close(c)
    PROVE  ResetInv'
  <1>1. \/ Exit(c)
        \/ \E label \in {"waitClose", "joinClose", "closed", "sendClose"} : Continue(c, label)
    BY DEF Close
  <1>2. pc[c] # "idle"
    BY DEF Close
  <1>3. CallsInv'
    <2>1. {"waitClose", "joinClose", "closed", "sendClose"}
              \subseteq Labels \ (ChildLabels \cup {"authorize"})
      BY DEF Labels, ChildLabels
    <2> QED  BY <1>1, <1>2, <2>1, CloseKept, ExitKeeps, ContinueAtSource DEF ResetInv, StoreKept
  <1>4. UNCHANGED <<approval, realized>>
    BY DEF Close, rows
  <1> QED  BY <1>3, <1>4, CloseKept, StepKeeps

LEMMA SendCloseKeeps ==
    ASSUME ResetInv, NEW c \in Callers, SendClose(c)
    PROVE  ResetInv'
  <1> DEFINE l == Source(c)
             x == ladder[l]
             phase == IF x.phase = "CLOSE_PREPARED" THEN "CLOSE_SUBMITTED" ELSE x.phase
             y == [x EXCEPT !.phase = phase]
  <1>1. l \in Ladders /\ Status(l) # "NONE" /\ pc[c] \in {"sendClose", "joinClose"}
    BY SourceThere DEF SendClose
  <1>2. x \in Ladder /\ SoundAt(l)
    BY <1>1, LadderSound DEF ResetInv
  <1>3. ladder' = [ladder EXCEPT ![l] = y] /\ UNCHANGED <<rows, live, realized>>
        /\ (Continue(c, "waitClose") \/ Continue(c, "waitJoined"))
    BY DEF SendClose
  <1> HIDE DEF x
  <1>4. /\ y \in Ladder /\ y.status = x.status /\ y.next = x.next /\ y.previous = x.previous
        /\ y.auth = x.auth /\ y.provenance = x.provenance /\ y.reopen = x.reopen
        /\ y.reason = x.reason
        /\ y.phase = x.phase \/ (x.phase = "CLOSE_PREPARED" /\ y.phase = "CLOSE_SUBMITTED")
    BY <1>2 DEF Ladder, Phases, ClosePending
  <1>5. y = x \/ (x.phase = "CLOSE_PREPARED" /\ y.phase = "CLOSE_SUBMITTED")
    BY <1>2 DEF Ladder
  <1> HIDE DEF y
  <1>6. FollowsAt(l, y)
    BY <1>1, <1>2, <1>4, <1>5
       DEF FollowsAt, Follows, SoundAt, Sound, Status, x, Manual, ClosePending, Converged,
           Immediate, Reopening
  <1>7. StoreKept
    BY <1>1, <1>3, <1>6, OneLadder DEF ResetInv, rows
  <1>8. CallsInv'
    BY <1>1, <1>3, <1>7, ContinueAtSource DEF ResetInv, StoreKept, Labels, ChildLabels
  <1> QED  BY <1>3, <1>7, <1>8, StepKeeps DEF rows

LEMMA ProjectCloseKept ==
    ASSUME ResetInv, NEW l \in Ladders, ProjectClose(l), UNCHANGED <<close, open, live>>
    PROVE  StoreKept /\ realized' \subseteq Ladders
  <1>1. /\ close[l].status = "CONFIRMED" /\ ladder' = [ladder EXCEPT ![l] = ProjectedClose(l)]
        /\ Phase(l) \in ClosePending => Convergeable(FuniClosed(ladder[l]), close[l])
        /\ realized' = realized \cup {l}
    BY DEF ProjectClose, CloseProjectable
  <1>2. Status(l) # "NONE"
    BY <1>1, LadderSound DEF ResetInv, SoundAt, Sound, Status
  <1>3. FollowsAt(l, ProjectedClose(l))
    BY <1>1, <1>2, ProjectedCloseAt DEF ResetInv
  <1> QED  BY <1>1, <1>3, OneLadder DEF ResetInv, AsideTyped

LEMMA WaitCloseKeeps ==
    ASSUME ResetInv, NEW c \in Callers, WaitClose(c)
    PROVE  ResetInv'
  <1> DEFINE l == Source(c)
  <1>1. /\ l \in Ladders /\ pc[c] # "idle" /\ UNCHANGED <<rows, live>>
        /\ (Exit(c) \/ Continue(c, "closed"))
    BY SourceThere DEF WaitClose
  <1>2. \/ ProjectClose(l)
        \/ UNCHANGED <<ladder, realized>>
        \/ /\ Status(l) = "OPEN" /\ ladder' = [ladder EXCEPT ![l] = Mirrored(@)]
           /\ realized' = realized
    BY DEF WaitClose
  <1>3. StoreKept /\ realized' \subseteq Ladders
    <2>1. CASE ProjectClose(l)
      BY <1>1, <2>1, ProjectCloseKept DEF rows
    <2>2. CASE UNCHANGED <<ladder, realized>>
      BY <1>1, <2>2, NoLadder DEF ResetInv, AsideTyped, rows
    <2>3. CASE /\ Status(l) = "OPEN" /\ ladder' = [ladder EXCEPT ![l] = Mirrored(@)]
               /\ realized' = realized
      BY <1>1, <2>3, MirroredAt, OneLadder DEF ResetInv, AsideTyped, rows
    <2> QED  BY <1>2, <2>1, <2>2, <2>3
  <1>4. CallsInv'
    BY <1>1, <1>3, ExitKeeps, ContinueAtSource DEF ResetInv, StoreKept, Labels, ChildLabels
  <1> QED  BY <1>1, <1>3, <1>4 DEF ResetInv, StoreKept, AsideTyped, rows

LEMMA ClosedKeeps ==
    ASSUME ResetInv, NEW c \in Callers, Closed(c)
    PROVE  ResetInv'
  <1> DEFINE l == Source(c)
  <1>1. /\ l \in Ladders /\ Status(l) # "NONE" /\ pc[c] # "idle" /\ UNCHANGED <<rows, live, realized>>
        /\ (Exit(c) \/ Continue(c, "route"))
    BY SourceThere DEF Closed, Conflict
  <1>2. StoreKept
    <2>1. CASE ladder' = ladder
      BY <1>1, <2>1, NoLadder DEF ResetInv, rows
    <2>2. CASE /\ Convergeable(ladder[l], close[l])
               /\ ladder' = [ladder EXCEPT ![l] = CloseConfirmed(@)]
      BY <1>1, <2>2, CloseConfirmedAt, OneLadder DEF ResetInv, rows
    <2>3. CASE Conflict(c, l)
      BY <1>1, <2>3, ConflictKept DEF rows
    <2> QED  BY <2>1, <2>2, <2>3 DEF Closed
  <1>3. CallsInv'
    BY <1>1, <1>2, ExitKeeps, ContinueAtSource DEF ResetInv, StoreKept, Labels, ChildLabels
  <1> QED  BY <1>1, <1>2, <1>3, StepKeeps DEF rows

-----------------------------------------------------------------------------
(* The replacement.                                                         *)

LEMMA PrincipalKeeps ==
    ASSUME ResetInv, NEW c \in Callers, Principal(c)
    PROVE  ResetInv'
  <1> DEFINE l == Source(c)
             x == ladder[l]
             y == [x EXCEPT !.phase = "PRINCIPAL_RECONCILED"]
  <1>1. /\ l \in Ladders /\ Status(l) # "NONE" /\ pc[c] # "idle" /\ UNCHANGED <<rows, live, realized>>
        /\ Continue(c, "route")
    BY SourceThere DEF Principal
  <1>2. PICK proof \in Proofs(l) : ladder' = [ladder EXCEPT ![l] = Reconciled(@, proof)]
    BY DEF Principal
  <1>3. x \in Ladder /\ SoundAt(l) /\ FollowsAt(l, x) /\ FollowsAt(l, Blocked(x, "OTHER"))
    BY <1>1, LadderSound, BlockedAt DEF ResetInv, BlockReasons
  <1>4. CASE x.phase = "CLOSE_CONFIRMED"
    <2>1. /\ y \in Ladder /\ y.phase = "PRINCIPAL_RECONCILED" /\ y.status = x.status
          /\ y.provenance = x.provenance /\ y.auth = x.auth /\ y.next = x.next
          /\ y.previous = x.previous
      BY <1>3 DEF Ladder, Phases, Immediate
    <2>2. Convergeable(x, close[l])
      BY <1>3, <1>4 DEF SoundAt, Sound, Converged, Immediate
    <2> HIDE DEF y
    <2>3. FollowsAt(l, y)
      BY <1>1, <1>3, <2>1, <2>2, ReopenFollows
         DEF FollowsAt, SoundAt, Status, Converged, Immediate, Reopening
    <2>4. Reconciled(x, proof) \in {y, Blocked(x, "OTHER")}
      BY <1>4 DEF Reconciled, y
    <2>5. FollowsAt(l, Reconciled(x, proof))
      BY <1>3, <2>3, <2>4
    <2>6. StoreKept
      BY <1>1, <1>2, <2>5, OneLadder DEF ResetInv, rows
    <2>7. CallsInv'
      BY <1>1, <2>6, ContinueAtSource DEF ResetInv, StoreKept, Labels, ChildLabels
    <2> QED  BY <1>1, <2>6, <2>7, StepKeeps DEF rows
  <1>5. CASE x.phase # "CLOSE_CONFIRMED"
    <2>1. Reconciled(x, proof) = x
      BY <1>5 DEF Reconciled
    <2>2. StoreKept
      BY <1>1, <1>2, <1>3, <2>1, OneLadder DEF ResetInv, rows
    <2>3. CallsInv'
      BY <1>1, <2>2, ContinueAtSource DEF ResetInv, StoreKept, Labels, ChildLabels
    <2> QED  BY <1>1, <2>2, <2>3, StepKeeps DEF rows
  <1> QED  BY <1>4, <1>5

(* A source whose close is confirmed gets a child, or a child's successor,  *)
(* and is reopening.                                                        *)
LEMMA Reopens ==
    ASSUME StoreInv, NEW l \in Ladders, Convergeable(ladder[l], close[l]), NEW p \in Ladders,
           Status(p) \in {"CLOSED", "CANCELLED"}, p \notin live, ladder[p].next = NULL, Fresh # {},
           NEW y, y \in Ladder, y.phase = "REOPEN_PLANNED", y.reopen = NextFresh,
           \E x \in Ladder : /\ x = Created(ladder, p, NextFresh)[l]
                             /\ y.status = x.status /\ y.provenance = x.provenance
                             /\ y.auth = x.auth /\ y.next = x.next /\ y.previous = x.previous,
           ladder' = [Created(ladder, p, NextFresh) EXCEPT ![l] = y],
           UNCHANGED <<close, open, live>>
    PROVE  StoreKept
  <1> DEFINE created == Created(ladder, p, NextFresh)
             x == created[l]
  <1>1. StoreGood(created, close, open, live) /\ SameLineage(ladder, created)
    BY CreatedGood
  <1>2. Status(l) # "NONE" /\ NextFresh # NULL
    BY NextIsFresh, BoundsAssumption DEF Convergeable, Status, Ladders
  <1>3. x = IF l = p THEN [ladder[p] EXCEPT !.next = NextFresh] ELSE ladder[l]
    BY <1>2, CreatedGood
  <1>4. x.status = ladder[l].status /\ x.provenance = ladder[l].provenance /\ x.auth = ladder[l].auth
    BY <1>3, LadderSound DEF Ladder
  <1>5. Convergeable(x, close[l]) /\ x.status # "NONE"
    BY <1>2, <1>4 DEF Convergeable, Manual, Status
  <1> HIDE DEF created
  <1>6. x \in Ladder /\ Sound(x, close[l], open[l].status, l \in live)
    BY <1>1 DEF StoreGood
  <1>7. /\ y.status = x.status /\ y.provenance = x.provenance
        /\ y.auth = x.auth /\ y.next = x.next /\ y.previous = x.previous
    BY DEF created
  <1>8. Follows(x, y, close[l], open[l].status, l \in live)
    BY <1>2, <1>5, <1>6, <1>7, ReopenFollows DEF Converged, Immediate, Reopening
  <1>9. StoreGood([created EXCEPT ![l] = y], close, open, live)
    BY <1>1, <1>8, Becomes
  <1>10. SameLineage(created, [created EXCEPT ![l] = y])
    BY <1>1, <1>8, Becomes
  <1>11. ladder' = [created EXCEPT ![l] = y]
    BY DEF created
  <1>12. SameLineage(ladder, ladder')
    BY <1>1, <1>10, <1>11 DEF SameLineage
  <1> QED  BY <1>9, <1>11, <1>12 DEF StoreKept, StoreInv, LineageKept

(* A source that is reopening is closed by its own batch, and empty.        *)
LEMMA ConvergedAt ==
    ASSUME StoreInv, NEW l \in Ladders, Phase(l) \in Converged
    PROVE  /\ Convergeable(ladder[l], close[l]) /\ Status(l) = "CLOSED" /\ l \notin live
           /\ Manual(ladder[l])
  BY LadderSound DEF SoundAt, Sound, Phase, Status, Convergeable

LEMMA PlanChildKeeps ==
    ASSUME ResetInv, NEW c \in Callers, PlanChild(c)
    PROVE  ResetInv'
  <1> DEFINE l == Source(c)
  <1>1. /\ l \in Ladders /\ Status(l) # "NONE" /\ pc[c] # "idle" /\ UNCHANGED <<rows, live, realized>>
        /\ (Exit(c) \/ Continue(c, "route"))
    BY SourceThere DEF PlanChild, Blocks
  <1>2. StoreKept
    <2>1. CASE ladder' = ladder
      BY <1>1, <2>1, NoLadder DEF ResetInv, rows
    <2>2. CASE Blocks(c, {"PRINCIPAL_RECONCILED"}, "OTHER")
      <3>1. ladder' = ladder \/ ladder' = [ladder EXCEPT ![l] = Blocked(ladder[l], "OTHER")]
        BY <2>2 DEF Blocks, TransitionOnce
      <3> QED  BY <1>1, <2>1, <3>1, BlockedAt, OneLadder DEF ResetInv, rows, BlockReasons
    <2>3. CASE MayPlan(l) /\ Fresh # {} /\ ladder' = Planned(ladder, l, NextFresh)
      <3> DEFINE k == NextFresh
                 created == Created(ladder, l, k)
                 y == [created[l] EXCEPT !.phase = "REOPEN_PLANNED", !.reopen = k]
      <3>1. /\ Convergeable(ladder[l], close[l]) /\ Status(l) = "CLOSED" /\ l \notin live
            /\ ladder[l].next = NULL
        BY <1>1, <2>3, ConvergedAt DEF MayPlan, Converged, Immediate, ResetInv
      <3>2. StoreGood(created, close, open, live)
        BY <1>1, <2>3, <3>1, CreatedGood DEF ResetInv
      <3>3. ladder' = [created EXCEPT ![l] = y]
        BY <1>1, <2>3 DEF Planned
      <3>4. k \in Ladders
        BY <2>3, NextIsFresh
      <3> HIDE DEF created, k
      <3>5. created[l] \in Ladder
        BY <1>1, <3>2 DEF StoreGood
      <3>6. /\ y \in Ladder /\ y.phase = "REOPEN_PLANNED" /\ y.reopen = k
            /\ y.status = created[l].status /\ y.provenance = created[l].provenance
            /\ y.auth = created[l].auth /\ y.next = created[l].next
            /\ y.previous = created[l].previous
        BY <3>4, <3>5 DEF Ladder, Phases, Immediate, Reopening
      <3> HIDE DEF y
      <3> QED  BY <1>1, <2>3, <3>1, <3>3, <3>5, <3>6, Reopens DEF ResetInv, rows, created, k
    <2> QED  BY <2>1, <2>2, <2>3 DEF PlanChild
  <1>3. CallsInv'
    BY <1>1, <1>2, ExitKeeps, ContinueAtSource DEF ResetInv, StoreKept, Labels, ChildLabels
  <1> QED  BY <1>1, <1>2, <1>3, StepKeeps DEF rows

(* The catch clause blocks the source and cancels the child, or dies after  *)
(* the first of the two.                                                    *)
LEMMA TerminatesKeeps ==
    ASSUME ResetInv, NEW c \in Callers, pc[c] \in ChildLabels \cup {"authorize"},
           NEW reason \in BlockReasons, Terminates(c, reason), UNCHANGED <<close, open, live>>
    PROVE  StoreKept /\ CallsInv'
  <1> DEFINE l == Source(c)
             blocked == BlockedSource(l, reason)
  <1>1. l \in Ladders /\ Status(l) # "NONE"
    BY SourceThere DEF ChildLabels
  <1>2. CASE Exit(c) /\ UNCHANGED ladder
    <2>1. StoreKept
      BY <1>2, NoLadder DEF ResetInv
    <2> QED  BY <1>2, <2>1, ExitKeeps DEF ResetInv, StoreKept
  <1>3. ASSUME Phase(l) \in Reopening
        PROVE  StoreGood(blocked, close, open, live) /\ SameLineage(ladder, blocked)
    <2>1. Manual(ladder[l])
      BY <1>1, <1>3, ConvergedAt DEF Converged, Immediate, ResetInv
    <2>2. Follows(ladder[l], Blocked(ladder[l], reason), close[l], open[l].status, l \in live)
      BY <1>1, <2>1, BlockedAt DEF ResetInv, FollowsAt
    <2>3. blocked = [ladder EXCEPT ![l] = Blocked(ladder[l], reason)]
      BY DEF BlockedSource
    <2>4. StoreGood(ladder, close, open, live)
      BY DEF ResetInv, StoreInv
    <2>5. StoreGood([ladder EXCEPT ![l] = Blocked(ladder[l], reason)], close, open, live)
      BY <1>1, <2>2, <2>4, Becomes
    <2>6. SameLineage(ladder, [ladder EXCEPT ![l] = Blocked(ladder[l], reason)])
      BY <1>1, <2>2, <2>4, Becomes
    <2> QED  BY <2>3, <2>5, <2>6
  <1> HIDE DEF blocked
  <1>4. CASE Phase(l) \in Reopening /\ ladder' = OrphanConverged(blocked, l) /\ Exit(c)
    <2>1. StoreGood(ladder', close, open, live) /\ SameLineage(blocked, ladder')
      BY <1>1, <1>3, <1>4, OrphanGood
    <2>2. StoreKept
      BY <1>3, <1>4, <2>1 DEF StoreKept, StoreInv, LineageKept, SameLineage
    <2> QED  BY <1>4, <2>2, ExitKeeps DEF ResetInv, StoreKept
  <1>5. CASE /\ Phase(l) \in Reopening /\ ladder' = blocked
             /\ faults < MaxFaults /\ faults' = faults + 1
             /\ pc' = [d \in Callers |-> "idle"] /\ call' = [d \in Callers |-> NoCall]
             /\ UNCHANGED lease
    <2>1. StoreKept
      BY <1>3, <1>5 DEF StoreKept, StoreInv, LineageKept
    <2>2. faults' \in 0..MaxFaults
      BY <1>5, BoundsAssumption DEF ResetInv, CallsInv
    <2> QED  BY <1>5, <2>1, <2>2, AllIdleKeeps DEF ResetInv
  <1> QED  BY <1>2, <1>4, <1>5 DEF Terminates, blocked

LEMMA AuthorizeKeeps ==
    ASSUME ResetInv, NEW c \in Callers, Authorize(c)
    PROVE  ResetInv'
  <1>1. pc[c] = "authorize" /\ UNCHANGED <<rows, live, realized>>
    BY DEF Authorize
  <1>2. CASE ReplacementAuthorized(Source(c), Child(c)) /\ Continue(c, "open") /\ UNCHANGED ladder
    <2>1. StoreKept
      BY <1>1, <1>2, NoLadder DEF ResetInv, rows
    <2>2. CallSound(ladder, "authorize", call[c])
      BY <1>1 DEF ResetInv, CallsInv
    <2>3. CallSound(ladder', "open", call[c])
      BY <1>2, <2>2 DEF CallSound, ChildLabels, ReplacementAuthorized, Source, Child
    <2>4. CallsInv'
      BY <1>2, <2>1, <2>3, ContinueKeeps DEF ResetInv, StoreKept, Labels
    <2> QED  BY <1>1, <2>1, <2>4, StepKeeps DEF rows
  <1>3. CASE Terminates(c, "OTHER")
    BY <1>1, <1>3, TerminatesKeeps, StepKeeps DEF rows, BlockReasons
  <1> QED  BY <1>2, <1>3 DEF Authorize

(* A step of a call with a child that leaves all ladders as they are.       *)
LEMMA ChildContinues ==
    ASSUME ResetInv, NEW c \in Callers, pc[c] \in ChildLabels, UNCHANGED <<ladder, close, open, live>>,
           NEW label \in (ChildLabels \ {"rematerialize"}) \cup {"authorize"},
           Exit(c) \/ Continue(c, label)
    PROVE  StoreKept /\ CallsInv'
  <1>1. StoreKept
    BY NoLadder DEF ResetInv
  <1> QED  BY <1>1, ExitKeeps, ContinueAtChild DEF ResetInv, StoreKept

LEMMA OpenKeeps ==
    ASSUME ResetInv, NEW c \in Callers, Open(c)
    PROVE  ResetInv'
  <1>1. pc[c] \in ChildLabels /\ UNCHANGED <<rows, live, realized>>
    BY DEF Open, ChildLabels
  <1>2. \/ Terminates(c, "OTHER")
        \/ UNCHANGED ladder /\ (Exit(c) \/ Continue(c, "waitOpen") \/ Continue(c, "approve")
                                \/ Continue(c, "drift"))
    BY DEF Open, Drifts
  <1>3. StoreKept /\ CallsInv'
    BY <1>1, <1>2, TerminatesKeeps, ChildContinues DEF rows, ChildLabels, BlockReasons
  <1> QED  BY <1>1, <1>3, StepKeeps DEF rows

LEMMA ApproveKeeps ==
    ASSUME ResetInv, NEW c \in Callers, Approve(c)
    PROVE  ResetInv'
  <1>1. pc[c] \in ChildLabels /\ UNCHANGED <<close, open, live, realized>>
    BY DEF Approve, ChildLabels
  <1>2. \/ Terminates(c, "OTHER")
        \/ UNCHANGED ladder /\ (Continue(c, "mint") \/ Continue(c, "waitApproval"))
    BY DEF Approve
  <1>3. StoreKept /\ CallsInv'
    BY <1>1, <1>2, TerminatesKeeps, ChildContinues DEF ChildLabels, BlockReasons
  <1>4. approval' = approval \/ \E k : approval' = [approval EXCEPT ![k] = "PENDING"]
    BY DEF Approve
  <1>5. AsideTyped'
    BY <1>1, <1>4 DEF ResetInv, AsideTyped, RowStatuses
  <1> QED  BY <1>3, <1>5 DEF ResetInv, StoreKept

LEMMA WaitApprovalKeeps ==
    ASSUME ResetInv, NEW c \in Callers, WaitApproval(c)
    PROVE  ResetInv'
  <1>1. pc[c] \in ChildLabels /\ UNCHANGED <<rows, live, realized>>
    BY DEF WaitApproval, ChildLabels
  <1>2. Terminates(c, "OTHER") \/ (UNCHANGED ladder /\ Continue(c, "mint"))
    BY DEF WaitApproval
  <1>3. StoreKept /\ CallsInv'
    BY <1>1, <1>2, TerminatesKeeps, ChildContinues DEF rows, ChildLabels, BlockReasons
  <1> QED  BY <1>1, <1>3, StepKeeps DEF rows

(* A source that is reopening goes on to another phase with its child.      *)
LEMMA ReopeningAt ==
    ASSUME NEW opens, StoreGood(ladder, close, opens, live), NEW l \in Ladders,
           Phase(l) \in Reopening, NEW k \in Ladders, NEW phase \in Reopening \cup {"COMPLETED"}
    PROVE  Follows(ladder[l], [ladder[l] EXCEPT !.phase = phase, !.reopen = k],
                   close[l], opens[l].status, l \in live)
  <1> DEFINE x == ladder[l]
             y == [x EXCEPT !.phase = phase, !.reopen = k]
  <1>1. x \in Ladder /\ Sound(x, close[l], opens[l].status, l \in live)
    BY DEF StoreGood
  <1>2. x.phase \in Reopening /\ k # NULL
    BY BoundsAssumption DEF Phase, Ladders
  <1>3. Convergeable(x, close[l]) /\ x.status # "NONE"
    BY <1>1, <1>2 DEF Sound, Converged, Immediate, Convergeable
  <1> HIDE DEF x
  <1>4. /\ y \in Ladder /\ y.phase = phase /\ y.reopen = k /\ y.status = x.status
        /\ y.provenance = x.provenance /\ y.auth = x.auth /\ y.next = x.next
        /\ y.previous = x.previous
    BY <1>1 DEF Ladder, Phases, Immediate, Terminal
  <1> HIDE DEF y
  <1>5. y.phase \in Converged
    BY <1>4 DEF Converged, Immediate
  <1>6. Follows(x, y, close[l], opens[l].status, l \in live)
    BY <1>1, <1>2, <1>3, <1>4, <1>5, ReopenFollows
  <1> QED  BY <1>6 DEF x, y

(* The opening is prepared: a ladder that is planned gets a pending row, in *)
(* one transaction with the phase of its predecessor.                       *)
LEMMA PreparedOpenKept ==
    ASSUME StoreInv, NEW k \in Ladders, Status(k) = "PLANNED",
           ladder[k].previous \in Ladders, open[k].status \in {"NONE", "FAILED"},
           open[k].tries < MaxTries,
           open' = [open EXCEPT ![k] = [status |-> "PENDING", tries |-> @.tries + 1]],
           ladder' = PreparedOpen(k), UNCHANGED <<close, live>>
    PROVE  StoreKept
  <1> DEFINE p == ladder[k].previous
             o == [status |-> "PENDING", tries |-> open[k].tries + 1]
             y == [ladder[p] EXCEPT !.phase = "REOPEN_PREPARED", !.reopen = k]
  <1>1. ladder[k] \in Ladder /\ close[k] \in Row /\ open[k] \in Row /\ SoundAt(k)
        /\ StoreGood(ladder, close, open, live) /\ live \in SUBSET Ladders
    BY LadderSound DEF StoreInv, StoreGood
  <1>2. o \in Row /\ o.status = "PENDING" /\ open' = [open EXCEPT ![k] = o]
    BY <1>1, BoundsAssumption DEF Row, RowStatuses
  <1> HIDE DEF o
  <1>3. Sound(ladder[k], close[k], o.status, k \in live)
    BY <1>1, <1>2 DEF SoundAt, Sound, Status
  <1>4. StoreGood(ladder, close, open', live)
    <2>1. StoreGood(ladder, [close EXCEPT ![k] = close[k]], [open EXCEPT ![k] = o], live)
      BY <1>1, <1>2, <1>3, RowsBecome
    <2>2. [close EXCEPT ![k] = close[k]] = close
      BY <1>1 DEF StoreGood
    <2> QED  BY <1>2, <2>1, <2>2
  <1> HIDE DEF p
  <1>5. CASE p # NULL /\ Phase(p) = "REOPEN_PLANNED"
    <2>1. p \in Ladders
      BY DEF p
    <2>2. ladder' = [ladder EXCEPT ![p] = y]
      BY <1>1, <1>5, <2>1 DEF PreparedOpen, p, StoreGood
    <2>3. Follows(ladder[p], y, close[p], open'[p].status, p \in live)
      BY <1>4, <1>5, <2>1, ReopeningAt DEF Reopening
    <2> HIDE DEF y
    <2>4. StoreGood([ladder EXCEPT ![p] = y], close, open', live)
      BY <1>4, <2>1, <2>3, Becomes
    <2>5. SameLineage(ladder, [ladder EXCEPT ![p] = y])
      BY <1>4, <2>1, <2>3, Becomes
    <2> QED  BY <2>2, <2>4, <2>5 DEF StoreKept, StoreInv, LineageKept
  <1>6. CASE ~(p # NULL /\ Phase(p) = "REOPEN_PLANNED")
    <2>1. ladder' = ladder
      BY <1>6 DEF PreparedOpen, p
    <2> QED  BY <1>4, <2>1 DEF StoreKept, StoreInv, LineageKept, SameLineage
  <1> QED  BY <1>5, <1>6

LEMMA MintKeeps ==
    ASSUME ResetInv, NEW c \in Callers, Mint(c)
    PROVE  ResetInv'
  <1> DEFINE k == Child(c)
  <1>1. pc[c] \in ChildLabels /\ UNCHANGED <<close, approval, live, realized>>
    BY DEF Mint, ChildLabels
  <1>2. /\ k \in Ladders /\ ladder[k].previous \in Ladders
    BY <1>1, ChildThere, SourceThere DEF ChildLabels
  <1>3. CASE open' = open /\ Terminates(c, "OTHER")
    BY <1>1, <1>3, TerminatesKeeps, StepKeeps DEF BlockReasons
  <1>4. CASE /\ UNCHANGED <<ladder, open>>
             /\ Continue(c, "drift") \/ Continue(c, "sendOpen") \/ Continue(c, "waitOpen")
    BY <1>1, <1>4, ChildContinues, StepKeeps DEF ChildLabels
  <1>5. CASE /\ open[k].status \in {"NONE", "FAILED"} /\ open[k].tries < MaxTries /\ Admitted(k)
             /\ open' = [open EXCEPT ![k] = [status |-> "PENDING", tries |-> @.tries + 1]]
             /\ ladder' = PreparedOpen(k) /\ Continue(c, "sendOpen")
    <2>1. StoreKept
      BY <1>1, <1>2, <1>5, PreparedOpenKept DEF ResetInv, Admitted
    <2>2. CallsInv'
      BY <1>1, <1>5, <2>1, ContinueAtChild DEF ResetInv, StoreKept, ChildLabels
    <2> QED  BY <1>1, <2>1, <2>2, StepKeeps
  <1> QED  BY <1>3, <1>4, <1>5 DEF Mint, Drifts

LEMMA SendOpenKeeps ==
    ASSUME ResetInv, NEW c \in Callers, SendOpen(c)
    PROVE  ResetInv'
  <1> DEFINE k == Child(c)
             p == ladder[k].previous
             y == [ladder[p] EXCEPT !.phase = "REOPEN_SUBMITTED", !.reopen = k]
  <1>1. pc[c] \in ChildLabels /\ UNCHANGED <<rows, live, realized>> /\ Continue(c, "waitOpen")
    BY DEF SendOpen, ChildLabels
  <1>2. k \in Ladders /\ p \in Ladders /\ StoreGood(ladder, close, open, live)
    BY <1>1, ChildThere, SourceThere DEF ChildLabels, ResetInv, StoreInv
  <1>3. StoreKept
    <2>1. CASE Phase(p) = "REOPEN_PREPARED"
      <3>1. ladder' = [ladder EXCEPT ![p] = y]
        BY <1>2, <2>1 DEF SendOpen, StoreGood
      <3>2. FollowsAt(p, y)
        BY <1>2, <2>1, ReopeningAt DEF FollowsAt, Reopening
      <3> HIDE DEF y, p
      <3> QED  BY <1>1, <1>2, <3>1, <3>2, OneLadder DEF ResetInv, rows
    <2>2. CASE Phase(p) # "REOPEN_PREPARED"
      <3>1. ladder' = ladder
        BY <2>2 DEF SendOpen
      <3> QED  BY <1>1, <3>1, NoLadder DEF ResetInv, rows
    <2> QED  BY <2>1, <2>2
  <1>4. CallsInv'
    BY <1>1, <1>3, ContinueAtChild DEF ResetInv, StoreKept, ChildLabels
  <1> QED  BY <1>1, <1>3, <1>4, StepKeeps DEF rows

(* A planned ladder whose opening is confirmed is open.                     *)
LEMMA ProjectOpenKept ==
    ASSUME StoreInv, NEW l \in Ladders, ProjectOpen(l), UNCHANGED <<close, open, live>>
    PROVE  StoreKept
  <1> DEFINE x == ladder[l]
             y == [x EXCEPT !.status = "OPEN"]
  <1>1. x \in Ladder /\ SoundAt(l) /\ x.status = "PLANNED" /\ open[l].status = "CONFIRMED"
        /\ ladder' = [ladder EXCEPT ![l] = y]
    BY LadderSound DEF ProjectOpen, OpenProjectable, Status
  <1>2. x.phase \notin Converged
    BY <1>1 DEF SoundAt, Sound, Convergeable
  <1> HIDE DEF x
  <1>3. /\ y \in Ladder /\ y.status = "OPEN" /\ y.phase = x.phase /\ y.reason = x.reason
        /\ y.auth = x.auth /\ y.next = x.next /\ y.previous = x.previous /\ y.reopen = x.reopen
    BY <1>1 DEF Ladder, Statuses
  <1> HIDE DEF y
  <1>4. FollowsAt(l, y)
    BY <1>1, <1>2, <1>3 DEF FollowsAt, Follows, SoundAt, Sound, Manual, x
  <1> QED  BY <1>1, <1>4, OneLadder

LEMMA WaitOpenKeeps ==
    ASSUME ResetInv, NEW c \in Callers, WaitOpen(c)
    PROVE  ResetInv'
  <1>1. pc[c] \in ChildLabels /\ UNCHANGED <<rows, live, realized>>
        /\ (Exit(c) \/ Continue(c, "complete")) /\ (ProjectOpen(Child(c)) \/ UNCHANGED ladder)
    BY DEF WaitOpen, ChildLabels
  <1>2. Child(c) \in Ladders
    BY <1>1, ChildThere
  <1>3. StoreKept
    BY <1>1, <1>2, ProjectOpenKept, NoLadder DEF ResetInv, rows
  <1>4. CallsInv'
    BY <1>1, <1>3, ExitKeeps, ContinueAtChild DEF ResetInv, StoreKept, ChildLabels
  <1> QED  BY <1>1, <1>3, <1>4, StepKeeps DEF rows

LEMMA CompleteKeeps ==
    ASSUME ResetInv, NEW c \in Callers, Complete(c)
    PROVE  ResetInv'
  <1> DEFINE l == Source(c)
             k == Child(c)
             y == [ladder[l] EXCEPT !.phase = "COMPLETED", !.reopen = k]
  <1>1. pc[c] \in ChildLabels /\ pc[c] # "idle" /\ UNCHANGED <<rows, live, realized>> /\ Exit(c)
    BY DEF Complete, ChildLabels
  <1>2. l \in Ladders /\ k \in Ladders /\ StoreGood(ladder, close, open, live)
    BY <1>1, ChildThere, SourceThere DEF ResetInv, StoreInv
  <1>3. ladder' = IF Phase(l) \in Reopening THEN [ladder EXCEPT ![l] = y] ELSE ladder
    BY DEF Complete, TransitionOnce, Completed
  <1>4. Phase(l) \in Reopening => FollowsAt(l, y)
    BY <1>2, ReopeningAt DEF FollowsAt
  <1> HIDE DEF y
  <1>5. StoreKept
    BY <1>1, <1>2, <1>3, <1>4, OneLadder, NoLadder DEF ResetInv, rows
  <1>6. CallsInv'
    BY <1>1, <1>5, ExitKeeps DEF ResetInv, StoreKept
  <1> QED  BY <1>1, <1>5, <1>6, StepKeeps DEF rows

LEMMA DriftKeeps ==
    ASSUME ResetInv, NEW c \in Callers, Drift(c)
    PROVE  ResetInv'
  <1> DEFINE k == Child(c)
  <1>1. pc[c] \in ChildLabels /\ pc[c] # "idle" /\ UNCHANGED <<rows, live, realized>>
    BY DEF Drift, ChildLabels
  <1>2. k \in Ladders /\ ladder[k].previous = Source(c) /\ Source(c) \in Ladders
        /\ Status(Source(c)) # "NONE" /\ ladder[k] \in Ladder
    BY <1>1, ChildThere, SourceThere, LadderSound DEF ResetInv
  <1>3. CASE Terminates(c, "OTHER") \/ Terminates(c, "JIT_EXHAUSTED")
    BY <1>1, <1>3, TerminatesKeeps, StepKeeps DEF rows, BlockReasons
  <1>4. CASE Exit(c) /\ UNCHANGED ladder
    <2>1. StoreKept
      BY <1>1, <1>4, NoLadder DEF ResetInv, rows
    <2> QED  BY <1>1, <1>4, <2>1, ExitKeeps, StepKeeps DEF ResetInv, StoreKept, rows
  <1>5. CASE /\ ~JitExhausted(k) /\ Goto(c, "rematerialize")
             /\ call' = [call EXCEPT ![c].jit = ladder[k].jit]
             /\ UNCHANGED <<ladder, lease, faults>>
    <2> DEFINE next == [call[c] EXCEPT !.jit = ladder[k].jit]
    <2>1. StoreKept
      BY <1>1, <1>5, NoLadder DEF ResetInv, rows
    <2>2. ladder[k].jit \in 0..MaxJit /\ ladder[k].jit < MaxJit
      BY <1>2, <1>5, BoundsAssumption DEF JitExhausted, Ladder
    <2>3. /\ next \in Call /\ next.jit = ladder[k].jit
          /\ next.source = Source(c) /\ next.child = k
      BY <2>2 DEF ResetInv, CallsInv, Call, Source, Child
    <2>4. pc' = [pc EXCEPT ![c] = "rematerialize"] /\ call' = [call EXCEPT ![c] = next]
          /\ lease' = lease /\ faults' = faults /\ ladder' = ladder
      BY <1>5 DEF Goto
    <2> HIDE DEF next, k
    <2>5. CallSound(ladder', "rematerialize", next)
      BY <1>2, <2>2, <2>3, <2>4 DEF CallSound, ChildLabels, Status
    <2>6. CallsInv'
      BY <2>1, <2>3, <2>4, <2>5, CallMoves DEF ResetInv, StoreKept, CallsInv, Labels
    <2> QED  BY <1>1, <2>1, <2>6, StepKeeps DEF rows
  <1> QED  BY <1>3, <1>4, <1>5 DEF Drift

LEMMA RematerializeKeeps ==
    ASSUME ResetInv, NEW c \in Callers, Rematerialize(c)
    PROVE  ResetInv'
  <1> DEFINE k == Child(c)
             x == ladder[k]
             total == x.jit + 1
             y == [x EXCEPT !.jit = total]
  <1>1. pc[c] \in ChildLabels /\ pc[c] = "rematerialize" /\ UNCHANGED <<rows, live, realized>>
        /\ (Exit(c) \/ Continue(c, "authorize"))
    BY DEF Rematerialize, ChildLabels
  <1>2. k \in Ladders /\ Status(k) # "NONE" /\ x \in Ladder /\ SoundAt(k)
    BY <1>1, ChildThere, LadderSound DEF ResetInv
  <1>3. \/ ladder' = ladder
        \/ x.jit = call[c].jit /\ ladder' = [ladder EXCEPT ![k] = y]
    BY DEF Rematerialize
  <1>4. call[c].jit < MaxJit /\ call[c].jit \in 0..MaxJit
    BY <1>1 DEF ResetInv, CallsInv, CallSound, Call
  <1>5. ASSUME x.jit = call[c].jit, ladder' = [ladder EXCEPT ![k] = y] PROVE StoreKept
    <2>1. total \in 0..MaxJit
      BY <1>4, <1>5, BoundsAssumption
    <2> HIDE DEF total, x
    <2>2. /\ y \in Ladder /\ y.status = x.status /\ y.phase = x.phase /\ y.reason = x.reason
          /\ y.provenance = x.provenance /\ y.auth = x.auth /\ y.next = x.next
          /\ y.previous = x.previous /\ y.reopen = x.reopen
      BY <1>2, <2>1 DEF Ladder
    <2> HIDE DEF y
    <2>3. FollowsAt(k, y)
      BY <1>2, <2>2 DEF FollowsAt, Follows, SoundAt, Sound, Manual, Convergeable, Status, x
    <2> QED  BY <1>1, <1>2, <1>5, <2>3, OneLadder DEF ResetInv, rows
  <1>6. StoreKept
    BY <1>1, <1>3, <1>5, NoLadder DEF ResetInv, rows
  <1>7. CallsInv'
    BY <1>1, <1>6, ExitKeeps, ContinueAtChild DEF ResetInv, StoreKept
  <1> QED  BY <1>1, <1>6, <1>7, StepKeeps DEF rows

LEMMA WorksKeeps ==
    ASSUME ResetInv, NEW c \in Callers, Works(c)
    PROVE  ResetInv'
  BY CheckKeeps, RouteKeeps, TruthKeeps, CloseKeeps, SendCloseKeeps, WaitCloseKeeps, ClosedKeeps,
     PrincipalKeeps, PlanChildKeeps, AuthorizeKeeps, OpenKeeps, ApproveKeeps, WaitApprovalKeeps,
     MintKeeps, SendOpenKeeps, WaitOpenKeeps, CompleteKeeps, DriftKeeps, RematerializeKeeps
     DEF Works

-----------------------------------------------------------------------------
(* The chain, the other processes and the operator.                         *)

LEMMA SettleCloseKeeps ==
    ASSUME ResetInv, NEW l \in Ladders, NEW status \in {"CONFIRMED", "FAILED"},
           SettleClose(l, status)
    PROVE  ResetInv'
  <1> DEFINE r == [close[l] EXCEPT !.status = status]
  <1>1. /\ close[l].status = "PENDING" /\ close' = [close EXCEPT ![l] = r]
        /\ live' = IF status = "CONFIRMED" THEN live \ {l} ELSE live
        /\ UNCHANGED <<ladder, open, approval, realized, calls>>
    BY DEF SettleClose
  <1>2. close[l] \in Row /\ open[l] \in Row /\ SoundAt(l) /\ live \in SUBSET Ladders
        /\ StoreInv /\ open' = [open EXCEPT ![l] = open[l]]
    BY <1>1, LadderSound DEF ResetInv, StoreInv, StoreGood
  <1>3. r \in Row /\ r.status = status
    BY <1>2 DEF Row, RowStatuses
  <1> HIDE DEF r
  <1>4. live' \in SUBSET Ladders /\ live' \ {l} = live \ {l}
        /\ (l \in live' => l \in live) /\ (status = "CONFIRMED" => l \notin live')
    BY <1>1, <1>2
  <1>5. ladder[l].phase \notin Converged
    BY <1>1, <1>2 DEF SoundAt, Sound, Convergeable
  <1>6. Sound(ladder[l], r, open[l].status, l \in live')
    BY <1>1, <1>2, <1>3, <1>4, <1>5 DEF SoundAt, Sound
  <1>7. ladder' = ladder
    BY <1>1
  <1>8. StoreKept
    BY <1>1, <1>2, <1>3, <1>4, <1>6, <1>7, OneRow
  <1> QED  BY <1>1, <1>8, OutsideKeeps

LEMMA SettleOpenKeeps ==
    ASSUME ResetInv, NEW l \in Ladders, NEW status \in {"CONFIRMED", "FAILED"},
           SettleOpen(l, status)
    PROVE  ResetInv'
  <1> DEFINE o == [open[l] EXCEPT !.status = status]
  <1>1. /\ open[l].status = "PENDING" /\ open' = [open EXCEPT ![l] = o]
        /\ live' = IF status = "CONFIRMED" THEN live \cup {l} ELSE live
        /\ UNCHANGED <<ladder, close, approval, realized, calls>>
    BY DEF SettleOpen
  <1>2. close[l] \in Row /\ open[l] \in Row /\ SoundAt(l) /\ live \in SUBSET Ladders
        /\ StoreInv /\ close' = [close EXCEPT ![l] = close[l]] /\ ladder[l] \in Ladder
    BY <1>1, LadderSound DEF ResetInv, StoreInv, StoreGood
  <1>3. o \in Row /\ o.status = status
    BY <1>2 DEF Row, RowStatuses
  <1> HIDE DEF o
  <1>4. live' \in SUBSET Ladders /\ live' \ {l} = live \ {l}
        /\ (l \in live' => status = "CONFIRMED" \/ l \in live)
    BY <1>1, <1>2
  <1>5. ladder[l].status = "PLANNED"
    BY <1>1, <1>2 DEF SoundAt, Sound, Ladder, Statuses
  <1>6. Sound(ladder[l], close[l], o.status, l \in live')
    BY <1>1, <1>2, <1>3, <1>4, <1>5 DEF SoundAt, Sound, Convergeable
  <1>7. ladder' = ladder
    BY <1>1
  <1>8. StoreKept
    BY <1>1, <1>2, <1>3, <1>4, <1>6, <1>7, OneRow
  <1> QED  BY <1>1, <1>8, OutsideKeeps

LEMMA SettleKeeps ==
    ASSUME ResetInv, NEW l \in Ladders, Settle(l)
    PROVE  ResetInv'
  <1>1. PICK status \in {"CONFIRMED", "FAILED"} :
            SettleClose(l, status) \/ SettleOpen(l, status) \/ SettleApproval(l, status)
    BY DEF Settle
  <1>2. CASE SettleApproval(l, status)
    <2>1. approval' = [approval EXCEPT ![l] = status]
          /\ UNCHANGED <<ladder, close, open, live, realized, calls>>
      BY <1>2 DEF SettleApproval
    <2>2. StoreKept
      BY <2>1, NoLadder DEF ResetInv
    <2>3. CallsInv'
      BY <2>1, <2>2, CallsStay DEF ResetInv, StoreKept
    <2>4. AsideTyped'
      BY <2>1 DEF ResetInv, AsideTyped, RowStatuses
    <2> QED  BY <2>2, <2>3, <2>4 DEF ResetInv, StoreKept
  <1> QED  BY <1>1, <1>2, SettleCloseKeeps, SettleOpenKeeps

LEMMA ExternalCloseKeeps ==
    ASSUME ResetInv, NEW l \in Ladders, ExternalClose(l)
    PROVE  ResetInv'
  <1>1. live' = live \ {l} /\ UNCHANGED <<ladder, close, open, approval, realized, calls>>
    BY DEF ExternalClose, rows
  <1>2. close[l] \in Row /\ open[l] \in Row /\ SoundAt(l) /\ live \in SUBSET Ladders
        /\ StoreInv /\ close' = [close EXCEPT ![l] = close[l]] /\ open' = [open EXCEPT ![l] = open[l]]
    BY <1>1, LadderSound DEF ResetInv, StoreInv, StoreGood
  <1>3. live' \in SUBSET Ladders /\ live' \ {l} = live \ {l} /\ l \notin live'
    BY <1>1, <1>2
  <1>4. Sound(ladder[l], close[l], open[l].status, l \in live')
    BY <1>2, <1>3 DEF SoundAt, Sound
  <1>5. ladder' = ladder
    BY <1>1
  <1>6. StoreKept
    BY <1>2, <1>3, <1>4, <1>5, OneRow
  <1> QED  BY <1>1, <1>6, OutsideKeeps

(* The projections.                                                         *)
LEMMA ProjectsKeeps ==
    ASSUME ResetInv, NEW l \in Ladders,
           WorkerProjectsClose(l) \/ OperatorProjects(l) \/ WorkerProjectsOpen(l)
    PROVE  ResetInv'
  <1>1. CASE WorkerProjectsClose(l) \/ OperatorProjects(l)
    <2>1. ProjectClose(l) /\ UNCHANGED <<close, open, approval, live, calls>>
      BY <1>1 DEF WorkerProjectsClose, OperatorProjects, rows
    <2>2. StoreKept /\ realized' \subseteq Ladders
      BY <2>1, ProjectCloseKept
    <2>3. CallsInv'
      BY <2>1, <2>2, CallsStay DEF ResetInv, StoreKept
    <2> QED  BY <2>1, <2>2, <2>3 DEF ResetInv, StoreKept, AsideTyped
  <1>2. CASE WorkerProjectsOpen(l)
    <2>1. ProjectOpen(l) /\ UNCHANGED <<close, open, approval, live, realized, calls>>
      BY <1>2 DEF WorkerProjectsOpen, rows
    <2>2. StoreKept
      BY <2>1, ProjectOpenKept DEF ResetInv
    <2> QED  BY <2>1, <2>2, OutsideKeeps
  <1> QED  BY <1>1, <1>2

(* A step outside of the calls that rewrites one ladder alone.              *)
LEMMA OneLadderOutside ==
    ASSUME ResetInv, NEW l \in Ladders, NEW y, FollowsAt(l, y), ladder' = [ladder EXCEPT ![l] = y],
           UNCHANGED <<rows, live, realized, calls>>
    PROVE  ResetInv'
  <1>1. StoreKept
    BY OneLadder DEF ResetInv, rows
  <1> QED  BY <1>1, OutsideKeeps DEF rows

LEMMA ConvergeOpenPendingKeeps ==
    ASSUME ResetInv, NEW l \in Ladders, ConvergeOpenPending(l)
    PROVE  ResetInv'
  <1> DEFINE x == ladder[l]
             y == [x EXCEPT !.phase = "WATCHING"]
  <1>1. x.phase = "OPEN_PENDING" /\ x.status = "OPEN" /\ ladder' = [ladder EXCEPT ![l] = y]
        /\ UNCHANGED <<rows, live, realized, calls>>
    BY DEF ConvergeOpenPending, Phase, Status
  <1>2. x \in Ladder /\ SoundAt(l)
    BY LadderSound DEF ResetInv
  <1> HIDE DEF x
  <1>3. /\ y \in Ladder /\ y.phase = "WATCHING" /\ y.status = x.status
        /\ y.next = x.next /\ y.previous = x.previous
    BY <1>2 DEF Ladder, Phases
  <1> HIDE DEF y
  <1>4. FollowsAt(l, y)
    BY <1>1, <1>2, <1>3
       DEF FollowsAt, Follows, SoundAt, Sound, x, ClosePending, Converged, Immediate, Reopening
  <1> QED  BY <1>1, <1>4, OneLadderOutside

LEMMA ConvergeTerminalKeeps ==
    ASSUME ResetInv, NEW l \in Ladders, ConvergeTerminal(l)
    PROVE  ResetInv'
  <1>1. Status(l) = "OPEN" /\ UNCHANGED <<rows, live, realized, calls>>
        /\ \/ ladder' = [ladder EXCEPT ![l] = FuniClosed(ladder[l])]
           \/ ladder' = [ladder EXCEPT ![l] = ExternallyClosed(ladder[l])]
    BY DEF ConvergeTerminal
  <1>2. FollowsAt(l, FuniClosed(ladder[l])) /\ FollowsAt(l, ExternallyClosed(ladder[l]))
    BY <1>1, FuniClosedAt, ExternallyClosedAt DEF ResetInv
  <1> QED  BY <1>1, <1>2, OneLadderOutside

LEMMA OperatorCloseKeeps ==
    ASSUME ResetInv, NEW l \in Ladders, OperatorClose(l)
    PROVE  ResetInv'
  <1>1. Status(l) = "OPEN" /\ UNCHANGED <<open, approval, live, realized, calls>>
    BY DEF OperatorClose
  <1>2. CASE /\ close[l].tries < MaxTries /\ ladder' = ladder
             /\ close' = [close EXCEPT ![l] = [status |-> "PENDING", tries |-> @.tries + 1]]
    <2> DEFINE r == [status |-> "PENDING", tries |-> close[l].tries + 1]
    <2>1. close[l] \in Row /\ open[l] \in Row /\ SoundAt(l) /\ live' \in SUBSET Ladders
          /\ StoreInv /\ open' = [open EXCEPT ![l] = open[l]] /\ live' = live
      BY <1>1, LadderSound DEF ResetInv, StoreInv, StoreGood
    <2>2. r \in Row /\ r.status = "PENDING" /\ close' = [close EXCEPT ![l] = r]
      BY <1>2, <2>1, BoundsAssumption DEF Row, RowStatuses
    <2> HIDE DEF r
    <2>3. ladder[l].status = "OPEN" /\ ladder[l].phase \notin Converged
      BY <1>1, <2>1 DEF Status, SoundAt, Sound, Convergeable
    <2>4. Sound(ladder[l], r, open[l].status, l \in live')
      BY <2>1, <2>2, <2>3 DEF SoundAt, Sound
    <2>5. live' \ {l} = live \ {l}
      BY <2>1
    <2>6. StoreKept
      BY <1>2, <2>1, <2>2, <2>4, <2>5, OneRow
    <2> QED  BY <1>1, <2>6, OutsideKeeps
  <1>3. CASE /\ UNCHANGED close
             /\ \/ ladder' = [ladder EXCEPT ![l] = OperatorClosed(Mirrored(ladder[l]))]
                \/ ladder' = [ladder EXCEPT ![l] = Mirrored(ladder[l])]
    BY <1>1, <1>3, MirroredAt, OneLadderOutside DEF ResetInv, rows
  <1> QED  BY <1>2, <1>3 DEF OperatorClose

(* The operator blocks a reposition.                                        *)
LEMMA StopsKeeps ==
    ASSUME ResetInv, NEW l \in Ladders, CancelPreClose(l) \/ StopReplacement(l)
    PROVE  ResetInv'
  <1>1. Phase(l) # "OPEN_PENDING" /\ UNCHANGED <<rows, live, realized, calls>>
        /\ \/ ladder' = [ladder EXCEPT ![l] = Blocked(ladder[l], "CANCELLED_PRE_CLOSE")]
           \/ ladder' = [ladder EXCEPT ![l] = Blocked(ladder[l], "OPEN_STOPPED")]
    BY DEF CancelPreClose, StopReplacement
  <1>2. Status(l) # "NONE"
    BY <1>1, LadderSound DEF ResetInv, SoundAt, Sound, Unborn, Phase, Status
  <1>3. /\ FollowsAt(l, Blocked(ladder[l], "CANCELLED_PRE_CLOSE"))
        /\ FollowsAt(l, Blocked(ladder[l], "OPEN_STOPPED"))
    BY <1>2, BlockedAt DEF ResetInv, BlockReasons
  <1> QED  BY <1>1, <1>3, OneLadderOutside

(* The successor of the cancelled child is the new child of the source.     *)
LEMMA ResumeKeeps ==
    ASSUME ResetInv, NEW l \in Ladders, Resume(l)
    PROVE  ResetInv'
  <1> DEFINE p == ladder[l].next
             k == NextFresh
             created == Created(ladder, p, k)
             y == [created[l] EXCEPT !.phase = "REOPEN_PLANNED", !.reopen = k, !.reason = "NONE"]
  <1>1. /\ Status(l) = "CLOSED" /\ ladder[l].provenance = "FUNI" /\ Phase(l) = "BLOCKED"
        /\ ladder[l].reason = "JIT_EXHAUSTED" /\ close[l] = [status |-> "CONFIRMED", tries |-> 1]
        /\ p # NULL /\ Status(p) = "CANCELLED" /\ ladder[p].next = NULL /\ Fresh # {}
        /\ UNCHANGED <<rows, live, realized, calls>>
    BY DEF Resume
  <1>2. ladder[l] \in Ladder /\ SoundAt(l)
    BY LadderSound DEF ResetInv
  <1>3. p \in Ladders /\ Convergeable(ladder[l], close[l])
    BY <1>1, <1>2 DEF Ladder, SoundAt, Sound, Convergeable, Phase, Status
  <1>4. p \notin live
    BY <1>1, <1>3, LadderSound DEF ResetInv, SoundAt, Sound, Status
  <1>5. StoreGood(created, close, open, live)
    BY <1>1, <1>3, <1>4, CreatedGood DEF ResetInv
  <1>6. ladder' = [created EXCEPT ![l] = y]
    BY DEF Resume
  <1>7. k \in Ladders
    BY <1>1, NextIsFresh
  <1> HIDE DEF created, k, p
  <1>8. created[l] \in Ladder
    BY <1>5 DEF StoreGood
  <1>9. /\ y \in Ladder /\ y.phase = "REOPEN_PLANNED" /\ y.reopen = k
        /\ y.status = created[l].status /\ y.provenance = created[l].provenance
        /\ y.auth = created[l].auth /\ y.next = created[l].next
        /\ y.previous = created[l].previous
    BY <1>7, <1>8 DEF Ladder, Phases, Immediate, Reopening, BlockReasons
  <1> HIDE DEF y
  <1>10. StoreKept
    BY <1>1, <1>3, <1>4, <1>6, <1>8, <1>9, Reopens DEF ResetInv, rows, created, k
  <1> QED  BY <1>1, <1>10, OutsideKeeps DEF rows

LEMMA ExpirePlannedKeeps ==
    ASSUME ResetInv, NEW l \in Ladders, ExpirePlanned(l)
    PROVE  ResetInv'
  <1> DEFINE x == ladder[l]
             y == [x EXCEPT !.status = "CANCELLED"]
  <1>1. x.status = "PLANNED" /\ open[l].status = "NONE" /\ ladder' = [ladder EXCEPT ![l] = y]
        /\ UNCHANGED <<rows, live, realized, calls>>
    BY DEF ExpirePlanned, Expirable, Status
  <1>2. x \in Ladder /\ SoundAt(l)
    BY LadderSound DEF ResetInv
  <1>3. x.phase \notin Converged
    BY <1>1, <1>2 DEF SoundAt, Sound, Convergeable
  <1> HIDE DEF x
  <1>4. /\ y \in Ladder /\ y.status = "CANCELLED" /\ y.phase = x.phase /\ y.reason = x.reason
        /\ y.auth = x.auth /\ y.next = x.next /\ y.previous = x.previous /\ y.reopen = x.reopen
    BY <1>2 DEF Ladder, Statuses
  <1> HIDE DEF y
  <1>5. FollowsAt(l, y)
    BY <1>1, <1>2, <1>3, <1>4 DEF FollowsAt, Follows, SoundAt, Sound, Manual, x
  <1> QED  BY <1>1, <1>5, OneLadderOutside

LEMMA LeaseExpiresKeeps ==
    ASSUME ResetInv, NEW l \in Ladders, LeaseExpires(l)
    PROVE  ResetInv'
  <1>1. /\ lease' = [lease EXCEPT ![l] = NULL] /\ UNCHANGED <<ladder, rows, live, realized, pc, call>>
        /\ (faults < MaxFaults /\ faults' = faults + 1) \/ faults' = faults
    BY DEF LeaseExpires
  <1>2. StoreKept
    BY <1>1, NoLadder DEF ResetInv, rows
  <1>3. lease' \in [Ladders -> Callers \cup {NULL}]
    BY <1>1 DEF ResetInv, CallsInv
  <1>4. faults' \in 0..MaxFaults
    BY <1>1, BoundsAssumption DEF ResetInv, CallsInv
  <1>5. \A c \in Callers : CallSound(ladder', pc'[c], call'[c])
    BY <1>1, <1>2, CallSoundKept DEF ResetInv, StoreKept
  <1>6. CallsInv'
    BY <1>1, <1>3, <1>4, <1>5 DEF ResetInv, CallsInv
  <1> QED  BY <1>1, <1>2, <1>6, StepKeeps DEF rows

LEMMA OutsiderKeeps ==
    ASSUME ResetInv, NEW l \in Ladders, Outside(l)
    PROVE  ResetInv'
  BY SettleKeeps, ExternalCloseKeeps, ProjectsKeeps, ConvergeOpenPendingKeeps,
     ConvergeTerminalKeeps, OperatorCloseKeeps, StopsKeeps, ResumeKeeps, ExpirePlannedKeeps,
     LeaseExpiresKeeps DEF Outside

LEMMA BotCrashKeeps ==
    ASSUME ResetInv, BotCrash
    PROVE  ResetInv'
  <1>1. /\ pc' = [c \in Callers |-> "idle"] /\ call' = [c \in Callers |-> NoCall]
        /\ faults < MaxFaults /\ faults' = faults + 1 /\ UNCHANGED <<ladder, rows, live, realized, lease>>
    BY DEF BotCrash
  <1>2. StoreKept
    BY <1>1, NoLadder DEF ResetInv, rows
  <1>3. faults' \in 0..MaxFaults
    BY <1>1, BoundsAssumption DEF ResetInv, CallsInv
  <1>4. CallsInv'
    BY <1>1, <1>3, AllIdleKeeps DEF ResetInv
  <1> QED  BY <1>1, <1>2, <1>4, StepKeeps DEF rows

-----------------------------------------------------------------------------
(* The theorems.                                                            *)

LEMMA InitReset == Init => ResetInv
  <1> SUFFICES ASSUME Init PROVE ResetInv
    OBVIOUS
  <1> DEFINE root == [Unborn EXCEPT !.status = "OPEN"]
             first == [status |-> "CONFIRMED", tries |-> 1]
  <1>1. 1 \in Ladders /\ NULL \notin Ladders /\ 1 \in 0..MaxTries /\ 0 \in 0..MaxTries
        /\ 0 \in 0..MaxJit /\ 0 \in 0..MaxFaults
    BY BoundsAssumption DEF Ladders
  <1>2. Unborn \in Ladder /\ root \in Ladder /\ root.status = "OPEN" /\ root.next = NULL
        /\ root.phase = "OPEN_PENDING" /\ root.reason = "NONE"
    BY <1>1 DEF Unborn, Ladder, Statuses, Provenances, Phases, BlockReasons
  <1>3. NoRow \in Row /\ first \in Row /\ first.status = "CONFIRMED"
    BY <1>1 DEF NoRow, Row, RowStatuses
  <1>4. /\ Unborn.status = "NONE" /\ Unborn.next = NULL /\ Unborn.phase = "OPEN_PENDING"
        /\ NoRow.status = "NONE"
    BY DEF Unborn, NoRow
  <1>5. /\ ladder = [l \in Ladders |-> IF l = 1 THEN root ELSE Unborn]
        /\ close = [l \in Ladders |-> NoRow]
        /\ open = [l \in Ladders |-> IF l = 1 THEN first ELSE NoRow]
        /\ live = {1}
    BY DEF Init
  <1> HIDE DEF root, first
  <1>6. StoreInv
    <2>1. \A l \in Ladders : Sound(ladder[l], close[l], open[l].status, l \in live)
      BY <1>2, <1>3, <1>4, <1>5
         DEF Sound, ClosePending, Converged, Immediate, Reopening
    <2>2. OneLeaf(ladder)
      BY <1>4, <1>5 DEF OneLeaf
    <2>3. /\ ladder \in [Ladders -> Ladder] /\ close \in [Ladders -> Row]
          /\ open \in [Ladders -> Row] /\ live \in SUBSET Ladders
      BY <1>1, <1>2, <1>3, <1>5
    <2> QED  BY <2>1, <2>2, <2>3 DEF StoreInv, StoreGood
  <1>7. CallsInv
    BY <1>1, IdleSound DEF Init, CallsInv, Labels
  <1>8. AsideTyped
    BY DEF Init, AsideTyped, RowStatuses
  <1> QED  BY <1>6, <1>7, <1>8 DEF ResetInv

LEMMA ResetInductive == ResetInv /\ [Next]_vars => ResetInv'
  <1> SUFFICES ASSUME ResetInv, [Next]_vars PROVE ResetInv'
    OBVIOUS
  <1>1. ASSUME NEW c \in Callers, Steps(c) PROVE ResetInv'
    BY <1>1, WorksKeeps, FailsKeeps, ProofRefusedKeeps DEF Steps
  <1>2. ASSUME NEW l \in Ladders, Begins(l) \/ Outside(l) PROVE ResetInv'
    BY <1>2, BeginsKeeps, OutsiderKeeps
  <1>3. CASE UNCHANGED vars
    <2>1. UNCHANGED <<ladder, close, open, approval, live, realized, calls>>
      BY <1>3 DEF vars, rows
    <2>2. StoreKept
      BY <2>1, NoLadder DEF ResetInv
    <2> QED  BY <2>1, <2>2, OutsideKeeps
  <1> QED  BY <1>1, <1>2, <1>3, BotCrashKeeps DEF Next

LEMMA ResetInvariant == Spec => []ResetInv
  BY InitReset, ResetInductive, PTL DEF Spec

(* The store, the journal, the leases and the calls of a reposition keep    *)
(* their types: v4_bid_ladder_usdg_reset_v1 never holds a phase or a link   *)
(* that the code does not know.                                             *)
THEOREM ResetTyped == Spec => []TypeOK
  <1>1. ResetInv => TypeOK
    BY DEF ResetInv, StoreInv, StoreGood, CallsInv, AsideTyped, TypeOK
  <1> QED  BY <1>1, ResetInvariant, PTL

(* The principal of a lineage is invested once: at most one of its ladders  *)
(* has liquidity or a pending opening, however callers lose their leases,   *)
(* and whatever is retried, resumed, expired, or closed by others.          *)
THEOREM PrincipalInvestedOnce == Spec => []InvestedOnce
  <1>1. ResetInv => InvestedOnce
    <2> SUFFICES ASSUME ResetInv, NEW l \in Ladders, NEW m \in Ladders, Invested(l), Invested(m)
                 PROVE  l = m
      BY DEF InvestedOnce
    <2>1. ASSUME NEW n \in Ladders, Invested(n)
          PROVE  ladder[n].status # "NONE" /\ ladder[n].next = NULL
      BY <2>1, LadderSound DEF ResetInv, SoundAt, Sound, Invested
    <2> QED  BY <2>1 DEF ResetInv, StoreInv, StoreGood, OneLeaf
  <1> QED  BY <1>1, ResetInvariant, PTL

(* A cancelled ladder has no opening that has landed or may land: the       *)
(* expiry and the convergence of orphans do not race its admission.         *)
THEOREM CancelledLadderNeverMints == Spec => []CancelledNeverMints
  <1>1. ResetInv => CancelledNeverMints
    BY LadderSound DEF ResetInv, SoundAt, Sound, CancelledNeverMints, Status
  <1> QED  BY <1>1, ResetInvariant, PTL

(* A reposition that has prepared its close carries the word of the user,   *)
(* and one that reopens is closed by its own confirmed batch, the first.    *)
THEOREM RepositionedOnUserWord == Spec => []ManualAndClosed
  <1>1. ResetInv => ManualAndClosed
    BY LadderSound DEF ResetInv, SoundAt, Sound, ManualAndClosed, Phase
  <1> QED  BY <1>1, ResetInvariant, PTL
=============================================================================
