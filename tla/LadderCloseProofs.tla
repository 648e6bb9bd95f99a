--------------------------- MODULE LadderCloseProofs ---------------------------
(***************************************************************************)
(* LadderClose keeps its types, closes a ladder only when it is empty,     *)
(* accounts for it in one way and tells the chat of it once: for every set *)
(* of legs, readers and consumers and every bound.                         *)
(*                                                                         *)
(* Positions only ever lose their liquidity, so whatever a process has     *)
(* read of an empty leg stays true while it waits: that, said of each of   *)
(* the places where such a reading is kept, is the invariant.              *)
(***************************************************************************)
EXTENDS LadderClose, FiniteSetTheorems, TLAPS

-----------------------------------------------------------------------------
(* The inductive invariant.                                                 *)

Reading == {"full", "empty", "error"}

(* The changes of the chain are no more than the legs that have ended.      *)
LegsCounted == block <= Cardinality(Legs \ Full)

(* What the truth, a reader and the handler of the bot know to be empty.    *)
EmptyIsEmpty == \A l \in Legs : truth[l].verdict = "empty" => l \notin Full

ReadersKnow == \A r \in Readers : readers[r].seen # NULL =>
    /\ readers[r].seen \in [readers[r].legs -> Reading]
    /\ \A l \in readers[r].legs : readers[r].seen[l] = "empty" => l \notin Full

CallKnows == call.kind = "close" =>
    /\ close.row \in {"NONE", "FAILED"} /\ close.attempt < MaxAttempts
    /\ Full \subseteq call.active

(* A batch names every leg that is full, so that one that goes through      *)
(* leaves none.                                                             *)
RowKnows ==
    /\ close.outcome = "none" <=> close.row = "NONE"
    /\ close.outcome = "pending" =>
        close.row = "SENT" /\ close.target # {} /\ Full \subseteq close.target
    /\ close.outcome = "success" => close.row \in {"SENT", "CONFIRMED"} /\ Full = {}
    /\ close.outcome = "reverted" => close.row \in {"SENT", "FAILED"}

SettledElsewhere == settlement # "NONE" => ladder = "EXTERNAL_ONCHAIN_MUTATION"

LadderInv ==
    /\ TypeOK /\ LegsCounted
    /\ EmptyIsEmpty /\ ReadersKnow /\ CallKnows /\ RowKnows
    /\ ClosedIsEmpty /\ OneAccount /\ SettledElsewhere

(* One consumer at a time has begun with the card; one that is sending it   *)
(* has not shown it yet, and nobody can claim what it sends.                *)
CardKnows ==
    /\ \A c \in Consumers : card.at[c] # "idle" => \A d \in Consumers \ {c} : card.at[d] = "idle"
    /\ \A c \in Consumers : card.at[c] = "claimed" => card.status = "SENDING" /\ ~card.started
    /\ \A c \in Consumers : card.at[c] = "sending" =>
        /\ card.shown = 0 /\ card.status \in {"SENDING", "DELIVERY_UNCERTAIN"}
        /\ card.status = "SENDING" => card.started
    /\ (card.status = "SENDING" /\ ~card.started) \/ card.status \in {"NONE", "PENDING", "FAILED"}
        => card.shown = 0
    /\ card.status = "DELIVERED" => card.shown = 1
    /\ card.shown <= 1

CardBooked == card.status # "NONE" => close.booked

CloseInv == LadderInv /\ CardKnows /\ CardBooked

-----------------------------------------------------------------------------
(* The card.                                                                *)

(* What is written of a card when a consumer has finished with it.          *)
LEMMA FinishedCard ==
    ASSUME Card!TypeOK, NEW c \in Consumers, NEW status \in Card!Statuses, NEW shown \in 0..1,
           card.shown + shown <= 2, Card!Finishes(c, status, shown)
    PROVE  /\ card' \in [status : Card!Statuses, started : BOOLEAN,
                         at : [Consumers -> {"idle", "claimed", "sending"}], shown : 0..2]
           /\ card'.status = IF card.status = "SENDING" THEN status ELSE card.status
           /\ card'.started = IF card.status = "SENDING" THEN card.started /\ status # "PENDING"
                              ELSE card.started
           /\ card'.at = [card.at EXCEPT ![c] = "idle"]
           /\ card'.shown = card.shown + shown
  <1> DEFINE next == Card!Finalized(status)
  <1>1. /\ next \in [status : Card!Statuses, started : BOOLEAN,
                     at : [Consumers -> {"idle", "claimed", "sending"}], shown : 0..2]
        /\ next.status = IF card.status = "SENDING" THEN status ELSE card.status
        /\ next.started = IF card.status = "SENDING" THEN card.started /\ status # "PENDING"
                          ELSE card.started
        /\ next.at = card.at /\ next.shown = card.shown
    BY DEF Card!TypeOK, Card!Finalized
  <1>2. card' = [next EXCEPT !.at[c] = "idle", !.shown = @ + shown]
    BY DEF Card!Finishes
  <1> HIDE DEF next
  <1> DEFINE at == [next.at EXCEPT ![c] = "idle"]
             total == next.shown + shown
  <1>3. at \in [Consumers -> {"idle", "claimed", "sending"}] /\ total \in 0..2
    BY <1>1
  <1>4. card' = [next EXCEPT !.at = at, !.shown = total]
    BY <1>2
  <1>5. at = [card.at EXCEPT ![c] = "idle"] /\ total = card.shown + shown
    BY <1>1
  <1> HIDE DEF at, total
  <1> QED  BY <1>1, <1>3, <1>4, <1>5

(* Whatever a consumer does, a card is shown at most once.                  *)
LEMMA DeliveryKeeps ==
    ASSUME Card!TypeOK, CardKnows, Card!Deliver
    PROVE  (Card!TypeOK /\ CardKnows)' /\ (card'.status # "NONE" => card.status # "NONE")
  <1> USE DEF Card!TypeOK, Card!Statuses
  <1>1. CASE Card!Recover
    BY <1>1 DEF Card!Recover, Card!Ambiguous, CardKnows
  <1>2. ASSUME NEW c \in Consumers, Card!Claim(c)
        PROVE  (Card!TypeOK /\ CardKnows)' /\ (card'.status # "NONE" => card.status # "NONE")
    BY <1>2 DEF Card!Claim, CardKnows
  <1>3. ASSUME NEW c \in Consumers, Card!TruthFails(c)
        PROVE  (Card!TypeOK /\ CardKnows)' /\ (card'.status # "NONE" => card.status # "NONE")
    <2>1. card.at[c] = "claimed" /\ Card!Finishes(c, "PENDING", 0) /\ card.shown + 0 <= 2
      BY <1>3 DEF Card!TruthFails
    <2>2. /\ card' \in [status : Card!Statuses, started : BOOLEAN,
                        at : [Consumers -> {"idle", "claimed", "sending"}], shown : 0..2]
          /\ card'.status = IF card.status = "SENDING" THEN "PENDING" ELSE card.status
          /\ card'.at = [card.at EXCEPT ![c] = "idle"]
          /\ card'.shown = card.shown
      BY <2>1, FinishedCard
    <2> QED  BY <2>1, <2>2 DEF CardKnows
  <1>4. ASSUME NEW c \in Consumers, Card!StartSend(c)
        PROVE  (Card!TypeOK /\ CardKnows)' /\ (card'.status # "NONE" => card.status # "NONE")
    BY <1>4 DEF Card!StartSend, CardKnows
  <1>5. ASSUME NEW c \in Consumers, Card!Answered(c)
        PROVE  (Card!TypeOK /\ CardKnows)' /\ (card'.status # "NONE" => card.status # "NONE")
    <2>1. card.at[c] = "sending" /\ card.shown = 0
      BY <1>5 DEF Card!Answered, CardKnows
    <2>2. PICK status \in {"DELIVERED", "PENDING", "FAILED", "DELIVERY_UNCERTAIN"}, shown \in 0..1 :
               /\ Card!Finishes(c, status, shown)
               /\ status = "DELIVERED" => shown = 1
               /\ status \in {"PENDING", "FAILED"} => shown = 0
      BY <1>5 DEF Card!Answered
    <2>3. /\ card' \in [status : Card!Statuses, started : BOOLEAN,
                        at : [Consumers -> {"idle", "claimed", "sending"}], shown : 0..2]
          /\ card'.status = IF card.status = "SENDING" THEN status ELSE card.status
          /\ card'.at = [card.at EXCEPT ![c] = "idle"]
          /\ card'.shown = shown
      BY <2>1, <2>2, FinishedCard
    <2> QED  BY <2>1, <2>2, <2>3 DEF CardKnows
  <1>6. ASSUME NEW c \in Consumers, Card!Dies(c)
        PROVE  (Card!TypeOK /\ CardKnows)' /\ (card'.status # "NONE" => card.status # "NONE")
    <2>1. PICK shown \in IF card.at[c] = "sending" THEN 0..1 ELSE {0} :
               card' = [card EXCEPT !.at[c] = "idle", !.shown = @ + shown]
      BY <1>6 DEF Card!Dies
    <2>2. shown \in 0..1 /\ (card.at[c] # "sending" => shown = 0)
      BY <2>1
    <2>3. (card.at[c] = "claimed" \/ card.at[c] = "sending") /\ card.shown + shown \in 0..2
      BY <1>6, <2>2 DEF Card!Dies, CardKnows
    <2> DEFINE at == [card.at EXCEPT ![c] = "idle"]
               total == card.shown + shown
    <2>4. at \in [Consumers -> {"idle", "claimed", "sending"}]
      OBVIOUS
    <2>5. card' = [card EXCEPT !.at = at, !.shown = total]
      BY <2>1
    <2>6. Card!TypeOK' /\ card'.status = card.status /\ card'.started = card.started
          /\ card'.at = at /\ card'.shown = total
      <3> HIDE DEF at, total
      <3> QED  BY <2>3, <2>4, <2>5 DEF total
    <2>7. CardKnows'
      BY <2>2, <2>3, <2>6 DEF CardKnows
    <2> QED  BY <2>6, <2>7
  <1> QED  BY <1>1, <1>2, <1>3, <1>4, <1>5, <1>6 DEF Card!Deliver

(* A card that is made is to be sent; one that is there stays.              *)
LEMMA EnsuredKeeps ==
    ASSUME Card!TypeOK, CardKnows, card' \in {card, Card!Ensured}
    PROVE  (Card!TypeOK /\ CardKnows)'
  BY DEF Card!TypeOK, Card!Statuses, Card!Ensured, CardKnows

-----------------------------------------------------------------------------
(* The chain.                                                               *)

LegTruth == [verdict : Verdicts, block : Blocks, fresh : BOOLEAN]
LegMirror == [open : BOOLEAN, liquid : BOOLEAN]
CloseRows == [row : RowStatuses, outcome : Outcomes, target : SUBSET Legs,
              attempt : 0..MaxAttempts, booked : BOOLEAN]

(* The legs that have ended are finitely many, and a block that ends one    *)
(* more is still within the bound.                                          *)
LEMMA OneMoreEnds ==
    ASSUME LadderInv, chain' \in [Legs -> Fates], Full' \subseteq Full, Full' # Full,
           block' = block + 1
    PROVE  block' \in Blocks /\ LegsCounted'
  <1> DEFINE before == Legs \ Full
             after == Legs \ Full'
  <1>1. before \subseteq after /\ after \subseteq Legs /\ before # after
    BY DEF Full
  <1>2. IsFiniteSet(Legs) /\ IsFiniteSet(after) /\ IsFiniteSet(before)
    BY <1>1, FS_Subset, LegsAssumption
  <1>3. /\ Cardinality(before) \in Nat /\ Cardinality(after) \in Nat /\ Cardinality(Legs) \in Nat
        /\ Cardinality(before) <= Cardinality(after) /\ Cardinality(before) # Cardinality(after)
        /\ Cardinality(after) <= Cardinality(Legs)
    BY <1>1, <1>2, FS_Subset, FS_CardinalityType
  <1>4. block \in Nat /\ block <= Cardinality(before)
    BY <1>3 DEF LadderInv, TypeOK, Blocks, LegsCounted
  <1>5. LegsCounted' <=> block' <= Cardinality(after)
    BY DEF LegsCounted
  <1> HIDE DEF before, after
  <1> QED  BY <1>3, <1>4, <1>5 DEF Blocks

(* What is known to be empty stays empty when a leg ends.                   *)
LEMMA LegsEnd ==
    ASSUME LadderInv, chain' \in [Legs -> Fates], Full' \subseteq Full, Full' # Full,
           block' = block + 1, UNCHANGED <<recordVars, botVars, workVars, collect, claimed, card>>,
           CallKnows', RowKnows', OneAccount', close' \in CloseRows
    PROVE  LadderInv'
  <1> USE DEF recordVars, botVars, workVars
  <1>1. TypeOK' /\ LegsCounted'
    BY OneMoreEnds DEF LadderInv, TypeOK, CloseRows, Card!TypeOK
  <1>2. EmptyIsEmpty' /\ ReadersKnow'
    BY DEF LadderInv, EmptyIsEmpty, ReadersKnow
  <1>3. ClosedIsEmpty' /\ SettledElsewhere'
    BY DEF LadderInv, ClosedIsEmpty, SettledElsewhere
  <1> QED  BY <1>1, <1>2, <1>3 DEF LadderInv

LEMMA WithdrawKeeps ==
    ASSUME LadderInv, NEW l \in Legs, Withdraw(l), UNCHANGED card
    PROVE  LadderInv'
  <1>1. /\ chain' \in [Legs -> Fates] /\ Full' = Full \ {l} /\ l \in Full /\ block' = block + 1
        /\ UNCHANGED <<recordVars, rowVars, botVars, workVars>>
    BY DEF Withdraw, LadderInv, TypeOK, Full, Fates
  <1>2. CallKnows' /\ RowKnows' /\ OneAccount'
    BY <1>1 DEF LadderInv, CallKnows, RowKnows, OneAccount, rowVars, botVars, recordVars, workVars
  <1> QED  BY <1>1, <1>2, LegsEnd DEF rowVars, LadderInv, TypeOK, CloseRows

(* A batch that goes through emptied a leg, so the ladder was OPEN until    *)
(* then and nobody had settled it.                                          *)
LEMMA LandCloseKeeps ==
    ASSUME LadderInv, LandClose, UNCHANGED card
    PROVE  LadderInv'
  <1>1. close.outcome = "pending" /\ UNCHANGED <<recordVars, collect, claimed, botVars, workVars>>
    BY DEF LandClose
  <1>2. close.row = "SENT" /\ close.target # {} /\ Full \subseteq close.target
    BY <1>1 DEF LadderInv, RowKnows
  <1>3. CASE /\ close.target \subseteq Full
             /\ close' = [close EXCEPT !.outcome = "success"]
             /\ chain' = [l \in Legs |-> IF l \in close.target THEN "batch" ELSE chain[l]]
             /\ block' = block + 1
    <2>1. chain' \in [Legs -> Fates] /\ Full' = {} /\ Full # {}
      BY <1>2, <1>3 DEF LadderInv, TypeOK, Full, Fates
    <2>2. /\ close' \in CloseRows
          /\ close'.row = "SENT" /\ close'.outcome = "success" /\ close'.booked = close.booked
          /\ close'.attempt = close.attempt
      BY <1>2, <1>3 DEF LadderInv, TypeOK, Outcomes, CloseRows
    <2>3. CallKnows' /\ RowKnows'
      BY <1>1, <1>2, <2>1, <2>2 DEF LadderInv, CallKnows, RowKnows, botVars
    <2>4. ladder = "OPEN" /\ settlement = "NONE"
      BY <2>1 DEF LadderInv, ClosedIsEmpty, SettledElsewhere
    <2>5. OneAccount'
      BY <1>1, <2>2, <2>4 DEF LadderInv, OneAccount, recordVars, workVars
    <2> QED  BY <1>1, <1>3, <2>1, <2>2, <2>3, <2>5, LegsEnd
  <1>4. CASE close' = [close EXCEPT !.outcome = "reverted"] /\ UNCHANGED chainVars
    <2>1. /\ close' \in CloseRows
          /\ close'.row = "SENT" /\ close'.outcome = "reverted" /\ close'.booked = close.booked
          /\ close'.attempt = close.attempt
      BY <1>2, <1>4 DEF LadderInv, TypeOK, Outcomes, CloseRows
    <2> USE DEF chainVars, recordVars, botVars, workVars
    <2>2. TypeOK' /\ LegsCounted' /\ EmptyIsEmpty' /\ ReadersKnow'
      BY <1>1, <1>4, <2>1
         DEF LadderInv, TypeOK, CloseRows, Card!TypeOK, LegsCounted, Full, EmptyIsEmpty, ReadersKnow
    <2>3. CallKnows' /\ RowKnows'
      BY <1>1, <1>2, <1>4, <2>1 DEF LadderInv, CallKnows, RowKnows, Full
    <2>4. ClosedIsEmpty' /\ OneAccount' /\ SettledElsewhere'
      BY <1>1, <1>2, <1>4, <2>1
         DEF LadderInv, ClosedIsEmpty, OneAccount, SettledElsewhere, Full, RowKnows
    <2> QED  BY <2>2, <2>3, <2>4 DEF LadderInv
  <1> QED  BY <1>3, <1>4 DEF LandClose

(* A step that leaves the chain, the CLOSE_BATCH row, the ladder and its    *)
(* settlement alone has to keep the types and what readers and the bot know.*)
LEMMA ReadingKeeps ==
    ASSUME LadderInv, TypeOK', UNCHANGED <<chainVars, ladder, close, settlement>>,
           EmptyIsEmpty', ReadersKnow', CallKnows'
    PROVE  LadderInv'
  <1>1. LegsCounted' /\ RowKnows' /\ ClosedIsEmpty' /\ OneAccount' /\ SettledElsewhere'
    BY DEF LadderInv, LegsCounted, RowKnows, ClosedIsEmpty, OneAccount, SettledElsewhere,
           chainVars, Full
  <1> QED  BY <1>1 DEF LadderInv

LEMMA CollectMovesKeeps ==
    ASSUME LadderInv, LandCollect \/ ObserveCollect, UNCHANGED card
    PROVE  LadderInv'
  <1> USE DEF chainVars, recordVars, botVars, workVars
  <1>1. /\ collect' \in [row : RowStatuses, outcome : Outcomes]
        /\ UNCHANGED <<chainVars, recordVars, close, claimed, botVars, workVars>>
    BY DEF LandCollect, ObserveCollect, Settled, LadderInv, TypeOK, RowStatuses, Outcomes
  <1>2. TypeOK'
    BY <1>1 DEF LadderInv, TypeOK, Card!TypeOK
  <1>3. EmptyIsEmpty' /\ ReadersKnow' /\ CallKnows'
    BY <1>1 DEF LadderInv, EmptyIsEmpty, ReadersKnow, CallKnows, Full
  <1> QED  BY <1>1, <1>2, <1>3, ReadingKeeps

(* The journal learns what became of the batch, and nothing else changes.   *)
LEMMA ObserveCloseKeeps ==
    ASSUME LadderInv, ObserveClose, UNCHANGED card
    PROVE  LadderInv'
  <1> USE DEF chainVars, recordVars, botVars, workVars
  <1> DEFINE row == IF close.outcome = "success" THEN "CONFIRMED" ELSE "FAILED"
             attempt == IF close.outcome = "success" THEN 0 ELSE close.attempt
             next == Settled(close)
  <1>1. next \in CloseRows /\ next.row = row /\ next.outcome = close.outcome
        /\ next.target = close.target /\ next.booked = close.booked /\ next.attempt = close.attempt
    BY DEF Settled, LadderInv, TypeOK, CloseRows, RowStatuses
  <1>2. /\ close' = [next EXCEPT !.attempt = attempt] /\ attempt \in 0..MaxAttempts
        /\ close.row = "SENT" /\ close.outcome \in {"success", "reverted"}
        /\ UNCHANGED <<chainVars, recordVars, collect, claimed, botVars, workVars>>
    BY <1>1, LegsAssumption DEF ObserveClose, LadderInv, TypeOK, CloseRows
  <1> HIDE DEF next, attempt
  <1>3. close' \in CloseRows /\ close'.row = row /\ close'.outcome = close.outcome
        /\ close'.booked = close.booked
    BY <1>1, <1>2 DEF CloseRows
  <1>4. TypeOK' /\ LegsCounted' /\ EmptyIsEmpty' /\ ReadersKnow'
    BY <1>2, <1>3
       DEF LadderInv, TypeOK, CloseRows, Card!TypeOK, LegsCounted, Full, EmptyIsEmpty, ReadersKnow
  <1>5. CallKnows' /\ RowKnows'
    BY <1>2, <1>3 DEF LadderInv, CallKnows, RowKnows, Full
  <1>6. ClosedIsEmpty' /\ OneAccount' /\ SettledElsewhere'
    BY <1>2, <1>3 DEF LadderInv, ClosedIsEmpty, OneAccount, SettledElsewhere, Full
  <1> QED  BY <1>4, <1>5, <1>6 DEF LadderInv

-----------------------------------------------------------------------------
(* Readers.                                                                 *)

ReaderStates == [legs : SUBSET Legs, seen : Answers, label : Blocks \cup {NULL}]

(* A reader that begins, is answered or gives up.                           *)
LEMMA ReaderMoves ==
    ASSUME LadderInv, NEW r \in Readers, NEW next \in ReaderStates,
           readers' = [readers EXCEPT ![r] = next],
           next.seen # NULL =>
               /\ next.seen \in [next.legs -> Reading]
               /\ \A l \in next.legs : next.seen[l] = "empty" => l \notin Full,
           failures' \in 0..MaxFailures,
           UNCHANGED <<chainVars, recordVars, rowVars, botVars, requests, settlement, card>>
    PROVE  LadderInv'
  <1> USE DEF chainVars, recordVars, rowVars, botVars
  <1>1. readers' \in [Readers -> ReaderStates] /\ readers'[r] = next
        /\ \A q \in Readers \ {r} : readers'[q] = readers[q]
    BY DEF LadderInv, TypeOK, ReaderStates
  <1>2. TypeOK'
    BY <1>1 DEF LadderInv, TypeOK, Card!TypeOK, ReaderStates
  <1>3. EmptyIsEmpty' /\ CallKnows'
    BY DEF LadderInv, EmptyIsEmpty, CallKnows, Full
  <1>4. ReadersKnow'
    BY <1>1 DEF LadderInv, ReadersKnow, Full
  <1> QED  BY <1>2, <1>3, <1>4, ReadingKeeps

LEMMA IdleReader == Idle \in ReaderStates /\ Idle.seen = NULL
  BY DEF Idle, ReaderStates, Answers

LEMMA BeginKeeps ==
    ASSUME LadderInv, NEW r, NEW legs \in SUBSET Legs, Begin(r, legs), UNCHANGED card
    PROVE  LadderInv'
  <1> DEFINE next == [Idle EXCEPT !.legs = legs]
  <1>1. next \in ReaderStates /\ next.seen = NULL
    BY DEF Idle, ReaderStates, Answers
  <1>2. r \in Readers /\ readers' = [readers EXCEPT ![r] = next]
        /\ UNCHANGED <<chainVars, recordVars, rowVars, botVars, requests, settlement, failures>>
    BY DEF Begin
  <1> HIDE DEF next
  <1> QED  BY <1>1, <1>2, ReaderMoves DEF LadderInv, TypeOK

LEMMA AnswerBlockKeeps ==
    ASSUME LadderInv, NEW r \in Readers, AnswerBlock(r), UNCHANGED card
    PROVE  LadderInv'
  <1> DEFINE next == [readers[r] EXCEPT !.label = block]
  <1>1. /\ next \in ReaderStates /\ next.seen = readers[r].seen /\ next.legs = readers[r].legs
    BY DEF ReaderStates, LadderInv, TypeOK
  <1>2. readers' = [readers EXCEPT ![r] = next]
        /\ UNCHANGED <<chainVars, recordVars, rowVars, botVars, requests, settlement, failures>>
    BY DEF AnswerBlock
  <1> HIDE DEF next
  <1> QED  BY <1>1, <1>2, ReaderMoves DEF LadderInv, TypeOK, ReadersKnow

(* A reader is told "empty" of a leg only when it is.                       *)
LEMMA AnswerDataKeeps ==
    ASSUME LadderInv, NEW r \in Readers, AnswerData(r), UNCHANGED card
    PROVE  LadderInv'
  <1> DEFINE legs == readers[r].legs
  <1>1. PICK failing \in SUBSET legs :
             /\ failing # {} => failures < MaxFailures
             /\ failures' = IF failing = {} THEN failures ELSE failures + 1
             /\ readers' = [readers EXCEPT ![r].seen = [l \in legs |->
                                IF l \in failing THEN "error"
                                ELSE IF l \in Full THEN "full" ELSE "empty"]]
    BY DEF AnswerData
  <1> DEFINE seen == [l \in legs |-> IF l \in failing THEN "error"
                                     ELSE IF l \in Full THEN "full" ELSE "empty"]
             next == [readers[r] EXCEPT !.seen = seen]
  <1>2. readers[r] \in ReaderStates /\ legs \in SUBSET Legs
    BY DEF LadderInv, TypeOK, ReaderStates
  <1>3. seen \in [legs -> Reading] /\ \A l \in legs : seen[l] = "empty" => l \notin Full
    BY DEF Reading
  <1>4. readers' = [readers EXCEPT ![r] = next] /\ failures' \in 0..MaxFailures
    BY <1>1, LegsAssumption DEF LadderInv, TypeOK
  <1>5. seen \in Answers
    BY <1>2, <1>3 DEF Answers, Reading
  <1> HIDE DEF seen
  <1>6. next \in ReaderStates /\ next.seen = seen /\ next.legs = legs
    BY <1>2, <1>5 DEF ReaderStates
  <1> HIDE DEF next, legs
  <1> QED  BY <1>3, <1>4, <1>6, ReaderMoves DEF AnswerData

LEMMA DropKeeps ==
    ASSUME LadderInv, NEW r \in Readers, Drop(r), UNCHANGED card
    PROVE  LadderInv'
  <1>1. failures' \in 0..MaxFailures
    BY LegsAssumption DEF Drop, LadderInv, TypeOK
  <1> QED  BY <1>1, IdleReader, ReaderMoves DEF Drop

-----------------------------------------------------------------------------
(* Convergence.                                                             *)

(* What the caller has written is true of the chain; then, if the ladder is *)
(* closed, it is empty, and the way it is closed is the way it ended.       *)
LEMMA Convergence ==
    ASSUME LadderInv, NEW tr \in [Legs -> LegTruth], NEW mi \in [Legs -> LegMirror],
           \A l \in Legs : tr[l].verdict = "empty" => l \notin Full,
           Converge(tr, mi)
    PROVE  /\ truth' \in [Legs -> LegTruth] /\ mirror' \in [Legs -> LegMirror]
           /\ \A l \in Legs : truth'[l].verdict = "empty" => l \notin Full
           /\ \/ ladder' = ladder
              \/ /\ ladder = "OPEN" /\ Full = {}
                 /\ ladder' = "FUNI_AUTHORED_CLOSE_BATCH" /\ close.row = "CONFIRMED"
              \/ /\ ladder = "OPEN" /\ Full = {}
                 /\ ladder' = "EXTERNAL_ONCHAIN_MUTATION" /\ close.row \notin {"SENT", "CONFIRMED"}
           /\ close.row = "CONFIRMED" /\ ~InProgress /\ ladder = "OPEN"
                => ladder' = "FUNI_AUTHORED_CLOSE_BATCH"
  <1>1. Full \subseteq Legs /\ close.row \in RowStatuses
    BY DEF Full, LadderInv, TypeOK
  <1>2. CASE ~Converges(tr)
    BY <1>2 DEF Converge, Converges
  <1>3. CASE Converges(tr)
    <2>1. /\ mirror' = [l \in Legs |-> Closed] /\ close.row # "SENT"
          /\ truth' = IF close.row = "CONFIRMED" THEN Emptied(tr) ELSE tr
          /\ ladder' = IF ladder = "OPEN" THEN Provenance ELSE ladder
      BY <1>3 DEF Converge, CloseMirrors, Converges, InProgress
    <2>2. mirror' \in [Legs -> LegMirror]
      BY <2>1 DEF Closed, LegMirror
    <2>3. CASE close.row = "CONFIRMED"
      <3>1. Full = {}
        BY <2>3 DEF LadderInv, RowKnows, TypeOK, Outcomes
      <3>2. Emptied(tr) \in [Legs -> LegTruth]
        BY DEF Emptied, LegTruth, Verdicts
      <3> QED  BY <2>1, <2>2, <2>3, <3>1, <3>2 DEF Provenance
    <2>4. CASE close.row # "CONFIRMED"
      <3>1. Full = {}
        BY <1>1, <1>3, <2>4 DEF Converges, Evidence
      <3> QED  BY <2>1, <2>2, <2>4, <3>1 DEF Provenance
    <2> QED  BY <2>3, <2>4
  <1> QED  BY <1>2, <1>3

(* The ladder that such a convergence leaves is accounted for.              *)
LEMMA ConvergedIsOne ==
    ASSUME LadderInv, UNCHANGED <<chain, settlement>>,
           close'.outcome = close.outcome, close'.booked => close.booked,
           \/ ladder' = ladder
           \/ /\ ladder = "OPEN" /\ Full = {}
              /\ ladder' = "FUNI_AUTHORED_CLOSE_BATCH" /\ close.row = "CONFIRMED"
           \/ /\ ladder = "OPEN" /\ Full = {}
              /\ ladder' = "EXTERNAL_ONCHAIN_MUTATION" /\ close.row \notin {"SENT", "CONFIRMED"}
    PROVE  ClosedIsEmpty' /\ OneAccount' /\ SettledElsewhere'
  <1>1. close.row = "CONFIRMED" => close.outcome = "success"
    BY DEF LadderInv, RowKnows, TypeOK, Outcomes
  <1>2. close.row \notin {"SENT", "CONFIRMED"} => close.outcome # "success"
    BY DEF LadderInv, RowKnows
  <1>3. settlement # "NONE" => ladder # "OPEN"
    BY DEF LadderInv, SettledElsewhere
  <1>4. ClosedIsEmpty' /\ SettledElsewhere'
    BY <1>3 DEF LadderInv, ClosedIsEmpty, SettledElsewhere, Full
  <1> QED  BY <1>1, <1>2, <1>3, <1>4 DEF LadderInv, OneAccount

(* What a reader writes of a leg is what it has read, or what was there.    *)
LEMMA Verdicted ==
    ASSUME LadderInv, NEW l \in Legs, NEW seen \in Reading, NEW label \in Blocks,
           seen = "empty" => l \notin Full
    PROVE  /\ Verdict(l, seen, label) \in LegTruth
           /\ Verdict(l, seen, label).verdict = "empty" => l \notin Full
           /\ Mirrored(l, seen, label) \in LegMirror
  <1>1. truth[l] \in LegTruth /\ mirror[l] \in LegMirror
        /\ (truth[l].verdict = "empty" => l \notin Full)
    BY DEF LadderInv, TypeOK, LegTruth, LegMirror, EmptyIsEmpty
  <1>2. Mirrored(l, seen, label) \in LegMirror
    BY <1>1 DEF Mirrored, LegMirror
  <1>3. CASE Older(l, label)
    BY <1>1, <1>2, <1>3 DEF Verdict
  <1>4. CASE ~Older(l, label) /\ seen = "full"
    BY <1>2, <1>4 DEF Verdict, LegTruth, Verdicts
  <1>5. CASE ~Older(l, label) /\ seen = "empty"
    BY <1>2, <1>5 DEF Verdict, LegTruth, Verdicts
  <1>6. CASE ~Older(l, label) /\ seen = "error"
    BY <1>1, <1>2, <1>6 DEF Verdict, LegTruth, Verdicts
  <1> QED  BY <1>3, <1>4, <1>5, <1>6 DEF Reading

LEMMA PersistKeeps ==
    ASSUME LadderInv, NEW r \in Readers, Persist(r), UNCHANGED card
    PROVE  LadderInv'
  <1> DEFINE legs == readers[r].legs
             seen == readers[r].seen
             label == readers[r].label
             tr == [l \in Legs |-> IF l \in legs THEN Verdict(l, seen[l], label) ELSE truth[l]]
             mi == [l \in Legs |-> IF l \in legs THEN Mirrored(l, seen[l], label) ELSE mirror[l]]
  <1>1. /\ seen # NULL /\ label # NULL /\ Converge(tr, mi)
        /\ readers' = [readers EXCEPT ![r] = Idle]
        /\ requests' = IF r = "urgent" THEN Completed(legs, seen) ELSE requests
        /\ UNCHANGED <<chainVars, rowVars, botVars, settlement, failures>>
    BY DEF Persist
  <1>2. /\ legs \in SUBSET Legs /\ label \in Blocks
        /\ \A l \in legs : seen[l] \in Reading /\ (seen[l] = "empty" => l \notin Full)
    BY <1>1 DEF LadderInv, TypeOK, ReadersKnow
  <1>3. ASSUME NEW l \in Legs
        PROVE  tr[l] \in LegTruth /\ (tr[l].verdict = "empty" => l \notin Full) /\ mi[l] \in LegMirror
    <2>1. CASE l \in legs
      BY <1>2, <2>1, Verdicted
    <2>2. CASE l \notin legs
      BY <2>2 DEF LadderInv, TypeOK, LegTruth, LegMirror, EmptyIsEmpty
    <2> QED  BY <2>1, <2>2
  <1>4. tr \in [Legs -> LegTruth] /\ mi \in [Legs -> LegMirror]
    BY <1>3
  <1>5. \A l \in Legs : tr[l].verdict = "empty" => l \notin Full
    BY <1>3
  <1>6. requests' \in SUBSET Legs
    BY <1>1, <1>2 DEF Completed, LadderInv, TypeOK
  <1> HIDE DEF tr, mi, legs, seen, label
  <1>7. /\ truth' \in [Legs -> LegTruth] /\ mirror' \in [Legs -> LegMirror]
        /\ \A l \in Legs : truth'[l].verdict = "empty" => l \notin Full
        /\ \/ ladder' = ladder
           \/ /\ ladder = "OPEN" /\ Full = {}
              /\ ladder' = "FUNI_AUTHORED_CLOSE_BATCH" /\ close.row = "CONFIRMED"
           \/ /\ ladder = "OPEN" /\ Full = {}
              /\ ladder' = "EXTERNAL_ONCHAIN_MUTATION" /\ close.row \notin {"SENT", "CONFIRMED"}
    BY <1>1, <1>4, <1>5, Convergence
  <1>8. ladder' \in {"OPEN"} \cup Closings
    BY <1>7 DEF LadderInv, TypeOK, Closings
  <1>9. readers' \in [Readers -> ReaderStates] /\ readers'[r] = Idle
        /\ \A q \in Readers \ {r} : readers'[q] = readers[q]
    BY <1>1, IdleReader DEF LadderInv, TypeOK, ReaderStates
  <1> USE DEF chainVars, rowVars, botVars
  <1>10. TypeOK'
    BY <1>1, <1>6, <1>7, <1>8, <1>9
       DEF LadderInv, TypeOK, Card!TypeOK, LegTruth, LegMirror, ReaderStates
  <1>11. LegsCounted' /\ EmptyIsEmpty' /\ CallKnows' /\ RowKnows'
    <2>1. LegsCounted' /\ CallKnows' /\ RowKnows'
      BY <1>1 DEF LadderInv, LegsCounted, CallKnows, RowKnows, Full
    <2>2. EmptyIsEmpty'
      BY <1>1, <1>7 DEF EmptyIsEmpty, Full
    <2> QED  BY <2>1, <2>2
  <1>12. ReadersKnow'
    BY <1>1, <1>9, IdleReader DEF LadderInv, ReadersKnow, Full
  <1>13. ClosedIsEmpty' /\ OneAccount' /\ SettledElsewhere'
    BY <1>1, <1>7, ConvergedIsOne
  <1> QED  BY <1>10, <1>11, <1>12, <1>13 DEF LadderInv

LEMMA ExpireKeeps ==
    ASSUME LadderInv, NEW l \in Legs, Expire(l), UNCHANGED card
    PROVE  LadderInv'
  <1> DEFINE next == [truth[l] EXCEPT !.fresh = FALSE]
  <1>1. truth \in [Legs -> LegTruth] /\ next \in LegTruth /\ next.verdict = truth[l].verdict
    <2>1. truth \in [Legs -> LegTruth]
      BY DEF LadderInv, TypeOK, LegTruth
    <2> QED  BY <2>1 DEF LegTruth
  <1>2. truth' = [truth EXCEPT ![l] = next]
        /\ UNCHANGED <<chainVars, mirror, ladder, rowVars, botVars, workVars>>
    BY DEF Expire
  <1> USE DEF chainVars, rowVars, botVars, workVars
  <1> HIDE DEF next
  <1>3. truth' \in [Legs -> LegTruth] /\ \A k \in Legs : truth'[k].verdict = truth[k].verdict
    BY <1>1, <1>2
  <1>4. TypeOK'
    BY <1>2, <1>3 DEF LadderInv, TypeOK, Card!TypeOK, LegTruth
  <1>5. EmptyIsEmpty' /\ ReadersKnow' /\ CallKnows'
    BY <1>2, <1>3 DEF LadderInv, EmptyIsEmpty, ReadersKnow, CallKnows, Full
  <1> QED  BY <1>2, <1>4, <1>5, ReadingKeeps

-----------------------------------------------------------------------------
(* The handlers of the bot.                                                 *)

(* A handler that reads or ends; a close that is called names what is full. *)
LEMMA CallMovesKeeps ==
    ASSUME LadderInv, BeginClose \/ CallEnds \/ BeginCollect, UNCHANGED card
    PROVE  LadderInv'
  <1> USE DEF chainVars, recordVars, rowVars, workVars
  <1>1. /\ call' \in [kind : {"none", "close", "collect"}, active : SUBSET Legs]
        /\ call'.kind = "close" =>
            /\ close.row \in {"NONE", "FAILED"} /\ close.attempt < MaxAttempts
            /\ call'.active = Full
        /\ UNCHANGED <<chainVars, recordVars, rowVars, projection, workVars>>
    BY DEF BeginClose, CallEnds, BeginCollect, NoCall, Full
  <1>2. TypeOK'
    BY <1>1 DEF LadderInv, TypeOK, Card!TypeOK
  <1>3. EmptyIsEmpty' /\ ReadersKnow' /\ CallKnows'
    BY <1>1 DEF LadderInv, EmptyIsEmpty, ReadersKnow, CallKnows, Full
  <1> QED  BY <1>1, <1>2, <1>3, ReadingKeeps

LEMMA SubmitCloseKeeps ==
    ASSUME LadderInv, SubmitClose, UNCHANGED card
    PROVE  LadderInv'
  <1> USE DEF chainVars, recordVars, workVars
  <1>1. /\ close.row \in {"NONE", "FAILED"} /\ close.attempt < MaxAttempts
        /\ Full \subseteq call.active /\ call.active # {} /\ call.active \in SUBSET Legs
    BY DEF SubmitClose, LadderInv, CallKnows, TypeOK
  <1>2. /\ call' = NoCall
        /\ UNCHANGED <<chainVars, recordVars, collect, claimed, projection, workVars>>
    BY DEF SubmitClose
  <1>3. /\ close' \in CloseRows /\ close'.row = "SENT" /\ close'.outcome = "pending"
        /\ close'.target = call.active /\ close'.booked = close.booked
    <2> DEFINE attempt == close.attempt + 1
    <2>1. attempt \in 0..MaxAttempts
      BY <1>1, LegsAssumption DEF LadderInv, TypeOK
    <2>2. close' = [close EXCEPT !.row = "SENT", !.outcome = "pending", !.target = call.active,
                                 !.attempt = attempt]
      BY DEF SubmitClose
    <2> HIDE DEF attempt
    <2> QED  BY <1>1, <2>1, <2>2 DEF LadderInv, TypeOK, CloseRows, RowStatuses, Outcomes
  <1>4. close.outcome # "success"
    BY <1>1 DEF LadderInv, RowKnows
  <1>5. TypeOK'
    BY <1>2, <1>3 DEF LadderInv, TypeOK, CloseRows, Card!TypeOK, NoCall
  <1>6. LegsCounted' /\ EmptyIsEmpty' /\ ReadersKnow'
    BY <1>2 DEF LadderInv, LegsCounted, EmptyIsEmpty, ReadersKnow, Full
  <1>7. CallKnows' /\ RowKnows'
    BY <1>1, <1>2, <1>3 DEF CallKnows, RowKnows, NoCall, Full
  <1>8. ClosedIsEmpty' /\ OneAccount' /\ SettledElsewhere'
    BY <1>2, <1>3, <1>4 DEF LadderInv, ClosedIsEmpty, OneAccount, SettledElsewhere, Full
  <1> QED  BY <1>5, <1>6, <1>7, <1>8 DEF LadderInv

(* There was nothing to close, and no batch has closed it.                  *)
LEMMA CloseDirectlyKeeps ==
    ASSUME LadderInv, CloseDirectly, UNCHANGED card
    PROVE  LadderInv'
  <1> USE DEF chainVars, rowVars, workVars
  <1>1. /\ Full = {} /\ close.row \in {"NONE", "FAILED"}
        /\ call' = NoCall /\ mirror' = [l \in Legs |-> Closed]
        /\ ladder' = IF ladder = "OPEN" THEN "DIRECT" ELSE ladder
        /\ UNCHANGED <<chainVars, truth, rowVars, projection, workVars>>
    BY DEF CloseDirectly, CloseMirrors, LadderInv, CallKnows
  <1>2. TypeOK'
    BY <1>1 DEF LadderInv, TypeOK, Card!TypeOK, NoCall, Closed, Closings
  <1>3. LegsCounted' /\ EmptyIsEmpty' /\ ReadersKnow' /\ CallKnows' /\ RowKnows'
    BY <1>1 DEF LadderInv, LegsCounted, EmptyIsEmpty, ReadersKnow, CallKnows, RowKnows, NoCall, Full
  <1>4. close.outcome # "success"
    BY <1>1 DEF LadderInv, RowKnows
  <1>5. ClosedIsEmpty' /\ OneAccount' /\ SettledElsewhere'
    BY <1>1, <1>4 DEF LadderInv, ClosedIsEmpty, OneAccount, SettledElsewhere, Full
  <1> QED  BY <1>2, <1>3, <1>5 DEF LadderInv

LEMMA ClaimKeeps ==
    ASSUME LadderInv, UNCHANGED card,
           SubmitCollect \/ BeginProjection \/ ProjectCollect \/ AbandonProjection
    PROVE  LadderInv'
  <1> USE DEF chainVars, recordVars, rowVars, workVars
  <1>1. CASE SubmitCollect
    <2>1. TypeOK'
      BY <1>1 DEF SubmitCollect, LadderInv, TypeOK, Card!TypeOK, NoCall, RowStatuses, Outcomes
    <2>2. EmptyIsEmpty' /\ ReadersKnow' /\ CallKnows'
      BY <1>1 DEF SubmitCollect, LadderInv, EmptyIsEmpty, ReadersKnow, CallKnows, NoCall, Full
    <2> QED  BY <1>1, <2>1, <2>2, ReadingKeeps DEF SubmitCollect
  <1>2. CASE BeginProjection \/ AbandonProjection
    <2>1. /\ projection' \in [Legs -> BOOLEAN] \cup {NULL} /\ failures' \in 0..MaxFailures
          /\ UNCHANGED <<chainVars, recordVars, rowVars, call, readers, requests, settlement>>
      BY <1>2, LegsAssumption DEF BeginProjection, AbandonProjection, LadderInv, TypeOK
    <2>2. TypeOK'
      BY <2>1 DEF LadderInv, TypeOK, Card!TypeOK
    <2>3. EmptyIsEmpty' /\ ReadersKnow' /\ CallKnows'
      BY <2>1 DEF LadderInv, EmptyIsEmpty, ReadersKnow, CallKnows, Full
    <2> QED  BY <2>1, <2>2, <2>3, ReadingKeeps
  <1>3. CASE ProjectCollect
    <2>1. projection \in [Legs -> BOOLEAN] /\ mirror \in [Legs -> LegMirror]
      BY <1>3 DEF ProjectCollect, LadderInv, TypeOK, LegMirror
    <2>2. /\ mirror' = [l \in Legs |-> [mirror[l] EXCEPT !.liquid = projection[l]]]
          /\ projection' = NULL
          /\ UNCHANGED <<chainVars, truth, ladder, close, collect, call, workVars>>
      BY <1>3 DEF ProjectCollect
    <2>3. mirror' \in [Legs -> LegMirror]
      <3> DEFINE next(l) == [mirror[l] EXCEPT !.liquid = projection[l]]
      <3>1. \A l \in Legs : next(l) \in LegMirror
        BY <2>1 DEF LegMirror
      <3>2. mirror' = [l \in Legs |-> next(l)]
        BY <2>2
      <3> HIDE DEF next
      <3> QED  BY <3>1, <3>2
    <2>4. claimed' \in Valuations
      BY <1>3 DEF ProjectCollect, Captured, Appended, Valuations
    <2>5. TypeOK'
      BY <2>2, <2>3, <2>4 DEF LadderInv, TypeOK, Card!TypeOK, LegMirror
    <2>6. EmptyIsEmpty' /\ ReadersKnow' /\ CallKnows'
      BY <2>2 DEF LadderInv, EmptyIsEmpty, ReadersKnow, CallKnows, Full
    <2> QED  BY <2>2, <2>5, <2>6, ReadingKeeps
  <1> QED  BY <1>1, <1>2, <1>3

(* A settlement is of a ladder that no batch has closed.                    *)
LEMMA SettleKeeps ==
    ASSUME LadderInv, Settle, UNCHANGED card
    PROVE  LadderInv'
  <1> USE DEF chainVars, rowVars, botVars
  <1>1. /\ ladder = "EXTERNAL_ONCHAIN_MUTATION"
        /\ settlement' \in {"INCOMPLETE", "PARTIAL"}
        /\ mirror' = [l \in Legs |-> Closed] \/ mirror' = mirror
        /\ UNCHANGED <<chainVars, truth, ladder, rowVars, botVars, readers, requests, failures>>
    BY DEF Settle, IsCandidate, Completeness, CloseMirrors
  <1>2. mirror' \in [Legs -> LegMirror]
    <2>1. mirror \in [Legs -> LegMirror] /\ Closed \in LegMirror
      BY DEF LadderInv, TypeOK, Closed, LegMirror
    <2> HIDE DEF Closed
    <2> QED  BY <1>1, <2>1
  <1>3. TypeOK'
    BY <1>1, <1>2 DEF LadderInv, TypeOK, Card!TypeOK, LegMirror
  <1>4. LegsCounted' /\ EmptyIsEmpty' /\ ReadersKnow' /\ CallKnows' /\ RowKnows'
    BY <1>1 DEF LadderInv, LegsCounted, EmptyIsEmpty, ReadersKnow, CallKnows, RowKnows, Full
  <1>5. ClosedIsEmpty' /\ OneAccount' /\ SettledElsewhere'
    BY <1>1 DEF LadderInv, ClosedIsEmpty, OneAccount, SettledElsewhere, Full
  <1> QED  BY <1>3, <1>4, <1>5 DEF LadderInv

-----------------------------------------------------------------------------
(* The close is projected: by this batch the ladder is closed, whoever is   *)
(* first, and from then on it is booked.                                    *)
LEMMA ProjectCloseKeeps ==
    ASSUME CloseInv, ProjectClose
    PROVE  CloseInv'
  <1>1. /\ close.row = "CONFIRMED" /\ ~InProgress /\ Converge(truth, mirror)
        /\ ladder \in {"OPEN", "FUNI_AUTHORED_CLOSE_BATCH"}
        /\ close' = [close EXCEPT !.booked = TRUE] /\ card' \in CardOf
        /\ requests' = Requested(Expected)
        /\ UNCHANGED <<chainVars, collect, claimed, botVars, readers, settlement, failures>>
    BY DEF ProjectClose, ClosePostcondition
  <1>2. /\ truth \in [Legs -> LegTruth] /\ mirror \in [Legs -> LegMirror]
        /\ \A l \in Legs : truth[l].verdict = "empty" => l \notin Full
    BY DEF CloseInv, LadderInv, TypeOK, LegTruth, LegMirror, EmptyIsEmpty
  <1>3. /\ truth' \in [Legs -> LegTruth] /\ mirror' \in [Legs -> LegMirror]
        /\ \A l \in Legs : truth'[l].verdict = "empty" => l \notin Full
        /\ ladder' = "FUNI_AUTHORED_CLOSE_BATCH"
        /\ ladder' = ladder \/ Full = {}
    BY <1>1, <1>2, Convergence DEF CloseInv
  <1>4. /\ close' \in CloseRows /\ close'.row = close.row /\ close'.outcome = close.outcome
        /\ close'.target = close.target /\ close'.attempt = close.attempt /\ close'.booked
    BY <1>1 DEF CloseInv, LadderInv, TypeOK, CloseRows
  <1>5. requests' \in SUBSET Legs
    BY <1>1 DEF Requested, Expected, CloseInv, LadderInv, TypeOK
  <1>6. card' \in {card, Card!Ensured}
    BY <1>1 DEF CardOf
  <1>7. (Card!TypeOK /\ CardKnows)'
    BY <1>6, EnsuredKeeps DEF CloseInv, LadderInv, TypeOK
  <1>8. close.outcome = "success"
    BY <1>1 DEF CloseInv, LadderInv, RowKnows, TypeOK, Outcomes
  <1> USE DEF chainVars, botVars
  <1>9. TypeOK'
    BY <1>1, <1>3, <1>4, <1>5, <1>7
       DEF CloseInv, LadderInv, TypeOK, Closings, LegTruth, LegMirror, CloseRows
  <1>10. EmptyIsEmpty'
    BY <1>1, <1>3 DEF EmptyIsEmpty, Full
  <1>11. LegsCounted' /\ ReadersKnow' /\ CallKnows' /\ RowKnows'
    BY <1>1, <1>4 DEF CloseInv, LadderInv, LegsCounted, ReadersKnow, CallKnows, RowKnows, Full
  <1>12. settlement = "NONE"
    BY <1>1 DEF CloseInv, LadderInv, SettledElsewhere
  <1>13. ClosedIsEmpty' /\ OneAccount' /\ SettledElsewhere'
    BY <1>1, <1>3, <1>4, <1>8, <1>12
       DEF CloseInv, LadderInv, ClosedIsEmpty, OneAccount, SettledElsewhere, Full
  <1>14. CardBooked'
    BY <1>4 DEF CardBooked
  <1> QED  BY <1>7, <1>9, <1>10, <1>11, <1>13, <1>14 DEF CloseInv, LadderInv

LEMMA CardStepKeeps ==
    ASSUME CloseInv, EnsureMissing \/ DeliverCard
    PROVE  CloseInv'
  <1>1. UNCHANGED <<chainVars, recordVars, rowVars, botVars, workVars>>
    BY DEF EnsureMissing, DeliverCard
  <1>2. (Card!TypeOK /\ CardKnows)' /\ CardBooked'
    <2>1. CASE EnsureMissing
      BY <2>1, EnsuredKeeps DEF EnsureMissing, CloseInv, LadderInv, TypeOK, CardBooked, rowVars
    <2>2. CASE DeliverCard
      BY <2>2, DeliveryKeeps DEF DeliverCard, CloseInv, LadderInv, TypeOK, CardBooked, rowVars
    <2> QED  BY <2>1, <2>2
  <1> USE DEF chainVars, recordVars, rowVars, botVars, workVars
  <1>3. TypeOK'
    BY <1>1, <1>2 DEF CloseInv, LadderInv, TypeOK
  <1>4. EmptyIsEmpty' /\ ReadersKnow' /\ CallKnows'
    BY <1>1 DEF CloseInv, LadderInv, EmptyIsEmpty, ReadersKnow, CallKnows, Full
  <1> QED  BY <1>1, <1>2, <1>3, <1>4, ReadingKeeps DEF CloseInv

LEMMA LadderStepKeeps ==
    ASSUME LadderInv, LadderStep, UNCHANGED card
    PROVE  LadderInv'
  <1>1. ASSUME NEW l \in Legs, Expire(l) \/ Withdraw(l) PROVE LadderInv'
    BY <1>1, ExpireKeeps, WithdrawKeeps
  <1>2. CASE LandClose \/ LandCollect \/ ObserveClose \/ ObserveCollect
    BY <1>2, LandCloseKeeps, CollectMovesKeeps, ObserveCloseKeeps
  <1>3. CASE BeginBackground
    <2>1. BackgroundLegs \in SUBSET Legs
      BY DEF BackgroundLegs, Due
    <2> QED  BY <1>3, <2>1, BeginKeeps DEF BeginBackground
  <1>4. CASE BeginUrgent
    <2>1. PICK legs \in SUBSET requests : Begin("urgent", legs)
      BY <1>4 DEF BeginUrgent
    <2>2. legs \in SUBSET Legs
      BY DEF LadderInv, TypeOK
    <2> QED  BY <2>1, <2>2, BeginKeeps
  <1>5. ASSUME NEW r \in Readers, Read(r) PROVE LadderInv'
    BY <1>5, AnswerBlockKeeps, AnswerDataKeeps, PersistKeeps, DropKeeps DEF Read
  <1>6. CASE BeginClose \/ SubmitClose \/ CloseDirectly \/ CallEnds
    BY <1>6, CallMovesKeeps, SubmitCloseKeeps, CloseDirectlyKeeps
  <1>7. CASE BeginCollect \/ SubmitCollect \/ BeginProjection \/ ProjectCollect \/ AbandonProjection
    BY <1>7, CallMovesKeeps, ClaimKeeps
  <1>8. CASE Settle
    BY <1>8, SettleKeeps
  <1> QED  BY <1>1, <1>2, <1>3, <1>4, <1>5, <1>6, <1>7, <1>8 DEF LadderStep

LEMMA InitClosed == Init => CloseInv
  <1> SUFFICES ASSUME Init PROVE CloseInv
    OBVIOUS
  <1>1. Full = Legs /\ Legs # {}
    BY LegsAssumption DEF Init, Full
  <1>2. Cardinality(Legs) \in Nat /\ Cardinality(Legs \ Full) = 0
    BY <1>1, FS_CardinalityType, FS_EmptySet, LegsAssumption
  <1>3. TypeOK
    <2>1. chain \in [Legs -> Fates] /\ block \in Blocks
      BY <1>2 DEF Init, Fates, Blocks
    <2>2. truth \in [Legs -> LegTruth] /\ mirror \in [Legs -> LegMirror]
      BY <2>1 DEF Init, LegTruth, LegMirror, Verdicts
    <2>3. close \in CloseRows /\ collect \in [row : RowStatuses, outcome : Outcomes]
      BY LegsAssumption DEF Init, CloseRows, RowStatuses, Outcomes, NoRow
    <2>4. readers \in [Readers -> ReaderStates]
      BY IdleReader DEF Init
    <2>5. Card!TypeOK
      BY DEF Init, Card!Init, Card!TypeOK, Card!Statuses
    <2>6. failures \in 0..MaxFailures /\ claimed \in Valuations
          /\ call \in [kind : {"none", "close", "collect"}, active : SUBSET Legs]
      BY LegsAssumption DEF Init, Valuations, NoCall
    <2> QED  BY <2>1, <2>2, <2>3, <2>4, <2>5, <2>6
             DEF Init, TypeOK, LegTruth, LegMirror, CloseRows, ReaderStates
  <1>4. LegsCounted /\ EmptyIsEmpty /\ ReadersKnow /\ CallKnows /\ RowKnows
    BY <1>2 DEF Init, LegsCounted, EmptyIsEmpty, ReadersKnow, CallKnows, RowKnows, Idle, NoCall
  <1>5. ClosedIsEmpty /\ OneAccount /\ SettledElsewhere
    BY DEF Init, ClosedIsEmpty, OneAccount, SettledElsewhere
  <1>6. CardKnows /\ CardBooked
    BY DEF Init, Card!Init, CardKnows, CardBooked
  <1> QED  BY <1>3, <1>4, <1>5, <1>6 DEF CloseInv, LadderInv

LEMMA CloseInductive == CloseInv /\ [Next]_vars => CloseInv'
  <1> SUFFICES ASSUME CloseInv, [Next]_vars PROVE CloseInv'
    OBVIOUS
  <1>1. CASE LadderStep /\ UNCHANGED card
    <2>1. LadderInv'
      BY <1>1, LadderStepKeeps DEF CloseInv
    <2>2. close.booked => close'.booked
      BY <1>1 DEF LadderStep, Expire, Withdraw, LandClose, LandCollect, ObserveClose, Settled,
            ObserveCollect, BeginBackground, BeginUrgent, Begin, Read, AnswerBlock, AnswerData,
            Persist, Drop, BeginClose, SubmitClose, CloseDirectly, CallEnds, BeginCollect,
            SubmitCollect, BeginProjection, ProjectCollect, AbandonProjection, Settle, rowVars,
            CloseInv, LadderInv, TypeOK
    <2>3. CardKnows' /\ CardBooked'
      BY <1>1, <2>2 DEF CloseInv, CardKnows, CardBooked
    <2> QED  BY <2>1, <2>3 DEF CloseInv
  <1>2. CASE ProjectClose
    BY <1>2, ProjectCloseKeeps
  <1>3. CASE EnsureMissing \/ DeliverCard
    BY <1>3, CardStepKeeps
  <1>4. CASE UNCHANGED vars
    <2> USE DEF vars, ladderVars, chainVars, recordVars, rowVars, botVars, workVars
    <2>1. TypeOK' /\ EmptyIsEmpty' /\ ReadersKnow' /\ CallKnows'
      BY <1>4 DEF CloseInv, LadderInv, TypeOK, Card!TypeOK, EmptyIsEmpty, ReadersKnow, CallKnows, Full
    <2>2. LadderInv'
      BY <1>4, <2>1, ReadingKeeps DEF CloseInv
    <2> QED  BY <1>4, <2>2 DEF CloseInv, CardKnows, CardBooked
  <1> QED  BY <1>1, <1>2, <1>3, <1>4 DEF Next

-----------------------------------------------------------------------------
(* What holds of every run, with any number of legs, readers and consumers. *)

LEMMA CloseInvariant == Spec => []CloseInv
  <1> QED  BY InitClosed, CloseInductive, PTL DEF Spec

(* LadderClose keeps its types: the handlers, the readers, the convergence  *)
(* and the card write nothing but what their columns hold.                  *)
THEOREM CloseTyped == Spec => []TypeOK
  <1>1. CloseInv => TypeOK
    BY DEF CloseInv, LadderInv
  <1> QED  BY <1>1, CloseInvariant, PTL

(* A ladder is CLOSED only when none of its positions has liquidity left,   *)
(* whichever of the four ways closed it and however old the reading it was  *)
(* closed by: positions only lose liquidity, and a batch that goes through  *)
(* names every one that was full when it was made.                          *)
THEOREM ClosedLadderIsEmpty == Spec => []ClosedIsEmpty
  <1>1. CloseInv => ClosedIsEmpty
    BY DEF CloseInv, LadderInv
  <1> QED  BY <1>1, CloseInvariant, PTL

(* A close batch that went through is what closes its ladder, and a ladder  *)
(* it closed is never settled as emptied elsewhere; a CLOSE event has such  *)
(* a batch behind it.                                                       *)
THEOREM ClosedOnOneAccount == Spec => []OneAccount
  <1>1. CloseInv => OneAccount
    BY DEF CloseInv, LadderInv
  <1> QED  BY <1>1, CloseInvariant, PTL

(* The chat is told of a booked close, and never twice, for any number of   *)
(* consumers that die and recover each other's claims.                      *)
THEOREM CardShownOnce == Spec => []CardOnce
  <1>1. CloseInv => CardOnce
    BY DEF CloseInv, CardKnows, CardBooked, CardOnce
  <1> QED  BY <1>1, CloseInvariant, PTL
=============================================================================
