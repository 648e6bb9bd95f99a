----------------------- MODULE PositionLifecycleProofs -----------------------
(***************************************************************************)
(* Proofs about PositionLifecycle, for every initial liquidity and for any *)
(* number of intents: its rows are well typed, an action that landed on    *)
(* the chain is never given up, and a close takes the rest of the basis.   *)
(*                                                                         *)
(* The inductive invariant has four parts.  RowsSound ties a row to its    *)
(* transaction: only a signed row has one, and a failed row has none or a  *)
(* reverted one.  KeysSound says that the bot finds its row again: keys    *)
(* are unique, ids are given out without gaps, and there is room for every *)
(* row that is still owed.  BotSound and WorkSound say what the bot and    *)
(* the worker know of their rows while they wait.  BooksSound follows the  *)
(* cost basis: a close that is reconciled has been consumed, or no close   *)
(* ever will be.                                                           *)
(***************************************************************************)
EXTENDS PositionLifecycle, FiniteSetTheorems, SequenceTheorems, WellFoundedInduction,
        TLAPS

NoKey      == <<"none", 0>>
CanaryKeys == {"canary_close", "canary_burn"}
Keys       == ({"preview", "burn"} \X Ids) \cup (CanaryKeys \X {0})
Statuses   == {"open", "partially_closed", "closed", "burned"}
TxStates   == {"none", "pending", "success", "reverted"}
Held       == 0 .. InitialLiquidity
Booked     == ConfirmedStates \cup {"RECONCILED", "BURNED"}
Signed     == {"PREPARED", "SUBMITTED"} \cup Booked
RowStates  == Signed \cup {"NONE", "PREVIEWED", "CLAIMED", "FAILED"}
Pcs        == {"idle", "enter", "prepare", "broadcast", "probe", "wait", "confirmed", "account"}

RowSet ==
    [key : Keys \cup {NoKey}, action : Actions, state : RowStates, removed : Held,
     hash : BOOLEAN, receipt : {"none", "success", "reverted"}, breach : BOOLEAN]

BotSet ==
    [pc : Pcs, key : Keys \cup {NoKey}, liq : Held, status : Statuses, after : Held]

IntentsTyped == intents \in [Ids -> RowSet]
ChainTyped   == chain \in [liq : Held, held : BOOLEAN, tx : [Ids -> TxStates], landed : Seq(Ids)]
BotTyped     == /\ bot \in BotSet
                /\ canary \in {"NONE", "OPENED", "CLOSING", "CLOSED", "FAILED"}
BooksTyped   == /\ mirror \in [liq : Held, status : Statuses]
                /\ ingested \subseteq Ids
                /\ basis \in Seq(Ids)
WorkTyped    == /\ work \in [Ids -> {"none", "due", "leased", "done"}]
                /\ worker \in [id : Ids \cup {0}, liq : Held, status : Statuses]

LifeTyped == IntentsTyped /\ ChainTyped /\ BotTyped /\ BooksTyped /\ WorkTyped

(* What a row says of its key, its hash, its receipt and its transaction. *)
RowFits(i, row, tx) ==
    /\ row.state = "NONE" <=> row.key = NoKey
    /\ row.key[1] = "preview" => row.key[2] = i /\ row.action # "burn"
    /\ row.key[1] \in {"burn", "canary_burn"} => row.action = "burn"
    /\ row.key[1] = "canary_close" => row.action = "full_close"
    /\ row.action \in {"burn", "collect"} => row.removed = 0
    /\ row.state = "BURNED" => row.action = "burn"
    /\ row.state \in Signed => row.hash
    /\ row.hash => row.state \in Signed \cup {"FAILED"}
    /\ row.state = "FAILED" => ~row.hash \/ row.receipt = "reverted"
    /\ row.state \in Booked <=> row.receipt = "success"
    /\ row.receipt # "none" => tx = row.receipt
    /\ tx # "none" => row.hash

RowsSound == \A i \in Ids : RowFits(i, intents[i], chain.tx[i])

(* Rows that are owed: the burn of a full close, the two rows of the canary. *)
Unburned ==
    {i \in Rows : /\ intents[i].key[1] = "preview"
                  /\ intents[i].action = "full_close"
                  /\ ~HasKey(<<"burn", i>>)}
Unclosed == {k \in CanaryKeys : ~HasKey(<<k, 0>>)}

KeysUnique == \A i, j \in Rows : intents[i].key = intents[j].key => i = j
NoGaps     == \A i \in Rows : \A j \in 1 .. i - 1 : j \in Rows
RoomLeft   == Cardinality(Rows) + Reserved <= MaxIntents
KeysSound  == KeysUnique /\ NoGaps /\ RoomLeft

(* What the bot knows of the row it works on, and of the one it will enter. *)
PcFits(pc, row, tx, in) ==
    /\ pc = "prepare" => row.state = "CLAIMED"
    /\ pc = "broadcast" => row.state = "PREPARED" /\ tx = "none"
    /\ pc \in {"probe", "wait"} => row.hash
    /\ pc \in {"confirmed", "account"} => row.receipt = "success"
    /\ pc = "account" => in /\ row.action \in {"partial_close", "full_close"}

KeyFits(key) ==
    /\ key \in Keys
    /\ key[1] = "preview" => intents[key[2]].key = key
    /\ key[1] = "burn" => /\ intents[key[2]].key = <<"preview", key[2]>>
                          /\ intents[key[2]].action = "full_close"
    /\ key[1] \in CanaryKeys => canary # "NONE"

BotSound ==
    /\ bot.pc # "idle" => KeyFits(bot.key)
    /\ bot.pc \notin {"idle", "enter"} => HasKey(bot.key)
    /\ \A i \in Rows : intents[i].key = bot.key =>
           PcFits(bot.pc, intents[i], chain.tx[i], i \in ingested)

ItemsSound ==
    \A i \in Ids : work[i] # "none" =>
        Confirmed(i) /\ intents[i].action \in {"collect", "full_close"}
WorkerSound ==
    worker.id # 0 =>
        /\ Confirmed(worker.id) /\ intents[worker.id].action \in {"collect", "full_close"}
        /\ intents[worker.id].action = "full_close" => worker.id \in ingested
WorkSound == ItemsSound /\ WorkerSound

(* A close is reconciled without a basis only where none can be taken any more. *)
Removal(i)   == intents[i].action \in {"partial_close", "full_close"}
Baseless(i)  == basis = <<>> /\ i \in ingested /\ \E j \in ingested : j # i
LandedOnce   == \A p \in DOMAIN chain.landed : chain.tx[chain.landed[p]] = "success"
BasisSettled == \A n \in DOMAIN basis : Confirmed(basis[n])
ClosesBooked ==
    \A i \in Ids : intents[i].state = "RECONCILED" /\ Removal(i) => InBasis(i) \/ Baseless(i)
BooksSound   == LandedOnce /\ BasisSettled /\ ClosesBooked /\ CloseTakesTheRest

LifeInv == LifeTyped /\ RowsSound /\ KeysSound /\ BotSound /\ WorkSound /\ BooksSound
-----------------------------------------------------------------------------
(* Ids and keys *)

LEMMA HalfOf ==
    ASSUME NEW n \in Nat
    PROVE  (n * 50) \div 100 \in 0 .. n
OBVIOUS

\* Without gaps the ids that were given out are an interval.
LEMMA RowsAreFirst ==
    ASSUME NoGaps
    PROVE  /\ IsFiniteSet(Rows) /\ Cardinality(Rows) \in Nat
           /\ Rows = 1 .. Cardinality(Rows)
           /\ Cardinality(Rows) <= MaxIntents
<1>1. Rows \subseteq 1 .. MaxIntents
  BY DEF Rows, Ids
<1>2. MaxIntents \in Nat
  BY BoundsAssumption
<1>3. PICK m \in Nat \ {0} : m \notin Rows /\ \A k \in Nat \ {0} : k < m => k \in Rows
  <2> DEFINE Free == {k \in Nat : k # 0 /\ k \notin Rows}
  <2>1. MaxIntents + 1 \in Free
    BY <1>1, <1>2
  <2>2. PICK m \in Free : \A k \in Free : ~(<<k, m>> \in OpToRel(<, Nat))
    BY <2>1, WFMin, NatLessThanWellFounded, Zenon
  <2>3. \A k \in Free : ~(k < m)
    BY <2>2 DEF OpToRel
  <2>4. m \in Nat \ {0} /\ m \notin Rows
    BY <2>2
  <2>5. \A k \in Nat \ {0} : k < m => k \in Rows
    BY <2>3
  <2> QED
    BY <2>4, <2>5
<1>4. Rows = 1 .. (m - 1)
  <2>1. ASSUME NEW i \in Rows PROVE i < m
    BY <2>1, <1>1, <1>3 DEF NoGaps
  <2>2. \A i : i \in Rows => i \in 1 .. (m - 1)
    BY <2>1, <1>1, <1>2, <1>3
  <2>3. \A i : i \in 1 .. (m - 1) => i \in Rows
    BY <1>3
  <2> QED
    BY <2>2, <2>3
<1>5. IsFiniteSet(1 .. (m - 1)) /\ Cardinality(1 .. (m - 1)) = m - 1
  BY <1>3, FS_Interval
<1>6. m - 1 <= MaxIntents
  BY <1>1, <1>2, <1>3, <1>4
<1> QED
  BY <1>3, <1>4, <1>5, <1>6

\* What is owed, counted.
LEMMA OwedCounted ==
    ASSUME NoGaps
    PROVE  /\ IsFiniteSet(Unburned) /\ Cardinality(Unburned) \in Nat
           /\ IsFiniteSet(Unclosed) /\ Cardinality(Unclosed) \in Nat
           /\ Reserved = Cardinality(Unburned)
                             + (IF canary = "NONE" THEN 0 ELSE Cardinality(Unclosed))
<1>1. IsFiniteSet(Unburned)
  <2>1. Unburned \in SUBSET Rows
    BY DEF Unburned
  <2> QED
    BY <2>1, RowsAreFirst, FS_Subset
<1>2. IsFiniteSet(Unclosed)
  <2>1. IsFiniteSet(CanaryKeys)
    <3>1. CanaryKeys = {"canary_close"} \cup {"canary_burn"}
      BY DEF CanaryKeys
    <3>2. IsFiniteSet({"canary_close"})
      BY FS_Singleton
    <3> QED
      BY <3>1, <3>2, FS_AddElement
  <2>2. Unclosed \in SUBSET CanaryKeys
    BY DEF Unclosed
  <2> QED
    BY <2>1, <2>2, FS_Subset
<1>3. Reserved = Cardinality(Unburned)
                     + (IF canary = "NONE" THEN 0 ELSE Cardinality(Unclosed))
  BY DEF Reserved, Unburned, Unclosed, CanaryKeys
<1> QED
  BY <1>1, <1>2, <1>3, FS_CardinalityType

\* Where there is room the next id is a new one.
LEMMA NextIdIsNew ==
    ASSUME NoGaps, Cardinality(Rows) + 1 <= MaxIntents
    PROVE  /\ NextId \in Ids /\ NextId \notin Rows
           /\ \A j \in 1 .. NextId - 1 : j \in Rows
BY RowsAreFirst, BoundsAssumption DEF NextId, Ids

\* The row of a key is found again.
LEMMA RowOfKey ==
    ASSUME NEW key, HasKey(key)
    PROVE  IdOf(key) \in Rows /\ intents[IdOf(key)].key = key
BY DEF HasKey, IdOf

LEMMA SelfIsRow ==
    ASSUME HasKey(bot.key)
    PROVE  /\ Self \in Rows /\ Self \in Ids /\ intents[Self].key = bot.key
           /\ intents[Self].state # "NONE"
BY RowOfKey DEF Self, Rows

LEMMA SelfIsOnly ==
    ASSUME KeysUnique, HasKey(bot.key), NEW i \in Rows, intents[i].key = bot.key
    PROVE  i = Self
BY SelfIsRow DEF KeysUnique

LEMMA KeyForms ==
    ASSUME NEW key \in Keys
    PROVE  /\ key[1] \in {"preview", "burn"} \cup CanaryKeys
           /\ key[1] \in {"preview", "burn"} => key[2] \in Ids
           /\ key[1] \in CanaryKeys => key[2] = 0
           /\ key = <<key[1], key[2]>> /\ key # NoKey
BY DEF Keys, CanaryKeys, NoKey

(* Steps that keep the rows there are *)

RowsKept ==
    \A i \in Ids :
        /\ intents[i].state # "NONE" => /\ intents'[i].key = intents[i].key
                                        /\ intents'[i].action = intents[i].action
                                        /\ intents'[i].state # "NONE"
        /\ Confirmed(i) => Confirmed(i)'
NoNewRow == \A i \in Ids : intents[i].state = "NONE" => intents'[i].state = "NONE"
NoneBooked ==
    \A i \in Ids : intents'[i].state = "RECONCILED" => intents[i].state = "RECONCILED"
CanaryKept == canary' = "NONE" <=> canary = "NONE"

LEMMA SameRows ==
    ASSUME RowsKept, NoNewRow
    PROVE  Rows' = Rows /\ \A key : HasKey(key)' <=> HasKey(key)
<1>1. Rows' = Rows
  BY DEF Rows, RowsKept, NoNewRow
<1>2. \A i \in Rows : intents'[i].key = intents[i].key
  BY DEF Rows, RowsKept
<1> QED
  BY <1>1, <1>2 DEF HasKey

LEMMA KeysKept ==
    ASSUME KeysSound, RowsKept, NoNewRow, CanaryKept
    PROVE  KeysSound'
<1>1. Rows' = Rows /\ \A key : HasKey(key)' <=> HasKey(key)
  BY SameRows
<1>2. \A i \in Rows : intents'[i].key = intents[i].key /\ intents'[i].action = intents[i].action
  BY DEF Rows, RowsKept
<1>3. Unburned' = Unburned
  <2>1. \A i \in Rows : HasKey(<<"burn", i>>)' <=> HasKey(<<"burn", i>>)
    BY <1>1
  <2> QED
    BY <1>1, <1>2, <2>1 DEF Unburned
<1>4. Unclosed' = Unclosed
  <2>1. \A k \in CanaryKeys : HasKey(<<k, 0>>)' <=> HasKey(<<k, 0>>)
    BY <1>1
  <2> QED
    BY <2>1 DEF Unclosed
<1>5. Reserved' = Reserved
  <2>1. Reserved = Cardinality(Unburned)
                       + (IF canary = "NONE" THEN 0 ELSE Cardinality(Unclosed))
    BY DEF Reserved, Unburned, Unclosed, CanaryKeys
  <2>2. Reserved' = Cardinality(Unburned')
                       + (IF canary' = "NONE" THEN 0 ELSE Cardinality(Unclosed'))
    BY DEF Reserved, Unburned, Unclosed, CanaryKeys
  <2> QED
    BY <1>3, <1>4, <2>1, <2>2 DEF CanaryKept
<1>6. KeysUnique'
  BY <1>1, <1>2 DEF KeysUnique, KeysSound
<1>7. NoGaps'
  BY <1>1 DEF NoGaps, KeysSound
<1>8. RoomLeft'
  BY <1>1, <1>5 DEF RoomLeft, KeysSound
<1> QED
  BY <1>6, <1>7, <1>8 DEF KeysSound

(* A step that makes a row *)

LEMMA RowMade ==
    ASSUME IntentsTyped, KeysSound, NextId \in Ids, NextId \notin Rows,
           NEW row, row.state # "NONE", ~HasKey(row.key),
           intents' = [intents EXCEPT ![NextId] = row]
    PROVE  /\ Rows' = Rows \cup {NextId} /\ Cardinality(Rows') = Cardinality(Rows) + 1
           /\ KeysUnique' /\ NoGaps'
           /\ \A key : HasKey(key)' <=> HasKey(key) \/ key = row.key
<1> DEFINE n == NextId
<1>1. n \in Ids /\ n \notin Rows
  OBVIOUS
<1>2. /\ intents'[n] = row
      /\ \A i \in Ids : i # n => intents'[i] = intents[i]
  BY <1>1 DEF IntentsTyped
<1>3. n = Cardinality(Rows) + 1
  BY DEF NextId
<1>0. n = NextId
  OBVIOUS
<1> HIDE DEF n
<1>4. Rows' = Rows \cup {n}
  BY <1>1, <1>2 DEF Rows
<1>5. Cardinality(Rows') = Cardinality(Rows) + 1
  BY <1>1, <1>4, RowsAreFirst, FS_AddElement DEF KeysSound
<1>6. \A i \in Rows : i \in Ids /\ i # n /\ intents'[i] = intents[i]
  BY <1>1, <1>2 DEF Rows
<1>7. \A key : HasKey(key)' <=> HasKey(key) \/ key = row.key
  BY <1>2, <1>4, <1>6 DEF HasKey
<1>8. KeysUnique'
  <2>1. \A i \in Rows : intents[i].key # row.key
    BY DEF HasKey
  <2> QED
    BY <1>2, <1>4, <1>6, <2>1 DEF KeysUnique, KeysSound
<1>9. NoGaps'
  <2>1. Rows = 1 .. n - 1
    BY <1>3, RowsAreFirst DEF KeysSound
  <2>2. n \in Nat /\ n >= 1
    BY <1>1, BoundsAssumption DEF Ids
  <2>3. 1 .. n = (1 .. n - 1) \cup {n}
    BY <2>2
  <2>4. Rows' = 1 .. n
    BY <1>4, <2>1, <2>3
  <2> QED
    BY <2>2, <2>4 DEF NoGaps
<1> QED
  BY <1>0, <1>4, <1>5, <1>7, <1>8, <1>9

\* A preview needs room for itself and, if it closes all, for the burn.
LEMMA RoomAfterPreview ==
    ASSUME IntentsTyped, KeysSound, NextId \in Ids, NextId \notin Rows, NEW row, row.state # "NONE",
           row.key = <<"preview", NextId>>, ~HasKey(row.key),
           intents' = [intents EXCEPT ![NextId] = row], canary' = canary,
           Cardinality(Rows) + Reserved + (IF row.action = "full_close" THEN 2 ELSE 1)
               <= MaxIntents
    PROVE  KeysSound'
<1>1. /\ Rows' = Rows \cup {NextId} /\ Cardinality(Rows') = Cardinality(Rows) + 1
      /\ KeysUnique' /\ NoGaps'
      /\ \A key : HasKey(key)' <=> HasKey(key) \/ key = row.key
  BY RowMade
<1>2. /\ intents'[NextId] = row
      /\ \A i \in Rows : intents'[i] = intents[i]
  BY DEF IntentsTyped, Rows
<1>3. \A i : HasKey(<<"burn", i>>)' <=> HasKey(<<"burn", i>>)
  BY <1>1
<1>4. \A k \in CanaryKeys : HasKey(<<k, 0>>)' <=> HasKey(<<k, 0>>)
  BY <1>1 DEF CanaryKeys
<1>5. Unclosed' = Unclosed
  BY <1>4 DEF Unclosed
<1>6. \/ Unburned' = Unburned
      \/ row.action = "full_close" /\ Unburned' = Unburned \cup {NextId}
  BY <1>1, <1>2, <1>3 DEF Unburned
<1>7. /\ IsFiniteSet(Unburned) /\ Cardinality(Unburned) \in Nat
      /\ Cardinality(Unclosed) \in Nat
      /\ Reserved = Cardinality(Unburned)
                        + (IF canary = "NONE" THEN 0 ELSE Cardinality(Unclosed))
  BY OwedCounted DEF KeysSound
<1>8. \/ Cardinality(Unburned') = Cardinality(Unburned)
      \/ row.action = "full_close" /\ Cardinality(Unburned') = Cardinality(Unburned) + 1
  <2>1. Cardinality(Unburned \cup {NextId}) \in {Cardinality(Unburned), Cardinality(Unburned) + 1}
    BY <1>7, FS_AddElement
  <2> QED
    BY <1>6, <2>1
<1>9. Reserved' = Cardinality(Unburned')
                      + (IF canary' = "NONE" THEN 0 ELSE Cardinality(Unclosed'))
  BY DEF Reserved, Unburned, Unclosed, CanaryKeys
<1>10. Cardinality(Rows) \in Nat
  BY RowsAreFirst DEF KeysSound
<1>11. RoomLeft'
  BY <1>1, <1>5, <1>7, <1>8, <1>9, <1>10, BoundsAssumption DEF RoomLeft
<1> QED
  BY <1>1, <1>11 DEF KeysSound

\* A row that was owed takes the room that was kept for it.
LEMMA RoomAfterOwed ==
    ASSUME IntentsTyped, KeysSound, NEW row, row.state # "NONE", ~HasKey(row.key),
           \/ \E j \in Rows : /\ row.key = <<"burn", j>>
                              /\ intents[j].key[1] = "preview"
                              /\ intents[j].action = "full_close"
           \/ canary # "NONE" /\ \E k \in CanaryKeys : row.key = <<k, 0>>,
           intents' = [intents EXCEPT ![NextId] = row], canary' = canary
    PROVE  KeysSound' /\ NextId \in Ids /\ NextId \notin Rows
<1>1. /\ IsFiniteSet(Unburned) /\ Cardinality(Unburned) \in Nat
      /\ IsFiniteSet(Unclosed) /\ Cardinality(Unclosed) \in Nat
      /\ Reserved = Cardinality(Unburned)
                        + (IF canary = "NONE" THEN 0 ELSE Cardinality(Unclosed))
  BY OwedCounted DEF KeysSound
<1>2. Cardinality(Rows) \in Nat
  BY RowsAreFirst DEF KeysSound
<1>3. \/ \E j \in Unburned : row.key = <<"burn", j>>
      \/ canary # "NONE" /\ \E k \in Unclosed : row.key = <<k, 0>>
  BY DEF Unburned, Unclosed
<1>4. Cardinality(Unburned) > 0 \/ (canary # "NONE" /\ Cardinality(Unclosed) > 0)
  BY <1>1, <1>3, FS_EmptySet
<1>5. Cardinality(Rows) + 1 <= MaxIntents
  BY <1>1, <1>2, <1>4, BoundsAssumption DEF RoomLeft, KeysSound
<1>6. NextId \in Ids /\ NextId \notin Rows
  BY <1>5, NextIdIsNew DEF KeysSound
<1>7. /\ Rows' = Rows \cup {NextId} /\ Cardinality(Rows') = Cardinality(Rows) + 1
      /\ KeysUnique' /\ NoGaps'
      /\ \A key : HasKey(key)' <=> HasKey(key) \/ key = row.key
  BY <1>6, RowMade
<1>8. /\ intents'[NextId] = row
      /\ \A i \in Rows : intents'[i] = intents[i]
  BY <1>6 DEF IntentsTyped, Rows
<1>9. row.key[1] # "preview"
  BY <1>3 DEF Unclosed, CanaryKeys
<1>10. \A i : HasKey(<<"burn", i>>)' <=> HasKey(<<"burn", i>>) \/ row.key = <<"burn", i>>
  BY <1>7
<1>11. \A k : HasKey(<<k, 0>>)' <=> HasKey(<<k, 0>>) \/ row.key = <<k, 0>>
  BY <1>7
<1>12. Unburned' = {i \in Unburned : row.key # <<"burn", i>>}
  BY <1>7, <1>8, <1>9, <1>10 DEF Unburned
<1>13. Unclosed' = {k \in Unclosed : row.key # <<k, 0>>}
  BY <1>11 DEF Unclosed
<1>14. \/ \E j \in Unburned : Unburned' = Unburned \ {j} /\ Unclosed' = Unclosed
       \/ canary # "NONE" /\ \E k \in Unclosed : Unburned' = Unburned /\ Unclosed' = Unclosed \ {k}
  <2>1. ASSUME NEW j \in Unburned, row.key = <<"burn", j>>
        PROVE  Unburned' = Unburned \ {j} /\ Unclosed' = Unclosed
    BY <2>1, <1>12, <1>13 DEF Unclosed, CanaryKeys
  <2>2. ASSUME NEW k \in Unclosed, row.key = <<k, 0>>
        PROVE  Unburned' = Unburned /\ Unclosed' = Unclosed \ {k}
    BY <2>2, <1>12, <1>13 DEF Unclosed, CanaryKeys
  <2> QED
    BY <1>3, <2>1, <2>2
<1>15. Reserved' = Cardinality(Unburned')
                      + (IF canary' = "NONE" THEN 0 ELSE Cardinality(Unclosed'))
  BY DEF Reserved, Unburned, Unclosed, CanaryKeys
<1>16. Reserved' = Reserved - 1
  <2>1. \A j \in Unburned : Cardinality(Unburned \ {j}) = Cardinality(Unburned) - 1
    BY <1>1, FS_RemoveElement
  <2>2. \A k \in Unclosed : Cardinality(Unclosed \ {k}) = Cardinality(Unclosed) - 1
    BY <1>1, FS_RemoveElement
  <2> QED
    BY <1>1, <1>14, <1>15, <2>1, <2>2
<1>17. Reserved \in Nat
  BY <1>1
<1>18. RoomLeft'
  BY <1>2, <1>7, <1>16, <1>17, BoundsAssumption DEF RoomLeft, KeysSound
<1> QED
  BY <1>6, <1>7, <1>18 DEF KeysSound
-----------------------------------------------------------------------------
(* What the parts of the invariant keep *)

LEMMA RowChanged ==
    ASSUME IntentsTyped, RowsSound, NEW i \in Rows, NEW row \in RowSet,
           intents' = [intents EXCEPT ![i] = row], chain'.tx = chain.tx,
           row.key = intents[i].key, row.action = intents[i].action,
           RowFits(i, row, chain.tx[i]), Confirmed(i) => row.receipt = "success"
    PROVE  /\ IntentsTyped' /\ RowsSound' /\ RowsKept /\ NoNewRow
           /\ intents'[i] = row /\ \A j \in Ids : j # i => intents'[j] = intents[j]
<1>1. i \in Ids /\ intents[i].state # "NONE"
  BY DEF Rows
<1>2. /\ intents'[i] = row
      /\ \A j \in Ids : j # i => intents'[j] = intents[j]
  BY <1>1 DEF IntentsTyped
<1>3. IntentsTyped'
  BY <1>1 DEF IntentsTyped
<1>4. RowsSound'
  BY <1>2 DEF RowsSound
<1>5. row.state # "NONE"
  BY <1>1 DEF RowsSound, RowFits
<1>6. RowsKept
  BY <1>2, <1>5 DEF RowsKept, Confirmed
<1>7. NoNewRow
  BY <1>1, <1>2 DEF NoNewRow
<1> QED
  BY <1>2, <1>3, <1>4, <1>6, <1>7

\* A row with a successful receipt is there, and so is one whose transaction landed.
LEMMA ConfirmedIsRow ==
    ASSUME RowsSound, NEW i \in Ids, Confirmed(i) \/ chain.tx[i] = "success"
    PROVE  i \in Rows /\ chain.tx[i] = "success"
<1>1. chain.tx[i] = "success"
  BY DEF RowsSound, RowFits, Confirmed
<1>2. intents[i].hash
  BY <1>1 DEF RowsSound, RowFits
<1>3. intents[i].state \in Signed \cup {"FAILED"}
  BY <1>2 DEF RowsSound, RowFits
<1>4. intents[i].state # "NONE"
  BY <1>3 DEF Signed, Booked, ConfirmedStates
<1> QED
  BY <1>1, <1>4 DEF Rows

LEMMA ConfirmedStays ==
    ASSUME RowsSound, RowsKept, NEW i \in Ids, Confirmed(i)
    PROVE  Confirmed(i)' /\ intents'[i].action = intents[i].action
BY ConfirmedIsRow DEF RowsKept, Rows

LEMMA ItemsKept ==
    ASSUME RowsSound, ItemsSound, RowsKept,
           \A i \in Ids : work'[i] # "none" =>
               \/ work[i] # "none"
               \/ Confirmed(i) /\ intents[i].action \in {"collect", "full_close"}
    PROVE  ItemsSound'
BY ConfirmedStays DEF ItemsSound

LEMMA WorkerKept ==
    ASSUME WorkTyped, RowsSound, WorkerSound, RowsKept, ingested \subseteq ingested',
           worker' = worker
    PROVE  WorkerSound'
<1>1. worker.id # 0 => worker.id \in Ids
  BY DEF WorkTyped
<1>2. worker'.id # 0 =>
          /\ Confirmed(worker.id) /\ intents[worker.id].action \in {"collect", "full_close"}
          /\ intents[worker.id].action = "full_close" => worker.id \in ingested
  BY DEF WorkerSound
<1>3. ASSUME NEW i \in Ids, Confirmed(i)
      PROVE  intents'[i].receipt = "success" /\ intents'[i].action = intents[i].action
  BY <1>3, ConfirmedStays DEF Confirmed
<1>4. worker'.id # 0 =>
          /\ intents'[worker.id].receipt = "success"
          /\ intents'[worker.id].action \in {"collect", "full_close"}
          /\ intents'[worker.id].action = "full_close" => worker.id \in ingested'
  BY <1>1, <1>2, <1>3
<1> QED
  BY <1>4 DEF WorkerSound, Confirmed

LEMMA WorkKept ==
    ASSUME WorkTyped, RowsSound, WorkSound, RowsKept,
           ingested \subseteq ingested', work' = work, worker' = worker
    PROVE  WorkSound'
BY ItemsKept, WorkerKept DEF WorkSound

LEMMA BooksKept ==
    ASSUME ChainTyped, basis \in Seq(Ids), RowsSound, BooksSound, RowsKept, NoneBooked,
           basis' = basis, ingested \subseteq ingested', chain'.landed = chain.landed,
           \A i \in Ids : chain.tx[i] = "success" => chain'.tx[i] = "success"
    PROVE  BooksSound'
<1>1. \A p \in DOMAIN chain.landed : chain.landed[p] \in Ids
  BY DEF ChainTyped
<1>2. \A n \in DOMAIN basis : basis[n] \in Ids
  OBVIOUS
<1>3. LandedOnce'
  BY <1>1 DEF LandedOnce, BooksSound
<1>4. BasisSettled'
  BY <1>2 DEF BasisSettled, BooksSound, RowsKept
<1>5. ClosesBooked'
  <2> SUFFICES ASSUME NEW i \in Ids, intents'[i].state = "RECONCILED", Removal(i)'
               PROVE  InBasis(i)' \/ Baseless(i)'
    BY DEF ClosesBooked
  <2>1. intents[i].state = "RECONCILED"
    BY DEF NoneBooked
  <2>2. Removal(i)
    BY <2>1 DEF RowsKept, Removal
  <2>3. InBasis(i) \/ Baseless(i)
    BY <2>1, <2>2 DEF ClosesBooked, BooksSound
  <2>4. InBasis(i) => InBasis(i)'
    BY DEF InBasis
  <2>5. Baseless(i) => Baseless(i)'
    BY DEF Baseless
  <2> QED
    BY <2>3, <2>4, <2>5
<1>6. CloseTakesTheRest'
  <2> SUFFICES ASSUME NEW n \in DOMAIN basis, NEW i \in 1 .. basis[n] - 1, Before(i, basis[n])',
                      intents'[i].action \in {"partial_close", "full_close"}
               PROVE  \E m \in 1 .. n - 1 : basis[m] = i
    BY DEF CloseTakesTheRest
  <2>1. Before(i, basis[n])
    BY DEF Before
  <2>2. PICK p \in DOMAIN chain.landed : chain.landed[p] = i
    BY <2>1 DEF Before
  <2>3. i \in Ids /\ chain.tx[i] = "success"
    BY <1>1, <2>2 DEF LandedOnce, BooksSound
  <2>4. intents[i].action = intents'[i].action
    BY <2>3, ConfirmedIsRow DEF RowsKept, Rows
  <2> QED
    BY <2>1, <2>4 DEF CloseTakesTheRest, BooksSound
<1> QED
  BY <1>3, <1>4, <1>5, <1>6 DEF BooksSound

LEMMA KeyStillFits ==
    ASSUME IntentsTyped, RowsSound, RowsKept, CanaryKept, NEW key, KeyFits(key)
    PROVE  KeyFits(key)'
<1>1. key \in Keys
  BY DEF KeyFits
<1>2. /\ key[1] \in {"preview", "burn"} => key[2] \in Ids
      /\ key # NoKey
  BY <1>1, KeyForms
<1>3. ASSUME NEW i \in Ids, intents[i].key # NoKey
      PROVE  intents'[i].key = intents[i].key /\ intents'[i].action = intents[i].action
  BY <1>3 DEF RowsSound, RowFits, RowsKept
<1>4. key[1] = "preview" => intents'[key[2]].key = key
  BY <1>2, <1>3 DEF KeyFits
<1>5. key[1] = "burn" => /\ intents'[key[2]].key = <<"preview", key[2]>>
                         /\ intents'[key[2]].action = "full_close"
  <2>1. <<"preview", key[2]>> # NoKey
    BY DEF NoKey
  <2> QED
    BY <1>2, <1>3, <2>1 DEF KeyFits
<1> QED
  BY <1>1, <1>4, <1>5 DEF KeyFits, CanaryKept

\* The bot goes on with the row it works on.
LEMMA BotGoesOn ==
    ASSUME IntentsTyped, RowsSound, KeysUnique, RowsKept, NoNewRow, CanaryKept,
           KeyFits(bot.key), HasKey(bot.key), bot'.key = bot.key,
           PcFits(bot'.pc, intents'[Self], chain'.tx[Self], Self \in ingested')
    PROVE  BotSound'
<1>1. Rows' = Rows
  BY SameRows
<1>2. \A i \in Rows : intents'[i].key = intents[i].key
  BY DEF Rows, RowsKept
<1>3. HasKey(bot.key)'
  BY <1>1, <1>2 DEF HasKey
<1>4. KeyFits(bot.key)'
  <2>1. \A key : KeyFits(key) => KeyFits(key)'
    BY KeyStillFits
  <2> QED
    BY <2>1 DEF KeyFits
<1>5. ASSUME NEW i \in Rows, intents'[i].key = bot'.key
      PROVE  i = Self
  BY <1>2, <1>5, SelfIsOnly
<1>6. \A i \in Rows' : intents'[i].key = bot'.key =>
          PcFits(bot'.pc, intents'[i], chain'.tx[i], i \in ingested')
  BY <1>1, <1>5
<1> QED
  BY <1>3, <1>4, <1>6 DEF BotSound

\* The bot leaves the row: it rests, or enters the next row.
LEMMA BotLeaves ==
    ASSUME bot'.pc \in {"idle", "enter"}, bot'.pc = "enter" => KeyFits(bot.key)'
    PROVE  BotSound'
BY DEF BotSound, PcFits

LEMMA AtTyped ==
    /\ Idle \in BotSet
    /\ \A pc \in Pcs, key \in Keys :
           /\ At(pc, key) \in BotSet
           /\ At(pc, key).pc = pc /\ At(pc, key).key = key
<1>1. Idle \in BotSet
  BY BoundsAssumption DEF BotSet, Idle, Pcs, Held, Statuses, NoKey
<1> QED
  BY <1>1 DEF At, BotSet

LEMMA FailsLeaves ==
    ASSUME BotTyped, bot.pc # "idle", KeyFits(bot.key), Fails
    PROVE  BotTyped' /\ CanaryKept /\ BotSound'
<1>1. bot' = Idle /\ bot'.pc = "idle"
  BY DEF Fails, Idle
<1>2. CanaryKept
  BY DEF Fails, CanaryKept, KeyFits, CanaryKeys
<1>3. BotTyped'
  BY <1>1, AtTyped DEF Fails, BotTyped
<1> QED
  BY <1>1, <1>2, <1>3, BotLeaves

LEMMA IdleLeaves ==
    ASSUME BotTyped, bot' = Idle, canary' = canary
    PROVE  BotTyped' /\ CanaryKept /\ BotSound'
<1>1. bot'.pc = "idle"
  BY DEF Idle
<1>2. BotTyped' /\ CanaryKept
  BY AtTyped DEF BotTyped, CanaryKept
<1> QED
  BY <1>1, <1>2, BotLeaves

\* After an action that is done the bot rests or goes on with a burn.
LEMMA SucceedsLeaves ==
    ASSUME LifeTyped, RowsSound, RowsKept, KeyFits(bot.key), HasKey(bot.key), bot.pc # "idle",
           NEW books, Succeeds(intents[Self], books)
    PROVE  BotTyped' /\ CanaryKept /\ BotSound'
<1> DEFINE row == intents[Self]
<1>1. row.breach \in BOOLEAN /\ Self \in Ids /\ row.key = bot.key
  BY SelfIsRow DEF LifeTyped, IntentsTyped, RowSet
<1>2. CASE bot.key[1] = "preview" /\ row.action = "full_close"
  <2>1. bot' = At("enter", <<"burn", bot.key[2]>>) /\ canary' = canary
    BY <1>2 DEF Succeeds
  <2>2. bot.key[2] = Self
    BY <1>1, <1>2 DEF RowsSound, RowFits
  <2>3. bot'.pc = "enter" /\ bot'.key = <<"burn", Self>>
    BY <2>1, <2>2 DEF At, Idle
  <2>4. KeyFits(<<"burn", Self>>)
    <3>1. bot.key = <<"preview", Self>>
      BY <1>2, <2>2, KeyForms DEF KeyFits
    <3> QED
      BY <1>1, <1>2, <3>1 DEF KeyFits, Keys, CanaryKeys
  <2>5. CanaryKept
    BY <2>1 DEF CanaryKept
  <2>6. KeyFits(bot.key)'
    <3>1. \A key : KeyFits(key) => KeyFits(key)'
      BY <2>5, KeyStillFits DEF LifeTyped
    <3> QED
      BY <2>3, <2>4, <3>1 DEF KeyFits
  <2>7. BotTyped'
    BY <2>1, <2>2, <2>4, AtTyped DEF LifeTyped, BotTyped, Pcs, KeyFits
  <2> QED
    BY <2>3, <2>5, <2>6, <2>7, BotLeaves
<1>3. CASE bot.key[1] = "canary_close" /\ ~row.breach
  <2>1. bot' = At("enter", <<"canary_burn", 0>>) /\ canary' = canary
    BY <1>3 DEF Succeeds
  <2>2. bot'.pc = "enter" /\ bot'.key = <<"canary_burn", 0>>
    BY <2>1 DEF At, Idle
  <2>3. CanaryKept
    BY <2>1 DEF CanaryKept
  <2>4. canary # "NONE"
    BY <1>3 DEF KeyFits, CanaryKeys
  <2>5. KeyFits(bot.key)'
    BY <2>1, <2>2, <2>4 DEF KeyFits, Keys, CanaryKeys
  <2>6. BotTyped'
    <3>1. <<"canary_burn", 0>> \in Keys
      BY DEF Keys, CanaryKeys
    <3> QED
      BY <2>1, <3>1, AtTyped DEF LifeTyped, BotTyped, Pcs
  <2> QED
    BY <2>2, <2>3, <2>5, <2>6, BotLeaves
<1>4. CASE bot.key[1] = "canary_close" /\ row.breach
  <2>1. Fails
    BY <1>4 DEF Succeeds
  <2> QED
    BY <2>1, FailsLeaves DEF LifeTyped
<1>5. CASE bot.key[1] = "canary_burn" /\ TerminalBooks(books)
  <2>1. bot' = Idle /\ canary' = "CLOSED"
    BY <1>5 DEF Succeeds
  <2>2. canary # "NONE"
    BY <1>5 DEF KeyFits, CanaryKeys
  <2>3. CanaryKept
    BY <2>1, <2>2 DEF CanaryKept
  <2>4. BotTyped' /\ bot'.pc = "idle"
    BY <2>1, AtTyped DEF LifeTyped, BotTyped, Idle
  <2> QED
    BY <2>3, <2>4, BotLeaves
<1>6. CASE bot.key[1] = "canary_burn" /\ ~TerminalBooks(books)
  <2>1. Fails
    BY <1>6 DEF Succeeds
  <2> QED
    BY <2>1, FailsLeaves DEF LifeTyped
<1>7. CASE /\ ~(bot.key[1] = "preview" /\ row.action = "full_close")
           /\ bot.key[1] \notin {"canary_close", "canary_burn"}
  <2>1. bot' = Idle /\ canary' = canary
    BY <1>7 DEF Succeeds
  <2> QED
    BY <2>1, IdleLeaves DEF LifeTyped
<1> QED
  BY <1>1, <1>2, <1>3, <1>4, <1>5, <1>6, <1>7
-----------------------------------------------------------------------------
(* The ways a row is rewritten *)

ToRow(row, state) ==
    IF (row.receipt = "success" \/ row.state \in Booked) /\ state \notin Booked
    THEN row ELSE [row EXCEPT !.state = state]

CaughtRow(row) ==
    IF (row.hash /\ row.receipt = "none") \/ row.receipt = "success"
    THEN row ELSE [row EXCEPT !.state = "FAILED"]

AckRow(row) ==
    IF row.state = "CONFIRMED_RECONCILIATION_REQUIRED" THEN ToRow(row, "CONFIRMED") ELSE row

LEMMA SameRow ==
    ASSUME IntentsTyped, NEW i \in Ids
    PROVE  intents = [intents EXCEPT ![i] = intents[i]]
BY DEF IntentsTyped

LEMMA ToRewrites ==
    ASSUME IntentsTyped, NEW i \in Ids, NEW state
    PROVE  To(i, state) = [intents EXCEPT ![i] = ToRow(intents[i], state)]
<1>1. CASE Refused(i, state)
  <2>1. ToRow(intents[i], state) = intents[i]
    BY <1>1 DEF Refused, Confirmed, ToRow, Booked
  <2> QED
    BY <1>1, <2>1, SameRow DEF To
<1>2. CASE ~Refused(i, state)
  <2>1. ToRow(intents[i], state) = [intents[i] EXCEPT !.state = state]
    BY <1>2 DEF Refused, Confirmed, ToRow, Booked
  <2> QED
    BY <1>2, <2>1 DEF To
<1> QED
  BY <1>1, <1>2

LEMMA CaughtRewrites ==
    ASSUME IntentsTyped, NEW i \in Ids
    PROVE  Caught(i) = [intents EXCEPT ![i] = CaughtRow(intents[i])]
<1>1. CASE (intents[i].hash /\ intents[i].receipt = "none") \/ Confirmed(i)
  BY <1>1, SameRow DEF Caught, CaughtRow, Confirmed
<1>2. CASE ~((intents[i].hash /\ intents[i].receipt = "none") \/ Confirmed(i))
  BY <1>2 DEF Caught, CaughtRow, Confirmed
<1> QED
  BY <1>1, <1>2

LEMMA AckRewrites ==
    ASSUME IntentsTyped, NEW i \in Ids
    PROVE  Acknowledged(i) = [intents EXCEPT ![i] = AckRow(intents[i])]
BY ToRewrites, SameRow DEF Acknowledged, AckRow

\* The catch clause keeps a row sound, and never touches what may have landed.
LEMMA CaughtFits ==
    ASSUME NEW i \in Ids, NEW row \in RowSet, NEW tx, RowFits(i, row, tx), row.state # "NONE"
    PROVE  /\ CaughtRow(row) \in RowSet
           /\ CaughtRow(row).key = row.key /\ CaughtRow(row).action = row.action
           /\ CaughtRow(row).receipt = row.receipt /\ CaughtRow(row).hash = row.hash
           /\ CaughtRow(row).state \in {row.state, "FAILED"}
           /\ RowFits(i, CaughtRow(row), tx)
<1>1. CASE (row.hash /\ row.receipt = "none") \/ row.receipt = "success"
  BY <1>1 DEF CaughtRow
<1>2. CASE ~((row.hash /\ row.receipt = "none") \/ row.receipt = "success")
  <2> DEFINE r == [row EXCEPT !.state = "FAILED"]
  <2>1. CaughtRow(row) = r
    BY <1>2 DEF CaughtRow
  <2>2. /\ r \in RowSet /\ r.state = "FAILED" /\ r.key = row.key /\ r.action = row.action
        /\ r.receipt = row.receipt /\ r.hash = row.hash /\ r.removed = row.removed
    BY DEF RowSet, RowStates
  <2> HIDE DEF r
  <2>3. row.key # NoKey
    BY DEF RowFits
  <2>4. row.receipt \in {"none", "success", "reverted"} /\ row.hash \in BOOLEAN
    BY DEF RowSet
  <2>5. RowFits(i, r, tx)
    BY <1>2, <2>2, <2>3, <2>4 DEF RowFits, Signed, Booked, ConfirmedStates
  <2> QED
    BY <2>1, <2>2, <2>5
<1> QED
  BY <1>1, <1>2

\* A transition keeps a row sound that is signed, or that has its receipt.
LEMMA ToFits ==
    ASSUME NEW i \in Ids, NEW row \in RowSet, NEW tx, RowFits(i, row, tx),
           NEW state \in {"SUBMITTED", "CONFIRMED", "RECONCILED", "BURNED"},
           row.hash = TRUE, state # "SUBMITTED" => row.receipt = "success",
           state = "BURNED" => row.action = "burn"
    PROVE  /\ ToRow(row, state) \in RowSet
           /\ ToRow(row, state).key = row.key /\ ToRow(row, state).action = row.action
           /\ ToRow(row, state).receipt = row.receipt /\ ToRow(row, state).hash = row.hash
           /\ ToRow(row, state).state \in {row.state, state}
           /\ RowFits(i, ToRow(row, state), tx)
<1>1. CASE (row.receipt = "success" \/ row.state \in Booked) /\ state \notin Booked
  BY <1>1 DEF ToRow
<1>2. CASE ~((row.receipt = "success" \/ row.state \in Booked) /\ state \notin Booked)
  <2> DEFINE r == [row EXCEPT !.state = state]
  <2>1. ToRow(row, state) = r
    BY <1>2 DEF ToRow
  <2>2. /\ r \in RowSet /\ r.state = state /\ r.key = row.key /\ r.action = row.action
        /\ r.receipt = row.receipt /\ r.hash = row.hash /\ r.removed = row.removed
    BY DEF RowSet, RowStates, Signed, Booked, ConfirmedStates
  <2> HIDE DEF r
  <2>3. row.key # NoKey
    BY DEF RowFits, Signed, Booked, ConfirmedStates
  <2>4. state = "SUBMITTED" => row.receipt # "success"
    BY <1>2 DEF Booked, ConfirmedStates
  <2>5. RowFits(i, r, tx)
    BY <1>2, <2>2, <2>3, <2>4 DEF RowFits, Signed, Booked, ConfirmedStates
  <2> QED
    BY <2>1, <2>2, <2>5
<1> QED
  BY <1>1, <1>2
-----------------------------------------------------------------------------
(* The bot's steps on its row *)

\* A step of the bot that rewrites its own row.
LEMMA SelfStep ==
    ASSUME LifeInv, HasKey(bot.key), bot.pc # "idle", NEW row \in RowSet,
           intents' = [intents EXCEPT ![Self] = row], chain'.tx = chain.tx,
           row.key = intents[Self].key, row.action = intents[Self].action,
           RowFits(Self, row, chain.tx[Self]), Confirmed(Self) => row.receipt = "success"
    PROVE  /\ Self \in Ids /\ Self \in Rows
           /\ IntentsTyped' /\ RowsSound' /\ RowsKept /\ NoNewRow
           /\ intents'[Self] = row
           /\ \A j \in Ids : j # Self => intents'[j] = intents[j]
           /\ (row.state = "RECONCILED" => intents[Self].state = "RECONCILED") => NoneBooked
<1>1. Self \in Rows /\ Self \in Ids
  BY SelfIsRow
<1>2. IntentsTyped /\ RowsSound
  BY DEF LifeInv, LifeTyped
<1>3. /\ IntentsTyped' /\ RowsSound' /\ RowsKept /\ NoNewRow
      /\ intents'[Self] = row /\ \A j \in Ids : j # Self => intents'[j] = intents[j]
  BY <1>1, <1>2, RowChanged
<1> QED
  BY <1>1, <1>3 DEF NoneBooked

\* What the bot knows of its row.
LEMMA SelfFits ==
    ASSUME LifeInv, bot.pc \notin {"idle", "enter"}
    PROVE  /\ HasKey(bot.key) /\ KeyFits(bot.key)
           /\ Self \in Ids /\ Self \in Rows /\ intents[Self] \in RowSet
           /\ intents[Self].key = bot.key /\ intents[Self].state # "NONE"
           /\ RowFits(Self, intents[Self], chain.tx[Self])
           /\ PcFits(bot.pc, intents[Self], chain.tx[Self], Self \in ingested)
           /\ chain.tx[Self] \in TxStates
<1>1. HasKey(bot.key) /\ KeyFits(bot.key)
  BY DEF LifeInv, BotSound
<1>2. Self \in Ids /\ Self \in Rows /\ intents[Self].key = bot.key /\ intents[Self].state # "NONE"
  BY <1>1, SelfIsRow
<1> QED
  BY <1>1, <1>2 DEF LifeInv, LifeTyped, IntentsTyped, ChainTyped, RowsSound, BotSound

LEMMA RestKept ==
    ASSUME LifeInv, RowsKept, NoneBooked, Rest
    PROVE  ChainTyped' /\ BooksTyped' /\ WorkTyped' /\ WorkSound' /\ BooksSound'
<1>1. ChainTyped' /\ BooksTyped' /\ WorkTyped'
  BY DEF LifeInv, LifeTyped, Rest, ChainTyped, BooksTyped, WorkTyped
<1>2. WorkSound'
  BY WorkKept DEF LifeInv, LifeTyped, Rest
<1>3. BooksSound'
  BY BooksKept DEF LifeInv, LifeTyped, Rest, BooksTyped
<1> QED
  BY <1>1, <1>2, <1>3

\* The bot goes on to pc with its row.
LEMMA GotoTyped ==
    ASSUME LifeInv, KeyFits(bot.key), NEW pc \in Pcs, Goto(pc)
    PROVE  /\ BotTyped' /\ CanaryKept
           /\ bot'.pc = pc /\ bot'.key = bot.key
<1>1. bot.key \in Keys
  BY DEF KeyFits
<1> QED
  BY <1>1, AtTyped DEF Goto, BotTyped, CanaryKept, LifeInv, LifeTyped

\* The whole invariant, from its parts, after a step that leaves the rest alone.
LEMMA RowOnly ==
    ASSUME LifeInv, Rest, IntentsTyped', RowsSound', RowsKept, NoNewRow, NoneBooked,
           BotTyped', CanaryKept, BotSound'
    PROVE  LifeInv'
<1>1. KeysSound'
  BY KeysKept DEF LifeInv
<1>2. ChainTyped' /\ BooksTyped' /\ WorkTyped' /\ WorkSound' /\ BooksSound'
  BY RestKept
<1> QED
  BY <1>1, <1>2 DEF LifeInv, LifeTyped

LEMMA HeldPart ==
    ASSUME ChainTyped, NEW action
    PROVE  /\ Removed(action) \in Held
           /\ action \in {"burn", "collect"} => Removed(action) = 0
<1>1. chain.liq \in Nat /\ chain.liq <= InitialLiquidity /\ 0 \in Held
  BY BoundsAssumption DEF ChainTyped, Held
<1>2. (chain.liq * 50) \div 100 \in 0 .. chain.liq
  BY <1>1, HalfOf
<1>3. (chain.liq * 50) \div 100 \in Held
  BY <1>1, <1>2, BoundsAssumption DEF Held
<1>4. chain.liq \in Held
  BY DEF ChainTyped
<1> QED
  BY <1>1, <1>3, <1>4 DEF Removed

LEMMA PrepareInv == LifeInv /\ Prepare => LifeInv'
<1> SUFFICES ASSUME LifeInv, Prepare PROVE LifeInv'
  OBVIOUS
<1> DEFINE old == intents[Self]
           row == [old EXCEPT !.state = "PREPARED", !.hash = TRUE, !.removed = Removed(Chosen)]
<1>1. /\ HasKey(bot.key) /\ KeyFits(bot.key) /\ Self \in Ids /\ old \in RowSet
      /\ old.state = "CLAIMED" /\ RowFits(Self, old, chain.tx[Self])
      /\ chain.tx[Self] \in TxStates /\ bot.pc = "prepare"
  BY SelfFits DEF Prepare, PcFits
<1>2. ~old.hash /\ chain.tx[Self] = "none" /\ old.receipt = "none"
  BY <1>1 DEF RowFits, Signed, Booked, ConfirmedStates, TxStates, RowSet
<1>3. intents' = [intents EXCEPT ![Self] = row]
  BY DEF Prepare
<1>4. Removed(Chosen) \in Held /\ (old.action \in {"burn", "collect"} => Removed(Chosen) = 0)
  BY HeldPart DEF LifeInv, LifeTyped, Chosen
<1>5. /\ row \in RowSet /\ row.state = "PREPARED" /\ row.hash = TRUE
      /\ row.removed = Removed(Chosen) /\ row.key = old.key /\ row.action = old.action
      /\ row.receipt = old.receipt
  BY <1>1, <1>4 DEF RowSet, RowStates, Signed
<1> HIDE DEF row
<1>6. old.key # NoKey
  BY <1>1 DEF RowFits
<1>7. RowFits(Self, row, chain.tx[Self])
  BY <1>1, <1>2, <1>4, <1>5, <1>6 DEF RowFits, Signed, Booked, ConfirmedStates
<1>8. Rest /\ chain' = chain /\ Goto("broadcast")
  BY DEF Prepare, Rest
<1>9. Confirmed(Self) => row.receipt = "success"
  BY <1>2 DEF Confirmed
<1>10. /\ IntentsTyped' /\ RowsSound' /\ RowsKept /\ NoNewRow
       /\ intents'[Self] = row /\ NoneBooked
  BY <1>1, <1>3, <1>5, <1>7, <1>8, <1>9, SelfStep
<1>11. BotTyped' /\ CanaryKept /\ bot'.pc = "broadcast" /\ bot'.key = bot.key
  BY <1>1, <1>8, GotoTyped DEF Pcs
<1>12. PcFits(bot'.pc, intents'[Self], chain'.tx[Self], Self \in ingested')
  BY <1>2, <1>5, <1>8, <1>10, <1>11 DEF PcFits
<1>13. BotSound'
  BY <1>1, <1>10, <1>11, <1>12, BotGoesOn DEF LifeInv, LifeTyped, KeysSound
<1> QED
  BY <1>8, <1>10, <1>11, <1>13, RowOnly

\* The bot's row after the catch clause.
LEMMA CaughtSelf ==
    ASSUME LifeInv, bot.pc \notin {"idle", "enter"}, intents' = Caught(Self),
           chain'.tx = chain.tx \/ chain' = [chain EXCEPT !.tx[Self] = "pending"]
    PROVE  /\ intents' = [intents EXCEPT ![Self] = CaughtRow(intents[Self])]
           /\ RowFits(Self, CaughtRow(intents[Self]), chain.tx[Self])
           /\ chain'.tx = chain.tx =>
                  /\ IntentsTyped' /\ RowsSound' /\ RowsKept /\ NoNewRow /\ NoneBooked
                  /\ intents'[Self] = CaughtRow(intents[Self])
                  /\ intents'[Self].hash = intents[Self].hash
                  /\ intents'[Self].receipt = intents[Self].receipt
<1> DEFINE old == intents[Self]
           row == CaughtRow(old)
<1>1. /\ HasKey(bot.key) /\ Self \in Ids /\ old \in RowSet /\ old.state # "NONE"
      /\ RowFits(Self, old, chain.tx[Self]) /\ bot.pc # "idle"
  BY SelfFits
<1>2. intents' = [intents EXCEPT ![Self] = row]
  BY <1>1, CaughtRewrites DEF LifeInv, LifeTyped
<1>3. /\ row \in RowSet /\ row.key = old.key /\ row.action = old.action
      /\ row.receipt = old.receipt /\ row.hash = old.hash
      /\ row.state \in {old.state, "FAILED"} /\ RowFits(Self, row, chain.tx[Self])
  BY <1>1, CaughtFits
<1> HIDE DEF row
<1>4. Confirmed(Self) => row.receipt = "success"
  BY <1>3 DEF Confirmed
<1>5. chain'.tx = chain.tx =>
          /\ IntentsTyped' /\ RowsSound' /\ RowsKept /\ NoNewRow
          /\ intents'[Self] = row /\ NoneBooked
  BY <1>1, <1>2, <1>3, <1>4, SelfStep
<1> QED
  BY <1>2, <1>3, <1>5 DEF row

\* The bot's row after a transition.
LEMMA ToSelf ==
    ASSUME LifeInv, bot.pc \notin {"idle", "enter"},
           NEW state \in {"SUBMITTED", "CONFIRMED", "RECONCILED", "BURNED"},
           intents[Self].hash, state # "SUBMITTED" => Confirmed(Self),
           state = "BURNED" => Chosen = "burn",
           intents' = To(Self, state), chain'.tx = chain.tx
    PROVE  /\ IntentsTyped' /\ RowsSound' /\ RowsKept /\ NoNewRow
           /\ state # "RECONCILED" => NoneBooked
           /\ \A j \in Ids : j # Self => intents'[j] = intents[j]
           /\ intents'[Self].hash /\ intents'[Self].receipt = intents[Self].receipt
           /\ intents'[Self].action = intents[Self].action
<1> DEFINE old == intents[Self]
           row == ToRow(old, state)
<1>1. /\ HasKey(bot.key) /\ Self \in Ids /\ old \in RowSet /\ old.state # "NONE"
      /\ RowFits(Self, old, chain.tx[Self]) /\ bot.pc # "idle"
  BY SelfFits
<1>2. intents' = [intents EXCEPT ![Self] = row]
  BY <1>1, ToRewrites DEF LifeInv, LifeTyped
<1>3. /\ row \in RowSet /\ row.key = old.key /\ row.action = old.action
      /\ row.receipt = old.receipt /\ row.hash = old.hash
      /\ row.state \in {old.state, state} /\ RowFits(Self, row, chain.tx[Self])
  <2>1. /\ state # "SUBMITTED" => old.receipt = "success"
        /\ state = "BURNED" => old.action = "burn"
    BY DEF Confirmed, Chosen
  <2>2. old.hash = TRUE
    BY <1>1 DEF RowSet
  <2>3. RowFits(Self, old, chain.tx[Self])
    BY <1>1
  <2>4. /\ row \in RowSet /\ row.key = old.key /\ row.action = old.action
        /\ row.receipt = old.receipt /\ row.hash = old.hash
    BY <1>1 DEF ToRow, RowSet, RowStates, Signed, Booked, ConfirmedStates
  <2>5. RowFits(Self, row, chain.tx[Self])
    BY <1>1, <2>1, <2>2, <2>3, ToFits
  <2>6. row.state \in {old.state, state}
    BY DEF ToRow
  <2> QED
    BY <2>4, <2>5, <2>6
<1> HIDE DEF row
<1>4. Confirmed(Self) => row.receipt = "success"
  BY <1>3 DEF Confirmed
<1>5. /\ IntentsTyped' /\ RowsSound' /\ RowsKept /\ NoNewRow
      /\ intents'[Self] = row /\ (state # "RECONCILED" => NoneBooked)
      /\ \A j \in Ids : j # Self => intents'[j] = intents[j]
  BY <1>1, <1>2, <1>3, <1>4, SelfStep
<1> QED
  BY <1>3, <1>5

LEMMA RefuseInv == LifeInv /\ Refuse => LifeInv'
<1> SUFFICES ASSUME LifeInv, Refuse PROVE LifeInv'
  OBVIOUS
<1>1. bot.pc \notin {"idle", "enter"} /\ intents' = Caught(Self) /\ chain' = chain /\ Rest /\ Fails
  BY DEF Refuse, Rest
<1>2. IntentsTyped' /\ RowsSound' /\ RowsKept /\ NoNewRow /\ NoneBooked
  BY <1>1, CaughtSelf
<1>3. BotTyped' /\ CanaryKept /\ BotSound'
  BY <1>1, SelfFits, FailsLeaves DEF LifeInv, LifeTyped
<1> QED
  BY <1>1, <1>2, <1>3, RowOnly

LEMMA GiveUpInv == LifeInv /\ GiveUp => LifeInv'
<1> SUFFICES ASSUME LifeInv, GiveUp PROVE LifeInv'
  OBVIOUS
<1>1. bot.pc \notin {"idle", "enter"} /\ intents' = Caught(Self) /\ chain' = chain /\ Rest /\ Fails
  BY DEF GiveUp, Rest
<1>2. IntentsTyped' /\ RowsSound' /\ RowsKept /\ NoNewRow /\ NoneBooked
  BY <1>1, CaughtSelf
<1>3. BotTyped' /\ CanaryKept /\ BotSound'
  BY <1>1, SelfFits, FailsLeaves DEF LifeInv, LifeTyped
<1> QED
  BY <1>1, <1>2, <1>3, RowOnly

LEMMA ProbeInv == LifeInv /\ (\E answered \in BOOLEAN : Probe(answered)) => LifeInv'
<1> SUFFICES ASSUME LifeInv, NEW answered \in BOOLEAN, Probe(answered) PROVE LifeInv'
  OBVIOUS
<1> DEFINE tx == IF answered THEN chain.tx[Self] ELSE "none"
<1>1. /\ bot.pc = "probe"
      /\ intents' = IF tx \in {"pending", "success"} THEN To(Self, "SUBMITTED") ELSE Caught(Self)
      /\ IF tx \in {"success", "reverted"} THEN Goto("wait") ELSE Fails
      /\ Rest /\ chain' = chain /\ ingested' = ingested
  BY DEF Probe, Rest
<1>2. HasKey(bot.key) /\ KeyFits(bot.key) /\ intents[Self].hash
  BY <1>1, SelfFits DEF PcFits
<1>3. /\ IntentsTyped' /\ RowsSound' /\ RowsKept /\ NoNewRow /\ NoneBooked
      /\ intents'[Self].hash
  <2>1. CASE tx \in {"pending", "success"}
    BY <1>1, <1>2, <2>1, ToSelf
  <2>2. CASE tx \notin {"pending", "success"}
    BY <1>1, <1>2, <2>2, CaughtSelf
  <2> QED
    BY <2>1, <2>2
<1>4. BotTyped' /\ CanaryKept /\ BotSound'
  <2>1. CASE tx \in {"success", "reverted"}
    <3>1. BotTyped' /\ CanaryKept /\ bot'.pc = "wait" /\ bot'.key = bot.key
      BY <1>1, <1>2, <2>1, GotoTyped DEF Pcs
    <3>2. PcFits(bot'.pc, intents'[Self], chain'.tx[Self], Self \in ingested')
      BY <1>3, <3>1 DEF PcFits
    <3> QED
      BY <1>2, <1>3, <3>1, <3>2, BotGoesOn DEF LifeInv, LifeTyped, KeysSound
  <2>2. CASE tx \notin {"success", "reverted"}
    BY <1>1, <1>2, <2>2, FailsLeaves DEF LifeInv, LifeTyped
  <2> QED
    BY <2>1, <2>2
<1> QED
  BY <1>1, <1>3, <1>4, RowOnly

LEMMA ObserveInv == LifeInv /\ Observe => LifeInv'
<1> SUFFICES ASSUME LifeInv, Observe PROVE LifeInv'
  OBVIOUS
<1> DEFINE old == intents[Self]
           tx == chain.tx[Self]
           row == [old EXCEPT !.receipt = tx,
                              !.state = IF tx = "success"
                                        THEN "CONFIRMED_RECONCILIATION_REQUIRED" ELSE "FAILED"]
<1>1. /\ bot.pc = "wait" /\ tx \in {"success", "reverted"}
      /\ intents' = [intents EXCEPT ![Self] = row]
      /\ IF tx = "success" THEN Goto("confirmed") ELSE Fails
      /\ Rest /\ chain' = chain
  BY DEF Observe, Rest
<1>2. /\ HasKey(bot.key) /\ KeyFits(bot.key) /\ Self \in Ids /\ old \in RowSet /\ old.hash
      /\ old.state # "NONE" /\ RowFits(Self, old, tx)
  BY <1>1, SelfFits DEF PcFits
<1>3. /\ row \in RowSet /\ row.key = old.key /\ row.action = old.action /\ row.receipt = tx
      /\ row.hash = old.hash /\ row.removed = old.removed
      /\ row.state = IF tx = "success" THEN "CONFIRMED_RECONCILIATION_REQUIRED" ELSE "FAILED"
  BY <1>1, <1>2 DEF RowSet, RowStates, Signed, Booked, ConfirmedStates
<1> HIDE DEF row
<1>4. old.key # NoKey
  BY <1>2 DEF RowFits
<1> HIDE DEF tx, old
<1>5. RowFits(Self, row, tx)
  <2>1. CASE tx = "success"
    BY <1>2, <1>3, <1>4, <2>1 DEF RowFits, Signed, Booked, ConfirmedStates
  <2>2. CASE tx = "reverted"
    BY <1>2, <1>3, <1>4, <2>2 DEF RowFits, Signed, Booked, ConfirmedStates
  <2> QED
    BY <1>1, <2>1, <2>2
<1> USE DEF tx, old
<1>6. Confirmed(Self) => row.receipt = "success"
  BY <1>2, <1>3 DEF Confirmed, RowFits
<1>7. /\ IntentsTyped' /\ RowsSound' /\ RowsKept /\ NoNewRow
      /\ intents'[Self] = row /\ NoneBooked
  BY <1>1, <1>2, <1>3, <1>5, <1>6, SelfStep
<1>8. BotTyped' /\ CanaryKept /\ BotSound'
  <2>1. CASE tx = "success"
    <3>1. BotTyped' /\ CanaryKept /\ bot'.pc = "confirmed" /\ bot'.key = bot.key
      BY <1>1, <1>2, <2>1, GotoTyped DEF Pcs
    <3>2. PcFits(bot'.pc, intents'[Self], chain'.tx[Self], Self \in ingested')
      BY <1>3, <1>7, <2>1, <3>1 DEF PcFits
    <3> QED
      BY <1>2, <1>7, <3>1, <3>2, BotGoesOn DEF LifeInv, LifeTyped, KeysSound
  <2>2. CASE tx # "success"
    BY <1>1, <1>2, <2>2, FailsLeaves DEF LifeInv, LifeTyped
  <2> QED
    BY <2>1, <2>2
<1> QED
  BY <1>1, <1>7, <1>8, RowOnly

LEMMA CrashInv == LifeInv /\ Crash => LifeInv'
<1> SUFFICES ASSUME LifeInv, Crash PROVE LifeInv'
  OBVIOUS
<1>1. intents' = intents /\ chain' = chain /\ Rest /\ bot' = Idle /\ canary' = canary
  BY DEF Crash, Rest
<1>2. IntentsTyped' /\ RowsSound' /\ RowsKept /\ NoNewRow /\ NoneBooked
  BY <1>1 DEF LifeInv, LifeTyped, IntentsTyped, RowsSound, RowsKept, NoNewRow, NoneBooked, Confirmed
<1>3. BotTyped' /\ CanaryKept /\ BotSound'
  BY <1>1, IdleLeaves DEF LifeInv, LifeTyped
<1> QED
  BY <1>1, <1>2, <1>3, RowOnly

LEMMA BroadcastInv ==
    LifeInv /\ (\E reached, shown \in BOOLEAN : Broadcast(reached, shown)) => LifeInv'
<1> SUFFICES ASSUME LifeInv, NEW reached \in BOOLEAN, NEW shown \in BOOLEAN,
                    Broadcast(reached, shown)
             PROVE  LifeInv'
  OBVIOUS
<1> DEFINE old == intents[Self]
           row == IF shown THEN [old EXCEPT !.state = "SUBMITTED"] ELSE old
<1>1. /\ bot.pc = "broadcast"
      /\ chain' = IF reached THEN [chain EXCEPT !.tx[Self] = "pending"] ELSE chain
      /\ intents' = IF shown THEN To(Self, "SUBMITTED") ELSE Caught(Self)
      /\ IF shown THEN Goto("wait") ELSE Fails
      /\ UNCHANGED <<mirror, ingested, basis, work, worker>>
  BY DEF Broadcast
<1>2. /\ HasKey(bot.key) /\ KeyFits(bot.key) /\ Self \in Ids /\ Self \in Rows /\ old \in RowSet
      /\ old.state = "PREPARED" /\ chain.tx[Self] = "none"
      /\ RowFits(Self, old, chain.tx[Self])
  BY <1>1, SelfFits DEF PcFits
<1>3. old.hash = TRUE /\ old.receipt = "none" /\ old.key # NoKey
  BY <1>2 DEF RowFits, Signed, Booked, ConfirmedStates, RowSet
<1>4. intents \in [Ids -> RowSet]
  BY DEF LifeInv, LifeTyped, IntentsTyped
<1>5. intents' = [intents EXCEPT ![Self] = row]
  <2>1. CASE shown
    <3>1. ~Refused(Self, "SUBMITTED")
      BY <1>2, <1>3 DEF Refused, Confirmed, ConfirmedStates
    <3>2. intents' = [intents EXCEPT ![Self].state = "SUBMITTED"]
      BY <1>1, <2>1, <3>1 DEF To
    <3> QED
      BY <2>1, <3>2
  <2>2. CASE ~shown
    <3>1. intents' = intents
      BY <1>1, <1>3, <2>2 DEF Caught
    <3> QED
      BY <1>2, <2>2, <3>1, SameRow DEF LifeInv, LifeTyped
  <2> QED
    BY <2>1, <2>2
<1>6. /\ row \in RowSet /\ row.key = old.key /\ row.action = old.action /\ row.hash = TRUE
      /\ row.receipt = "none" /\ row.removed = old.removed
      /\ row.state \in {"PREPARED", "SUBMITTED"}
  BY <1>2, <1>3 DEF RowSet, RowStates, Signed
<1> HIDE DEF row
<1>7. /\ intents'[Self] = row /\ IntentsTyped'
      /\ \A j \in Ids : j # Self => intents'[j] = intents[j]
  BY <1>2, <1>4, <1>5, <1>6 DEF IntentsTyped
<1>8. /\ ChainTyped' /\ chain'.landed = chain.landed
      /\ chain'.tx[Self] \in {"none", "pending"}
      /\ \A j \in Ids : j # Self => chain'.tx[j] = chain.tx[j]
  <2>1. chain \in [liq : Held, held : BOOLEAN, tx : [Ids -> TxStates], landed : Seq(Ids)]
    BY DEF LifeInv, LifeTyped, ChainTyped
  <2> QED
    BY <1>1, <1>2, <2>1 DEF ChainTyped, TxStates
<1>9. RowsSound'
  <2>1. RowFits(Self, row, chain'.tx[Self])
    BY <1>2, <1>3, <1>6, <1>8 DEF RowFits, Signed, Booked, ConfirmedStates
  <2> QED
    BY <1>7, <1>8, <2>1 DEF LifeInv, RowsSound
<1>10. RowsKept /\ NoNewRow /\ NoneBooked
  BY <1>2, <1>3, <1>6, <1>7 DEF RowsKept, NoNewRow, NoneBooked, Confirmed
<1>11. BotTyped' /\ CanaryKept /\ BotSound'
  <2>1. CASE shown
    <3>1. BotTyped' /\ CanaryKept /\ bot'.pc = "wait" /\ bot'.key = bot.key
      BY <1>1, <1>2, <2>1, GotoTyped DEF Pcs
    <3>2. PcFits(bot'.pc, intents'[Self], chain'.tx[Self], Self \in ingested')
      BY <1>6, <1>7, <3>1 DEF PcFits
    <3> QED
      BY <1>2, <1>10, <3>1, <3>2, BotGoesOn DEF LifeInv, LifeTyped, KeysSound
  <2>2. CASE ~shown
    BY <1>1, <1>2, <2>2, FailsLeaves DEF LifeInv, LifeTyped
  <2> QED
    BY <2>1, <2>2
<1>12. KeysSound'
  BY <1>10, <1>11, KeysKept DEF LifeInv
<1>13. BooksTyped' /\ WorkTyped'
  BY <1>1 DEF LifeInv, LifeTyped, BooksTyped, WorkTyped
<1>14. WorkSound'
  BY <1>1, <1>10, WorkKept DEF LifeInv, LifeTyped
<1>15. BooksSound'
  <2>1. \A j \in Ids : chain.tx[j] = "success" => chain'.tx[j] = "success"
    BY <1>2, <1>8
  <2> QED
    BY <1>1, <1>8, <1>10, <2>1, BooksKept DEF LifeInv, LifeTyped, BooksTyped
<1> QED
  BY <1>7, <1>8, <1>9, <1>11, <1>12, <1>13, <1>14, <1>15 DEF LifeInv, LifeTyped

\* The bot's row after the acknowledgement.
LEMMA AckSelf ==
    ASSUME LifeInv, bot.pc = "confirmed"
    PROVE  /\ AckRow(intents[Self]) \in RowSet
           /\ AckRow(intents[Self]).key = intents[Self].key
           /\ AckRow(intents[Self]).action = intents[Self].action
           /\ AckRow(intents[Self]).receipt = "success"
           /\ AckRow(intents[Self]).state = "RECONCILED" => intents[Self].state = "RECONCILED"
           /\ RowFits(Self, AckRow(intents[Self]), chain.tx[Self])
<1> DEFINE old == intents[Self]
           tx  == chain.tx[Self]
<1>1. old \in RowSet /\ RowFits(Self, old, tx) /\ old.receipt = "success" /\ Self \in Ids
  BY SelfFits DEF PcFits
<1>2. old.hash = TRUE /\ old.state \in Booked
  BY <1>1 DEF RowFits, Signed, RowSet
<1> HIDE DEF old, tx
<1>3. CASE old.state = "CONFIRMED_RECONCILIATION_REQUIRED"
  <2> DEFINE row == [old EXCEPT !.state = "CONFIRMED"]
  <2>1. AckRow(old) = row
    BY <1>3 DEF AckRow, ToRow, Booked, ConfirmedStates
  <2>2. /\ row \in RowSet /\ row.key = old.key /\ row.action = old.action
        /\ row.receipt = old.receipt /\ row.hash = old.hash /\ row.removed = old.removed
        /\ row.state = "CONFIRMED"
    BY <1>1 DEF RowSet, RowStates, Signed, Booked, ConfirmedStates
  <2> HIDE DEF row
  <2>3. RowFits(Self, row, tx)
    BY <1>1, <1>2, <1>3, <2>2 DEF RowFits, Signed, Booked, ConfirmedStates
  <2> QED
    BY <1>1, <2>1, <2>2, <2>3 DEF old, tx
<1>4. CASE old.state # "CONFIRMED_RECONCILIATION_REQUIRED"
  BY <1>1, <1>4 DEF AckRow, old, tx
<1> QED
  BY <1>3, <1>4

LEMMA DeferInv == LifeInv /\ (\E handedOver \in BOOLEAN : Defer(handedOver)) => LifeInv'
<1> SUFFICES ASSUME LifeInv, NEW handedOver \in BOOLEAN, Defer(handedOver) PROVE LifeInv'
  OBVIOUS
<1> DEFINE old == intents[Self]
           row == AckRow(old)
<1>1. /\ bot.pc = "confirmed" /\ old.action \in {"collect", "full_close"}
      /\ intents' = Acknowledged(Self)
      /\ work' = IF handedOver /\ work[Self] = "none" THEN [work EXCEPT ![Self] = "due"] ELSE work
      /\ Succeeds(old, mirror)
      /\ UNCHANGED <<chain, mirror, ingested, basis, worker>>
  BY DEF Defer, Chosen
<1>2. /\ HasKey(bot.key) /\ KeyFits(bot.key) /\ Self \in Ids /\ old.receipt = "success"
      /\ bot.pc # "idle"
  BY <1>1, SelfFits DEF PcFits
<1>3. intents' = [intents EXCEPT ![Self] = row]
  BY <1>1, <1>2, AckRewrites DEF LifeInv, LifeTyped
<1>4. /\ row \in RowSet /\ row.key = old.key /\ row.action = old.action
      /\ row.receipt = "success" /\ (row.state = "RECONCILED" => old.state = "RECONCILED")
      /\ RowFits(Self, row, chain.tx[Self])
  BY <1>1, AckSelf
<1> HIDE DEF row
<1>5. /\ IntentsTyped' /\ RowsSound' /\ RowsKept /\ NoNewRow /\ NoneBooked
      /\ intents'[Self] = row
  BY <1>1, <1>2, <1>3, <1>4, SelfStep
<1>6. BotTyped' /\ CanaryKept /\ BotSound'
  BY <1>1, <1>2, <1>5, SucceedsLeaves DEF LifeInv
<1>7. KeysSound'
  BY <1>5, <1>6, KeysKept DEF LifeInv
<1>8. ChainTyped' /\ BooksTyped' /\ WorkTyped'
  BY <1>1, <1>2 DEF LifeInv, LifeTyped, ChainTyped, BooksTyped, WorkTyped
<1>9. WorkSound'
  <2>1. \A s : intents[s].receipt = "success" => Confirmed(s)
    BY DEF Confirmed
  <2>2. \A i \in Ids : work'[i] # "none" =>
            \/ work[i] # "none"
            \/ Confirmed(i) /\ intents[i].action \in {"collect", "full_close"}
    BY <1>1, <1>2, <2>1 DEF LifeInv, LifeTyped, WorkTyped
  <2>3. ItemsSound'
    BY <1>5, <2>2, ItemsKept DEF LifeInv, WorkSound
  <2>4. WorkerSound'
    BY <1>1, <1>5, WorkerKept DEF LifeInv, LifeTyped, WorkSound
  <2> QED
    BY <2>3, <2>4 DEF WorkSound
<1>10. BooksSound'
  BY <1>1, <1>5, BooksKept DEF LifeInv, LifeTyped, BooksTyped
<1> QED
  BY <1>5, <1>6, <1>7, <1>8, <1>9, <1>10 DEF LifeInv, LifeTyped

LEMMA BookBurnInv == LifeInv /\ BookBurn => LifeInv'
<1> SUFFICES ASSUME LifeInv, BookBurn PROVE LifeInv'
  OBVIOUS
<1>1. /\ bot.pc = "confirmed" /\ Chosen = "burn"
      /\ intents' = To(Self, "BURNED")
      /\ mirror' = Overwritten(0, "burned")
      /\ Succeeds(intents[Self], mirror')
      /\ chain' = chain /\ ingested' = ingested /\ basis' = basis
      /\ work' = work /\ worker' = worker
  BY DEF BookBurn
<1>2. /\ HasKey(bot.key) /\ KeyFits(bot.key) /\ intents[Self].receipt = "success"
      /\ intents[Self].hash /\ bot.pc \notin {"idle", "enter"}
  BY <1>1, SelfFits DEF PcFits, RowFits, Signed
<1>3. Confirmed(Self)
  BY <1>2 DEF Confirmed
<1>4. IntentsTyped' /\ RowsSound' /\ RowsKept /\ NoNewRow /\ NoneBooked
  BY <1>1, <1>2, <1>3, ToSelf
<1>5. BotTyped' /\ CanaryKept /\ BotSound'
  BY <1>1, <1>2, <1>4, SucceedsLeaves DEF LifeInv
<1>6. KeysSound'
  BY <1>4, <1>5, KeysKept DEF LifeInv
<1>7. ChainTyped' /\ BooksTyped' /\ WorkTyped'
  BY <1>1, BoundsAssumption
     DEF LifeInv, LifeTyped, ChainTyped, BooksTyped, WorkTyped, Overwritten, Held, Statuses
<1>8. WorkSound'
  BY <1>1, <1>4, WorkKept DEF LifeInv, LifeTyped
<1>9. BooksSound'
  BY <1>1, <1>4, BooksKept DEF LifeInv, LifeTyped, BooksTyped
<1> QED
  BY <1>4, <1>5, <1>6, <1>7, <1>8, <1>9 DEF LifeInv, LifeTyped

LEMMA ReadBooksInv == LifeInv /\ (\E breach \in BOOLEAN : ReadBooks(breach)) => LifeInv'
<1> SUFFICES ASSUME LifeInv, NEW breach \in BOOLEAN, ReadBooks(breach) PROVE LifeInv'
  OBVIOUS
<1> DEFINE old == intents[Self]
           ack == AckRow(old)
           row == [ack EXCEPT !.breach = @ \/ breach]
<1>1. /\ bot.pc = "confirmed"
      /\ Chosen = "partial_close" \/ bot.key[1] = "canary_close"
      /\ intents' = [Acknowledged(Self) EXCEPT ![Self].breach = @ \/ breach]
      /\ ingested' = ingested \cup {Self}
      /\ bot' = [bot EXCEPT !.pc = "account", !.liq = mirror.liq, !.status = mirror.status,
                            !.after = chain.liq]
      /\ chain' = chain /\ mirror' = mirror /\ basis' = basis /\ work' = work
      /\ worker' = worker /\ canary' = canary
  BY DEF ReadBooks, Ingested
<1>2. /\ HasKey(bot.key) /\ KeyFits(bot.key) /\ Self \in Ids /\ old.key = bot.key
      /\ old.receipt = "success" /\ RowFits(Self, old, chain.tx[Self]) /\ bot.pc # "idle"
  BY <1>1, SelfFits DEF PcFits
<1>3. old.action \in {"partial_close", "full_close"}
  BY <1>1, <1>2 DEF RowFits, Chosen
<1>4. /\ ack \in RowSet /\ ack.key = old.key /\ ack.action = old.action
      /\ ack.receipt = "success" /\ (ack.state = "RECONCILED" => old.state = "RECONCILED")
      /\ RowFits(Self, ack, chain.tx[Self])
  BY <1>1, AckSelf
<1>5. intents' = [intents EXCEPT ![Self] = row]
  <2>1. Acknowledged(Self) = [intents EXCEPT ![Self] = ack]
    BY <1>2, AckRewrites DEF LifeInv, LifeTyped
  <2>2. intents \in [Ids -> RowSet]
    BY DEF LifeInv, LifeTyped, IntentsTyped
  <2> HIDE DEF ack, old
  <2> QED
    BY <1>1, <1>2, <2>1, <2>2
<1> HIDE DEF ack
<1>6. /\ row \in RowSet /\ row.key = ack.key /\ row.action = ack.action
      /\ row.receipt = ack.receipt /\ row.state = ack.state /\ row.hash = ack.hash
      /\ row.removed = ack.removed
  BY <1>4 DEF RowSet
<1> HIDE DEF row
<1>7. RowFits(Self, row, chain.tx[Self])
  BY <1>4, <1>6 DEF RowFits
<1>8. /\ IntentsTyped' /\ RowsSound' /\ RowsKept /\ NoNewRow /\ NoneBooked
      /\ intents'[Self] = row
  BY <1>1, <1>2, <1>4, <1>5, <1>6, <1>7, SelfStep
<1>9. BotTyped' /\ CanaryKept /\ bot'.pc = "account" /\ bot'.key = bot.key
  BY <1>1 DEF LifeInv, LifeTyped, BotTyped, BotSet, BooksTyped, ChainTyped, Pcs, CanaryKept
<1>10. PcFits(bot'.pc, intents'[Self], chain'.tx[Self], Self \in ingested')
  BY <1>1, <1>3, <1>4, <1>6, <1>8, <1>9 DEF PcFits
<1>11. BotSound'
  BY <1>2, <1>8, <1>9, <1>10, BotGoesOn DEF LifeInv, LifeTyped, KeysSound
<1>12. KeysSound'
  BY <1>8, <1>9, KeysKept DEF LifeInv
<1>13. ChainTyped' /\ BooksTyped' /\ WorkTyped'
  BY <1>1, <1>2 DEF LifeInv, LifeTyped, ChainTyped, BooksTyped, WorkTyped
<1>14. WorkSound'
  BY <1>1, <1>8, WorkKept DEF LifeInv, LifeTyped
<1>15. BooksSound'
  BY <1>1, <1>8, BooksKept DEF LifeInv, LifeTyped, BooksTyped
<1> QED
  BY <1>8, <1>9, <1>11, <1>12, <1>13, <1>14, <1>15 DEF LifeInv, LifeTyped

-----------------------------------------------------------------------------
(* Booking: the basis is taken, the row is reconciled *)

\* A removal that has landed and blocks nobody is in the basis, or the position has
\* no basis to take from.
LEMMA LandedIsConsumed ==
    ASSUME RowsSound, ClosesBooked, IntentsTyped, NEW i \in Ids,
           chain.tx[i] = "success", Removal(i), intents[i].state \notin UnresolvedStates
    PROVE  InBasis(i) \/ Baseless(i)
<1>1. intents[i].hash /\ intents[i].state # "FAILED" /\ intents[i].state # "BURNED"
  BY DEF RowsSound, RowFits, Removal
<1>2. intents[i].state = "RECONCILED"
  BY <1>1 DEF RowsSound, RowFits, Signed, Booked, ConfirmedStates, UnresolvedStates
<1> QED
  BY <1>2 DEF ClosesBooked

LEMMA Booking ==
    ASSUME LifeInv, RowsKept, NEW i \in Ids, Confirmed(i), NEW outcome,
           outcome = "TAKEN" => ~Blocked(i) /\ HasBasis(i),
           basis' = Consumed(i, outcome), chain' = chain, ingested' = ingested,
           \A j \in Ids : intents'[j].state = "RECONCILED" =>
               \/ intents[j].state = "RECONCILED"
               \/ /\ j = i
                  /\ Removal(i) => \/ outcome = "TAKEN" \/ InBasis(i)
                                   \/ i \in ingested /\ ~HasBasis(i)
    PROVE  basis' \in Seq(Ids) /\ BooksSound'
<1>1. /\ basis \in Seq(Ids) /\ RowsSound /\ BooksSound /\ IntentsTyped
      /\ \A p \in DOMAIN chain.landed : chain.landed[p] \in Ids
  BY DEF LifeInv, LifeTyped, BooksTyped, ChainTyped
<1>2. Len(basis) \in Nat /\ DOMAIN basis = 1 .. Len(basis) /\ \A n \in DOMAIN basis : basis[n] \in Ids
  BY <1>1
<1>3. \/ outcome # "TAKEN" /\ basis' = basis
      \/ /\ outcome = "TAKEN" /\ basis' = Append(basis, i)
         /\ DOMAIN basis' = 1 .. Len(basis) + 1 /\ basis'[Len(basis) + 1] = i
         /\ \A n \in DOMAIN basis : basis'[n] = basis[n]
  <2>1. CASE outcome = "TAKEN"
    BY <1>1, <1>2, <2>1, AppendProperties DEF Consumed
  <2>2. CASE outcome # "TAKEN"
    BY <2>2 DEF Consumed
  <2> QED
    BY <2>1, <2>2
<1>4. basis' \in Seq(Ids)
  BY <1>1, <1>3
<1>5. \A n \in DOMAIN basis' : \/ n \in DOMAIN basis /\ basis'[n] = basis[n]
                               \/ outcome = "TAKEN" /\ n = Len(basis) + 1 /\ basis'[n] = i
  BY <1>2, <1>3
<1>6. \A n \in DOMAIN basis : n \in DOMAIN basis' /\ basis'[n] = basis[n]
  BY <1>2, <1>3
<1>7. \A j : InBasis(j) => InBasis(j)'
  BY <1>6 DEF InBasis
<1>8. ASSUME NEW j \in Ids, Baseless(j), outcome = "TAKEN"
      PROVE  FALSE
  BY <1>8 DEF Baseless, HasBasis
<1>9. LandedOnce'
  BY <1>1 DEF LandedOnce, BooksSound
<1>10. BasisSettled'
  <2>1. \A n \in DOMAIN basis' : basis'[n] \in Ids /\ Confirmed(basis'[n])
    BY <1>1, <1>2, <1>5 DEF BasisSettled, BooksSound
  <2>2. \A k \in Ids : Confirmed(k) => intents'[k].receipt = "success"
    BY DEF RowsKept, Confirmed
  <2>3. \A n \in DOMAIN basis' : intents'[basis'[n]].receipt = "success"
    BY <2>1, <2>2
  <2> QED
    BY <2>3 DEF BasisSettled, Confirmed
<1>11. ClosesBooked'
  <2> SUFFICES ASSUME NEW j \in Ids, intents'[j].state = "RECONCILED", Removal(j)'
               PROVE  InBasis(j)' \/ Baseless(j)'
    BY DEF ClosesBooked
  <2>1. Baseless(j) => Baseless(j)'
    BY <1>3, <1>8 DEF Baseless
  <2>2. CASE intents[j].state = "RECONCILED"
    <3>1. Removal(j)
      BY <2>2 DEF RowsKept, Removal
    <3>2. InBasis(j) \/ Baseless(j)
      BY <1>1, <2>2, <3>1 DEF ClosesBooked, BooksSound
    <3> QED
      BY <1>7, <2>1, <3>2
  <2>3. CASE intents[j].state # "RECONCILED"
    <3>1. j = i
      BY <2>3
    <3>2. Removal(i)
      BY <1>1, <3>1, ConfirmedStays DEF Removal
    <3>3. outcome = "TAKEN" \/ InBasis(i) \/ (i \in ingested /\ ~HasBasis(i))
      BY <2>3, <3>2
    <3>4. CASE outcome = "TAKEN"
      BY <1>2, <1>3, <3>1, <3>4 DEF InBasis
    <3>5. CASE InBasis(i)
      BY <1>7, <3>1, <3>5
    <3>6. CASE i \in ingested /\ ~HasBasis(i)
      BY <2>1, <3>1, <3>6 DEF HasBasis, Baseless
    <3> QED
      BY <3>3, <3>4, <3>5, <3>6
  <2> QED
    BY <2>2, <2>3
<1>12. CloseTakesTheRest'
  <2> SUFFICES ASSUME NEW n \in DOMAIN basis', NEW k \in 1 .. basis'[n] - 1,
                      Before(k, basis[n])',
                      intents'[k].action \in {"partial_close", "full_close"}
               PROVE  \E m \in 1 .. n - 1 : basis'[m] = k
    BY DEF CloseTakesTheRest
  <2>1. Before(k, basis'[n])
    BY DEF Before
  <2>2. PICK p \in DOMAIN chain.landed : chain.landed[p] = k
    BY <2>1 DEF Before
  <2>3. k \in Ids /\ chain.tx[k] = "success"
    BY <1>1, <2>2 DEF LandedOnce, BooksSound
  <2>4. Removal(k)
    BY <1>1, <2>3, ConfirmedIsRow DEF RowsKept, Rows, Removal
  <2>5. CASE n \in DOMAIN basis /\ basis'[n] = basis[n]
    <3>1. PICK m \in 1 .. n - 1 : basis[m] = k
      BY <1>1, <2>1, <2>4, <2>5 DEF CloseTakesTheRest, BooksSound, Removal
    <3>2. m \in DOMAIN basis
      BY <1>2, <2>5
    <3> QED
      BY <1>6, <3>1, <3>2
  <2>6. CASE outcome = "TAKEN" /\ n = Len(basis) + 1 /\ basis'[n] = i
    <3>1. intents[k].state \notin UnresolvedStates
      BY <2>6 DEF Blocked
    <3>2. InBasis(k) \/ Baseless(k)
      BY <1>1, <2>3, <2>4, <3>1, LandedIsConsumed DEF BooksSound
    <3>3. PICK m \in DOMAIN basis : basis[m] = k
      BY <1>8, <2>3, <2>6, <3>2 DEF InBasis
    <3> QED
      BY <1>2, <1>6, <2>6, <3>3
  <2> QED
    BY <1>5, <2>5, <2>6
<1> QED
  BY <1>4, <1>9, <1>10, <1>11, <1>12 DEF BooksSound

LEMMA ConsumptionMeans ==
    ASSUME NEW i, NEW before, NEW after
    PROVE  /\ Consumption(i, before, after) \in {"KEPT", "TAKEN", "NONE", "THROWN"}
           /\ Consumption(i, before, after) = "TAKEN" => ~Blocked(i) /\ HasBasis(i)
           /\ Consumption(i, before, after) = "KEPT" => InBasis(i)
           /\ Consumption(i, before, after) = "NONE" => ~HasBasis(i)
BY DEF Consumption

LEMMA MirrorTyped ==
    ASSUME NEW i, NEW liq \in Held, NEW status \in Statuses
    PROVE  ReconciledMirror(i, liq, status) \in [liq : Held, status : Statuses]
BY BoundsAssumption DEF ReconciledMirror, Overwritten, Held, Statuses

LEMMA BookInlineInv == LifeInv /\ (\E completes \in BOOLEAN : BookInline(completes)) => LifeInv'
<1> SUFFICES ASSUME LifeInv, NEW completes \in BOOLEAN, BookInline(completes) PROVE LifeInv'
  OBVIOUS
<1> DEFINE old == intents[Self]
           partial == Chosen = "partial_close"
           outcome == IF partial THEN Consumption(Self, bot.liq, bot.after)
                      ELSE Consumption(Self, old.removed, 0)
           fails   == ~completes \/ outcome = "THROWN" \/ (partial /\ outcome = "NONE")
<1>1. /\ bot.pc = "account"
      /\ basis' = Consumed(Self, outcome)
      /\ intents' = IF fails THEN Caught(Self) ELSE To(Self, "RECONCILED")
      /\ mirror' = IF fails THEN mirror
                   ELSE IF partial
                   THEN Overwritten(bot.after, IF bot.after = 0 THEN "closed" ELSE "partially_closed")
                   ELSE ReconciledMirror(Self, bot.liq, bot.status)
      /\ IF fails THEN Fails ELSE Succeeds(old, mirror')
      /\ chain' = chain /\ ingested' = ingested /\ work' = work /\ worker' = worker
  BY DEF BookInline
<1>2. /\ HasKey(bot.key) /\ KeyFits(bot.key) /\ Self \in Ids /\ old.receipt = "success"
      /\ Self \in ingested /\ old.action \in {"partial_close", "full_close"}
      /\ bot.pc \notin {"idle", "enter"} /\ old.hash
  BY <1>1, SelfFits DEF PcFits, RowFits, Signed
<1>3. /\ outcome \in {"KEPT", "TAKEN", "NONE", "THROWN"}
      /\ outcome = "TAKEN" => ~Blocked(Self) /\ HasBasis(Self)
      /\ outcome = "KEPT" => InBasis(Self)
      /\ outcome = "NONE" => ~HasBasis(Self)
  BY ConsumptionMeans
<1> HIDE DEF outcome
<1>4. Confirmed(Self)
  BY <1>2 DEF Confirmed
<1>5. /\ IntentsTyped' /\ RowsSound' /\ RowsKept /\ NoNewRow
      /\ \A j \in Ids : intents'[j].state = "RECONCILED" =>
             intents[j].state = "RECONCILED" \/ (j = Self /\ ~fails)
  <2>1. CASE fails
    <3>1. intents' = Caught(Self)
      BY <1>1, <2>1
    <3>2. IntentsTyped' /\ RowsSound' /\ RowsKept /\ NoNewRow /\ NoneBooked
      BY <1>1, <1>2, <3>1, CaughtSelf
    <3> QED
      BY <3>2 DEF NoneBooked
  <2>2. CASE ~fails
    <3>1. intents' = To(Self, "RECONCILED")
      BY <1>1, <2>2
    <3>2. /\ IntentsTyped' /\ RowsSound' /\ RowsKept /\ NoNewRow
          /\ \A j \in Ids : j # Self => intents'[j] = intents[j]
      BY <1>1, <1>2, <1>4, <3>1, ToSelf
    <3> QED
      BY <2>2, <3>2
  <2> QED
    BY <2>1, <2>2
<1>6. ~fails => outcome \in {"KEPT", "TAKEN", "NONE"}
  BY <1>3
<1>7. basis' \in Seq(Ids) /\ BooksSound'
  <2>1. \A j \in Ids : intents'[j].state = "RECONCILED" =>
            \/ intents[j].state = "RECONCILED"
            \/ /\ j = Self
               /\ Removal(Self) => \/ outcome = "TAKEN" \/ InBasis(Self)
                                   \/ Self \in ingested /\ ~HasBasis(Self)
    BY <1>2, <1>3, <1>5, <1>6
  <2> HIDE DEF fails, partial
  <2> QED
    BY <1>1, <1>2, <1>3, <1>4, <1>5, <2>1, Booking
<1>8. BotTyped' /\ CanaryKept /\ BotSound'
  <2>1. CASE fails
    BY <1>1, <1>2, <2>1, FailsLeaves DEF LifeInv, LifeTyped
  <2>2. CASE ~fails
    BY <1>1, <1>2, <1>5, <2>2, SucceedsLeaves DEF LifeInv
  <2> QED
    BY <2>1, <2>2
<1>9. KeysSound'
  BY <1>5, <1>8, KeysKept DEF LifeInv
<1>10. mirror' \in [liq : Held, status : Statuses]
  <2>1. bot.liq \in Held /\ bot.after \in Held /\ bot.status \in Statuses
    BY DEF LifeInv, LifeTyped, BotTyped, BotSet
  <2>2. ReconciledMirror(Self, bot.liq, bot.status) \in [liq : Held, status : Statuses]
    BY <2>1, MirrorTyped
  <2>3. Overwritten(bot.after, IF bot.after = 0 THEN "closed" ELSE "partially_closed")
            \in [liq : Held, status : Statuses]
    BY <2>1 DEF Overwritten, Statuses
  <2>4. mirror \in [liq : Held, status : Statuses]
    BY DEF LifeInv, LifeTyped, BooksTyped
  <2> HIDE DEF fails, partial
  <2> QED
    BY <1>1, <2>2, <2>3, <2>4
<1>11. ChainTyped' /\ BooksTyped' /\ WorkTyped'
  BY <1>1, <1>7, <1>10 DEF LifeInv, LifeTyped, ChainTyped, BooksTyped, WorkTyped
<1>12. WorkSound'
  BY <1>1, <1>5, WorkKept DEF LifeInv, LifeTyped
<1> QED
  BY <1>5, <1>7, <1>8, <1>9, <1>11, <1>12 DEF LifeInv, LifeTyped

-----------------------------------------------------------------------------
(* The worker, the reader and the chain: steps beside the bot *)

LEMMA BotStays ==
    ASSUME LifeInv, RowsKept, NoNewRow, bot' = bot, canary' = canary,
           \A r \in Rows : PcFits(bot.pc, intents[r], chain.tx[r], r \in ingested) =>
                           PcFits(bot.pc, intents'[r], chain'.tx[r], r \in ingested')
    PROVE  BotTyped' /\ CanaryKept /\ BotSound' /\ KeysSound'
<1>1. BotTyped' /\ CanaryKept
  BY DEF LifeInv, LifeTyped, BotTyped, CanaryKept
<1>2. Rows' = Rows
  BY SameRows
<1>3. \A r \in Rows : intents'[r].key = intents[r].key
  BY DEF Rows, RowsKept
<1>4. bot.pc \notin {"idle", "enter"} => HasKey(bot.key)'
  BY <1>2, <1>3 DEF HasKey, LifeInv, BotSound
<1>5. bot.pc # "idle" => KeyFits(bot.key)'
  <2>1. \A key : KeyFits(key) => KeyFits(key)'
    BY <1>1, KeyStillFits DEF LifeInv, LifeTyped
  <2> QED
    BY <2>1 DEF KeyFits, LifeInv, BotSound
<1>6. \A r \in Rows' : intents'[r].key = bot'.key =>
          PcFits(bot'.pc, intents'[r], chain'.tx[r], r \in ingested')
  BY <1>2, <1>3 DEF LifeInv, BotSound
<1>7. BotSound'
  BY <1>4, <1>5, <1>6 DEF BotSound
<1>8. KeysSound'
  BY <1>1, KeysKept DEF LifeInv
<1> QED
  BY <1>1, <1>7, <1>8

\* Nothing but the books or the chain moves.
LEMMA RowsUntouched ==
    ASSUME LifeInv, intents' = intents, chain'.tx = chain.tx
    PROVE  IntentsTyped' /\ RowsSound' /\ RowsKept /\ NoNewRow /\ NoneBooked
BY DEF LifeInv, LifeTyped, IntentsTyped, RowsSound, RowsKept, NoNewRow, NoneBooked, Confirmed

LEMMA DiscoverInv == LifeInv /\ (\E i \in Ids : Discover(i)) => LifeInv'
<1> SUFFICES ASSUME LifeInv, NEW i \in Ids, Discover(i) PROVE LifeInv'
  OBVIOUS
<1>1. /\ Confirmed(i) /\ intents[i].action \in {"collect", "full_close"}
      /\ work' = [work EXCEPT ![i] = "due"]
      /\ intents' = intents /\ chain' = chain /\ mirror' = mirror /\ ingested' = ingested
      /\ basis' = basis /\ worker' = worker /\ bot' = bot /\ canary' = canary
  BY DEF Discover
<1>2. IntentsTyped' /\ RowsSound' /\ RowsKept /\ NoNewRow /\ NoneBooked
  BY <1>1, RowsUntouched
<1>3. BotTyped' /\ CanaryKept /\ BotSound' /\ KeysSound'
  BY <1>1, <1>2, BotStays
<1>4. ChainTyped' /\ BooksTyped' /\ WorkTyped'
  BY <1>1 DEF LifeInv, LifeTyped, ChainTyped, BooksTyped, WorkTyped
<1>5. WorkSound'
  <2>1. \A j \in Ids : work'[j] # "none" => work[j] # "none" \/ j = i
    BY <1>1 DEF LifeInv, LifeTyped, WorkTyped
  <2> QED
    BY <1>1, <1>2, <2>1, ItemsKept, WorkerKept DEF LifeInv, LifeTyped, WorkSound
<1>6. BooksSound'
  BY <1>1, <1>2, BooksKept DEF LifeInv, LifeTyped, BooksTyped
<1> QED
  BY <1>2, <1>3, <1>4, <1>5, <1>6 DEF LifeInv, LifeTyped

LEMMA LeaseInv == LifeInv /\ (\E i \in Ids : Lease(i)) => LifeInv'
<1> SUFFICES ASSUME LifeInv, NEW i \in Ids, Lease(i) PROVE LifeInv'
  OBVIOUS
<1>1. /\ work[i] = "due" /\ Confirmed(i)
      /\ work' = [work EXCEPT ![i] = "leased"]
      /\ ingested' = IF intents[i].action = "full_close" THEN ingested \cup {i} ELSE ingested
      /\ worker' = [id |-> i, liq |-> mirror.liq, status |-> mirror.status]
      /\ intents' = intents /\ chain' = chain /\ mirror' = mirror
      /\ basis' = basis /\ bot' = bot /\ canary' = canary
  BY DEF Lease, Ingested
<1>2. IntentsTyped' /\ RowsSound' /\ RowsKept /\ NoNewRow /\ NoneBooked
  BY <1>1, RowsUntouched
<1>3. ingested \subseteq ingested'
  BY <1>1
<1>4. BotTyped' /\ CanaryKept /\ BotSound' /\ KeysSound'
  BY <1>1, <1>2, <1>3, BotStays DEF PcFits
<1>5. ChainTyped' /\ BooksTyped' /\ WorkTyped'
  BY <1>1 DEF LifeInv, LifeTyped, ChainTyped, BooksTyped, WorkTyped
<1>6. ItemsSound'
  <2>1. \A j \in Ids : work'[j] # "none" => work[j] # "none"
    BY <1>1 DEF LifeInv, LifeTyped, WorkTyped
  <2> QED
    BY <1>2, <2>1, ItemsKept DEF LifeInv, WorkSound
<1>7. WorkerSound'
  BY <1>1 DEF LifeInv, WorkSound, ItemsSound, WorkerSound, Confirmed
<1>8. BooksSound'
  BY <1>1, <1>2, <1>3, BooksKept DEF LifeInv, LifeTyped, BooksTyped
<1> QED
  BY <1>2, <1>4, <1>5, <1>6, <1>7, <1>8 DEF LifeInv, LifeTyped, WorkSound

LEMMA BookInv == LifeInv /\ (\E i \in Ids, completes \in BOOLEAN : Book(i, completes)) => LifeInv'
<1> SUFFICES ASSUME LifeInv, NEW i \in Ids, NEW completes \in BOOLEAN, Book(i, completes)
             PROVE  LifeInv'
  OBVIOUS
<1> DEFINE old == intents[i]
           outcome == IF old.action = "full_close" THEN Consumption(i, old.removed, 0) ELSE "NONE"
           fails   == ~completes \/ outcome = "THROWN"
           row     == [old EXCEPT !.state = "RECONCILED"]
<1>1. /\ worker.id = i
      /\ basis' = Consumed(i, outcome)
      /\ intents' = IF fails THEN intents ELSE To(i, "RECONCILED")
      /\ mirror' = IF fails THEN mirror ELSE ReconciledMirror(i, worker.liq, worker.status)
      /\ work' = IF fails THEN Released(i) ELSE [work EXCEPT ![i] = "done"]
      /\ worker' = NoItem
      /\ chain' = chain /\ ingested' = ingested /\ bot' = bot /\ canary' = canary
  BY DEF Book
<1>2. /\ Confirmed(i) /\ old.receipt = "success" /\ old.action \in {"collect", "full_close"}
      /\ old.action = "full_close" => i \in ingested
      /\ old \in RowSet /\ RowFits(i, old, chain.tx[i])
  <2>1. i # 0
    BY BoundsAssumption DEF Ids
  <2> QED
    BY <1>1, <2>1
       DEF LifeInv, WorkSound, WorkerSound, Confirmed, LifeTyped, IntentsTyped, RowsSound
<1>3. i \in Rows
  BY <1>2, ConfirmedIsRow DEF LifeInv
<1>4. /\ outcome = "TAKEN" => ~Blocked(i) /\ HasBasis(i)
      /\ outcome = "KEPT" => InBasis(i)
      /\ old.action = "full_close" /\ outcome = "NONE" => ~HasBasis(i)
      /\ outcome \in {"KEPT", "TAKEN", "NONE", "THROWN"}
  BY ConsumptionMeans
<1> HIDE DEF outcome
<1>5. /\ row \in RowSet /\ row.key = old.key /\ row.action = old.action
      /\ row.receipt = old.receipt /\ row.hash = old.hash /\ row.removed = old.removed
      /\ row.state = "RECONCILED"
  BY <1>2 DEF RowSet, RowStates, Signed, Booked
<1>6. ~fails => intents' = [intents EXCEPT ![i] = row]
  <2>1. ~Refused(i, "RECONCILED")
    BY DEF Refused
  <2> QED
    BY <1>1, <2>1 DEF To
<1> HIDE DEF row
<1>7. old.hash = TRUE /\ old.key # NoKey
  BY <1>2 DEF RowFits, Signed, Booked, ConfirmedStates, RowSet
<1>8. RowFits(i, row, chain.tx[i])
  BY <1>2, <1>5, <1>7 DEF RowFits, Signed, Booked, ConfirmedStates
<1>9. /\ IntentsTyped' /\ RowsSound' /\ RowsKept /\ NoNewRow
      /\ \A j \in Ids : j # i => intents'[j] = intents[j]
      /\ intents'[i] = old \/ (~fails /\ intents'[i] = row)
  <2>1. CASE fails
    BY <1>1, <2>1, RowsUntouched
  <2>2. CASE ~fails
    BY <1>1, <1>2, <1>3, <1>5, <1>6, <1>8, <2>2, RowChanged DEF LifeInv, LifeTyped
  <2> QED
    BY <2>1, <2>2
<1>10. BotTyped' /\ CanaryKept /\ BotSound' /\ KeysSound'
  <2>1. old.state \in Booked
    BY <1>2 DEF RowFits
  <2>2. PcFits(bot.pc, old, chain.tx[i], i \in ingested) =>
            PcFits(bot.pc, row, chain.tx[i], i \in ingested)
    BY <1>5, <2>1 DEF PcFits, Booked, ConfirmedStates
  <2>3. \A r \in Rows : PcFits(bot.pc, intents[r], chain.tx[r], r \in ingested) =>
                        PcFits(bot.pc, intents'[r], chain'.tx[r], r \in ingested')
    BY <1>1, <1>9, <2>2 DEF Rows
  <2> QED
    BY <1>1, <1>9, <2>3, BotStays
<1>11. basis' \in Seq(Ids) /\ BooksSound'
  <2>1. Removal(i) => old.action = "full_close"
    BY <1>2 DEF Removal
  <2>2. \A j \in Ids : intents'[j].state = "RECONCILED" =>
            \/ intents[j].state = "RECONCILED"
            \/ /\ j = i
               /\ Removal(i) => \/ outcome = "TAKEN" \/ InBasis(i)
                                \/ i \in ingested /\ ~HasBasis(i)
    BY <1>2, <1>4, <1>9, <2>1
  <2> QED
    BY <1>1, <1>2, <1>4, <1>9, <2>2, Booking
<1>12. mirror' \in [liq : Held, status : Statuses]
  <2>1. worker.liq \in Held /\ worker.status \in Statuses
        /\ mirror \in [liq : Held, status : Statuses]
    BY DEF LifeInv, LifeTyped, WorkTyped, BooksTyped
  <2>2. ReconciledMirror(i, worker.liq, worker.status) \in [liq : Held, status : Statuses]
    BY <2>1, MirrorTyped
  <2> QED
    BY <1>1, <2>1, <2>2
<1>13. WorkTyped'
  BY <1>1, BoundsAssumption DEF LifeInv, LifeTyped, WorkTyped, Released, NoItem, Held, Statuses
<1>14. WorkSound'
  <2>1. \A j \in Ids : work'[j] # "none" =>
            \/ work[j] # "none"
            \/ Confirmed(j) /\ intents[j].action \in {"collect", "full_close"}
    BY <1>1, <1>2 DEF LifeInv, LifeTyped, WorkTyped, Released
  <2>2. ItemsSound'
    BY <1>9, <2>1, ItemsKept DEF LifeInv, WorkSound
  <2> QED
    BY <1>1, <2>2 DEF WorkSound, WorkerSound, NoItem
<1>15. ChainTyped' /\ BooksTyped'
  BY <1>1, <1>11, <1>12 DEF LifeInv, LifeTyped, ChainTyped, BooksTyped
<1> QED
  BY <1>9, <1>10, <1>11, <1>13, <1>14, <1>15 DEF LifeInv, LifeTyped

LEMMA WorkerFailsInv == LifeInv /\ WorkerFails => LifeInv'
<1> SUFFICES ASSUME LifeInv, WorkerFails PROVE LifeInv'
  OBVIOUS
<1>1. /\ worker.id # 0 /\ work' = [work EXCEPT ![worker.id] = "due"] /\ worker' = NoItem
      /\ intents' = intents /\ chain' = chain /\ mirror' = mirror /\ ingested' = ingested
      /\ basis' = basis /\ bot' = bot /\ canary' = canary
  BY DEF WorkerFails, Released
<1>2. IntentsTyped' /\ RowsSound' /\ RowsKept /\ NoNewRow /\ NoneBooked
  BY <1>1, RowsUntouched
<1>3. BotTyped' /\ CanaryKept /\ BotSound' /\ KeysSound'
  BY <1>1, <1>2, BotStays
<1>4. ChainTyped' /\ BooksTyped' /\ WorkTyped'
  BY <1>1, BoundsAssumption
     DEF LifeInv, LifeTyped, ChainTyped, BooksTyped, WorkTyped, NoItem, Held, Statuses
<1>5. WorkSound'
  <2>1. \A j \in Ids : work'[j] # "none" =>
            \/ work[j] # "none"
            \/ Confirmed(j) /\ intents[j].action \in {"collect", "full_close"}
    BY <1>1 DEF LifeInv, LifeTyped, WorkTyped, WorkSound, WorkerSound
  <2>2. ItemsSound'
    BY <1>2, <2>1, ItemsKept DEF LifeInv, WorkSound
  <2> QED
    BY <1>1, <2>2 DEF WorkSound, WorkerSound, NoItem
<1>6. BooksSound'
  BY <1>1, <1>2, BooksKept DEF LifeInv, LifeTyped, BooksTyped
<1> QED
  BY <1>2, <1>3, <1>4, <1>5, <1>6 DEF LifeInv, LifeTyped

LEMMA RefreshInv == LifeInv /\ Refresh => LifeInv'
<1> SUFFICES ASSUME LifeInv, Refresh PROVE LifeInv'
  OBVIOUS
<1>1. /\ intents' = intents /\ chain' = chain /\ ingested' = ingested /\ basis' = basis
      /\ work' = work /\ worker' = worker /\ bot' = bot /\ canary' = canary
  BY DEF Refresh
<1>2. mirror' \in [liq : Held, status : Statuses]
  <2>1. mirror \in [liq : Held, status : Statuses] /\ chain.liq \in Held
    BY DEF LifeInv, LifeTyped, BooksTyped, ChainTyped
  <2> QED
    BY <2>1, BoundsAssumption DEF Refresh, Held, Statuses
<1>3. IntentsTyped' /\ RowsSound' /\ RowsKept /\ NoNewRow /\ NoneBooked
  BY <1>1, RowsUntouched
<1>4. BotTyped' /\ CanaryKept /\ BotSound' /\ KeysSound'
  BY <1>1, <1>3, BotStays
<1>5. ChainTyped' /\ BooksTyped' /\ WorkTyped'
  BY <1>1, <1>2 DEF LifeInv, LifeTyped, ChainTyped, BooksTyped, WorkTyped
<1>6. WorkSound'
  BY <1>1, <1>3, WorkKept DEF LifeInv, LifeTyped
<1>7. BooksSound'
  BY <1>1, <1>3, BooksKept DEF LifeInv, LifeTyped, BooksTyped
<1> QED
  BY <1>3, <1>4, <1>5, <1>6, <1>7 DEF LifeInv, LifeTyped

\* A pending transaction comes to its end: nobody who waits is misled.
LEMMA PendingEnds ==
    ASSUME LifeInv, NEW i \in Ids, NEW how \in {"success", "reverted", "none"},
           chain.tx[i] = "pending", chain'.tx = [chain.tx EXCEPT ![i] = how], ChainTyped',
           UNCHANGED <<intents, mirror, ingested, basis, work, worker, bot, canary>>
    PROVE  /\ IntentsTyped' /\ RowsSound' /\ RowsKept /\ NoNewRow /\ NoneBooked
           /\ BotTyped' /\ BotSound' /\ KeysSound' /\ BooksTyped' /\ WorkTyped' /\ WorkSound'
           /\ chain'.tx[i] = how
           /\ \A j \in Ids : j # i => chain'.tx[j] = chain.tx[j]
<1>1. /\ chain'.tx[i] = how
      /\ \A j \in Ids : j # i => chain'.tx[j] = chain.tx[j]
  BY DEF LifeInv, LifeTyped, ChainTyped
<1>2. IntentsTyped' /\ RowsKept /\ NoNewRow /\ NoneBooked
  BY DEF LifeInv, LifeTyped, IntentsTyped, RowsKept, NoNewRow, NoneBooked, Confirmed
<1>3. RowFits(i, intents[i], "pending")
  BY DEF LifeInv, RowsSound
<1>4. intents[i].hash /\ intents[i].receipt = "none"
  BY <1>3 DEF RowFits, LifeInv, LifeTyped, IntentsTyped, RowSet
<1>5. RowFits(i, intents[i], how)
  BY <1>3, <1>4 DEF RowFits
<1>6. RowsSound'
  BY <1>1, <1>5 DEF LifeInv, RowsSound
<1>7. BotTyped' /\ BotSound' /\ KeysSound'
  <2>1. \A r \in Rows : PcFits(bot.pc, intents[r], chain.tx[r], r \in ingested) =>
                        PcFits(bot.pc, intents'[r], chain'.tx[r], r \in ingested')
    BY <1>1 DEF Rows, PcFits
  <2> QED
    BY <1>2, <2>1, BotStays
<1>8. BooksTyped' /\ WorkTyped'
  BY DEF LifeInv, LifeTyped, BooksTyped, WorkTyped
<1>9. WorkSound'
  BY <1>2, WorkKept DEF LifeInv, LifeTyped
<1> QED
  BY <1>1, <1>2, <1>6, <1>7, <1>8, <1>9

LEMMA LoseInv == LifeInv /\ (\E i \in Ids, how \in {"reverted", "none"} : Lose(i, how)) => LifeInv'
<1> SUFFICES ASSUME LifeInv, NEW i \in Ids, NEW how \in {"reverted", "none"}, Lose(i, how)
             PROVE  LifeInv'
  OBVIOUS
<1>1. /\ chain.tx[i] = "pending" /\ chain' = [chain EXCEPT !.tx[i] = how]
      /\ UNCHANGED <<intents, mirror, ingested, basis, work, worker, bot, canary>>
  BY DEF Lose
<1>2. /\ ChainTyped' /\ chain'.tx = [chain.tx EXCEPT ![i] = how]
      /\ chain'.landed = chain.landed
  BY <1>1 DEF LifeInv, LifeTyped, ChainTyped, TxStates
<1>3. /\ IntentsTyped' /\ RowsSound' /\ RowsKept /\ NoNewRow /\ NoneBooked
      /\ BotTyped' /\ BotSound' /\ KeysSound' /\ BooksTyped' /\ WorkTyped' /\ WorkSound'
      /\ \A j \in Ids : j # i => chain'.tx[j] = chain.tx[j]
  BY <1>1, <1>2, PendingEnds
<1>4. \A j \in Ids : chain.tx[j] = "success" => chain'.tx[j] = "success"
  BY <1>1, <1>3
<1>5. BooksSound'
  BY <1>1, <1>2, <1>3, <1>4, BooksKept DEF LifeInv, LifeTyped, BooksTyped
<1> QED
  BY <1>2, <1>3, <1>5 DEF LifeInv, LifeTyped

LEMMA LandInv == LifeInv /\ (\E i \in Ids : Land(i)) => LifeInv'
<1> SUFFICES ASSUME LifeInv, NEW i \in Ids, Land(i) PROVE LifeInv'
  OBVIOUS
<1> DEFINE liq == chain.liq - intents[i].removed
<1>1. /\ chain.tx[i] = "pending" /\ Executable(i)
      /\ chain' = [chain EXCEPT !.tx[i] = "success", !.landed = Append(@, i),
                                !.liq = @ - intents[i].removed,
                                !.held = intents[i].action # "burn"]
      /\ UNCHANGED <<intents, mirror, ingested, basis, work, worker, bot, canary>>
  BY DEF Land
<1>2. chain \in [liq : Held, held : BOOLEAN, tx : [Ids -> TxStates], landed : Seq(Ids)]
  BY DEF LifeInv, LifeTyped, ChainTyped
<1>3. liq \in Held
  <2>1. intents[i].removed \in Held /\ intents[i].action \in Actions
    BY DEF LifeInv, LifeTyped, IntentsTyped, RowSet
  <2>2. intents[i].action \in {"burn", "collect"} => intents[i].removed = 0
    BY DEF LifeInv, RowsSound, RowFits
  <2>3. intents[i].removed <= chain.liq
    <3>1. CASE intents[i].action \in {"burn", "collect"}
      BY <1>2, <2>2, <3>1, BoundsAssumption DEF Held
    <3>2. CASE intents[i].action \notin {"burn", "collect"}
      BY <1>1, <3>2 DEF Executable
    <3> QED
      BY <3>1, <3>2
  <2> QED
    BY <1>2, <2>1, <2>3, BoundsAssumption DEF Held
<1>4. Append(chain.landed, i) \in Seq(Ids)
  BY <1>2
<1>5. /\ chain'.tx = [chain.tx EXCEPT ![i] = "success"]
      /\ chain'.landed = Append(chain.landed, i)
      /\ ChainTyped'
  BY <1>1, <1>2, <1>3, <1>4 DEF ChainTyped, TxStates
<1>6. /\ IntentsTyped' /\ RowsSound' /\ RowsKept /\ NoNewRow /\ NoneBooked
      /\ BotTyped' /\ BotSound' /\ KeysSound' /\ BooksTyped' /\ WorkTyped' /\ WorkSound'
      /\ chain'.tx[i] = "success"
      /\ \A j \in Ids : j # i => chain'.tx[j] = chain.tx[j]
  BY <1>1, <1>5, PendingEnds
<1>7. /\ Len(chain.landed) \in Nat /\ DOMAIN chain.landed = 1 .. Len(chain.landed)
      /\ DOMAIN chain'.landed = 1 .. Len(chain.landed) + 1
      /\ chain'.landed[Len(chain.landed) + 1] = i
      /\ \A p \in DOMAIN chain.landed : /\ chain.landed[p] \in Ids
                                        /\ chain'.landed[p] = chain.landed[p]
  BY <1>2, <1>5, AppendProperties
<1>8. /\ LandedOnce /\ BasisSettled /\ ClosesBooked /\ CloseTakesTheRest
      /\ basis \in Seq(Ids)
  BY DEF LifeInv, LifeTyped, BooksSound, BooksTyped
<1>9. LandedOnce'
  <2>1. \A p \in DOMAIN chain.landed : chain.landed[p] # i
    BY <1>1, <1>8 DEF LandedOnce
  <2>2. \A p \in DOMAIN chain'.landed : chain'.tx[chain'.landed[p]] = "success"
    <3> TAKE p \in DOMAIN chain'.landed
    <3>1. CASE p \in DOMAIN chain.landed
      <4>1. chain.landed[p] \in Ids /\ chain.landed[p] # i /\ chain'.landed[p] = chain.landed[p]
        BY <1>7, <2>1, <3>1
      <4> QED
        BY <1>6, <1>8, <3>1, <4>1 DEF LandedOnce
    <3>2. CASE p \notin DOMAIN chain.landed
      <4>1. p = Len(chain.landed) + 1
        BY <1>7, <3>2
      <4> QED
        BY <1>6, <1>7, <4>1
    <3> QED
      BY <3>1, <3>2
  <2> QED
    BY <2>2 DEF LandedOnce
<1>10. BasisSettled' /\ ClosesBooked'
  BY <1>1, <1>8 DEF BasisSettled, Confirmed, ClosesBooked, Removal, InBasis, Baseless
<1>11. CloseTakesTheRest'
  <2> SUFFICES ASSUME NEW n \in DOMAIN basis, NEW k \in 1 .. basis[n] - 1, Before(k, basis[n])',
                      intents[k].action \in {"partial_close", "full_close"}
               PROVE  \E m \in 1 .. n - 1 : basis[m] = k
    BY <1>1 DEF CloseTakesTheRest
  <2>1. basis[n] \in Ids /\ chain.tx[basis[n]] = "success"
    BY <1>8, ConfirmedIsRow DEF BasisSettled, LifeInv
  <2>2. basis[n] # i
    BY <1>1, <2>1
  <2>3. PICK p, q \in DOMAIN chain'.landed :
            p < q /\ chain'.landed[p] = k /\ chain'.landed[q] = basis[n]
    BY <1>1 DEF Before
  <2>4. p \in DOMAIN chain.landed /\ q \in DOMAIN chain.landed
    BY <1>7, <2>2, <2>3
  <2>5. Before(k, basis[n])
    BY <1>7, <2>3, <2>4 DEF Before
  <2> QED
    BY <1>8, <2>5 DEF CloseTakesTheRest
<1> QED
  BY <1>5, <1>6, <1>9, <1>10, <1>11 DEF LifeInv, LifeTyped, BooksSound

-----------------------------------------------------------------------------
(* The bot between two intents *)

\* A new row disturbs none of the others.
LEMMA RowCreated ==
    ASSUME LifeInv, NextId \in Ids, NextId \notin Rows, NEW row \in RowSet,
           row.state \in {"PREVIEWED", "CLAIMED"}, row.key # NoKey,
           row.hash = FALSE, row.receipt = "none", row.removed = 0,
           row.key[1] = "preview" => row.key[2] = NextId /\ row.action # "burn",
           row.key[1] \in {"burn", "canary_burn"} => row.action = "burn",
           row.key[1] = "canary_close" => row.action = "full_close",
           intents' = [intents EXCEPT ![NextId] = row], chain' = chain
    PROVE  IntentsTyped' /\ RowsSound' /\ RowsKept /\ NoneBooked /\ intents'[NextId] = row
<1> DEFINE n == NextId
<1>1. /\ n \in Ids /\ intents[n].state = "NONE"
      /\ row.key[1] = "preview" => row.key[2] = n /\ row.action # "burn"
  BY DEF Rows
<1>2. /\ intents'[n] = row /\ IntentsTyped'
      /\ \A j \in Ids : j # n => intents'[j] = intents[j]
  BY <1>1 DEF LifeInv, LifeTyped, IntentsTyped
<1> HIDE DEF n
<1>3. chain.tx[n] = "none" /\ intents[n].receipt = "none"
  BY <1>1 DEF LifeInv, LifeTyped, IntentsTyped, RowSet, RowsSound, RowFits, Signed, Booked,
              ConfirmedStates
<1>4. RowFits(n, row, "none")
  BY <1>1 DEF RowFits, Signed, Booked, ConfirmedStates
<1>5. RowsSound'
  BY <1>2, <1>3, <1>4 DEF LifeInv, RowsSound
<1>6. RowsKept
  BY <1>1, <1>2, <1>3 DEF RowsKept, Confirmed
<1>7. NoneBooked
  BY <1>1, <1>2 DEF NoneBooked
<1> QED
  BY <1>2, <1>5, <1>6, <1>7 DEF n

\* A row as it is created, and as it is claimed.
NewRow(key, action, state) ==
    {row \in RowSet : /\ row.key = key /\ row.action = action /\ row.state = state
                      /\ row.hash = FALSE /\ row.receipt = "none" /\ row.removed = 0}

LEMMA CreatedRow ==
    ASSUME NEW key \in Keys, NEW action \in Actions
    PROVE  /\ Created(key, action) \in NewRow(key, action, "PREVIEWED")
           /\ Won(Created(key, action)) \in NewRow(key, action, "CLAIMED")
<1> DEFINE row == Created(key, action)
<1>1. /\ Absent \in RowSet /\ Absent.hash = FALSE /\ Absent.receipt = "none"
      /\ Absent.removed = 0
  BY BoundsAssumption DEF Absent, RowSet, RowStates, NoKey, Actions, Held
<1>2. row = [Absent EXCEPT !.key = key, !.action = action, !.state = "PREVIEWED"]
  BY DEF Created
<1> HIDE DEF row
<1>3. /\ row \in RowSet /\ row.key = key /\ row.action = action
      /\ row.state = "PREVIEWED" /\ row.hash = FALSE /\ row.receipt = "none"
      /\ row.removed = 0
  BY <1>1, <1>2 DEF RowSet, RowStates
<1>4. Won(row) = [row EXCEPT !.state = "CLAIMED"]
  BY <1>3 DEF Won
<1>5. /\ Won(row) \in RowSet /\ Won(row).key = key /\ Won(row).action = action
      /\ Won(row).state = "CLAIMED" /\ Won(row).hash = FALSE
      /\ Won(row).receipt = "none" /\ Won(row).removed = 0
  BY <1>3, <1>4 DEF RowSet, RowStates
<1> QED
  BY <1>3, <1>5 DEF row, NewRow

LEMMA PreviewInv == LifeInv /\ (\E a \in Actions : Preview(a)) => LifeInv'
<1> SUFFICES ASSUME LifeInv, NEW action \in Actions, Preview(action) PROVE LifeInv'
  OBVIOUS
<1> DEFINE key == <<"preview", NextId>>
           row == Created(key, action)
<1>1. /\ bot.pc = "idle" /\ action # "burn"
      /\ Room(IF action = "full_close" THEN 2 ELSE 1)
      /\ intents' = [intents EXCEPT ![NextId] = row]
      /\ bot' = bot /\ canary' = canary /\ Rest /\ chain' = chain
  BY DEF Preview, Rest
<1>2. Cardinality(Rows) + Reserved + (IF action = "full_close" THEN 2 ELSE 1) <= MaxIntents
  BY <1>1 DEF Room
<1>3. Cardinality(Rows) \in Nat /\ Reserved \in Nat
  BY RowsAreFirst, OwedCounted DEF LifeInv, KeysSound
<1>4. NextId \in Ids /\ NextId \notin Rows
  BY <1>2, <1>3, NextIdIsNew, BoundsAssumption DEF LifeInv, KeysSound
<1>5. key \in Keys
  BY <1>4 DEF Keys
<1>6. key # NoKey /\ key[1] = "preview" /\ key[2] = NextId
  BY DEF NoKey
<1>7. ~HasKey(key)
  <2> SUFFICES ASSUME NEW i \in Rows, intents[i].key = key PROVE FALSE
    BY DEF HasKey
  <2>1. i = NextId
    BY <1>6 DEF LifeInv, RowsSound, RowFits, Rows
  <2> QED
    BY <1>4, <2>1
<1> HIDE DEF key
<1>8. /\ row \in RowSet /\ row.key = key /\ row.action = action /\ row.state = "PREVIEWED"
      /\ row.hash = FALSE /\ row.receipt = "none" /\ row.removed = 0
  <2>1. row \in NewRow(key, action, "PREVIEWED")
    BY <1>5, CreatedRow
  <2> QED
    BY <2>1 DEF NewRow
<1> HIDE DEF row
<1>9. IntentsTyped' /\ RowsSound' /\ RowsKept /\ NoneBooked
  <2>1. row.key[1] \notin {"burn", "canary_burn", "canary_close"}
    BY <1>6, <1>8
  <2> QED
    BY <1>1, <1>4, <1>6, <1>8, <2>1, RowCreated
<1>10. KeysSound'
  <2>1. row.key = <<"preview", NextId>> /\ row.state # "NONE" /\ ~HasKey(row.key)
    BY <1>7, <1>8 DEF key
  <2> QED
    BY <1>1, <1>2, <1>4, <1>8, <2>1, RoomAfterPreview DEF LifeInv, LifeTyped
<1>11. BotTyped' /\ BotSound'
  BY <1>1, BotLeaves DEF LifeInv, LifeTyped, BotTyped
<1>12. ChainTyped' /\ BooksTyped' /\ WorkTyped' /\ WorkSound' /\ BooksSound'
  BY <1>1, <1>9, RestKept
<1> QED
  BY <1>9, <1>10, <1>11, <1>12 DEF LifeInv, LifeTyped

LEMMA ConfirmInv == LifeInv /\ (\E i \in Ids : Confirm(i)) => LifeInv'
<1> SUFFICES ASSUME LifeInv, NEW i \in Ids, Confirm(i) PROVE LifeInv'
  OBVIOUS
<1> DEFINE key == intents[i].key
<1>1. /\ key[1] = "preview" /\ bot' = At("enter", key)
      /\ intents' = intents /\ canary' = canary /\ Rest /\ chain' = chain
  BY DEF Confirm, Rest
<1>2. key \in Keys
  BY <1>1 DEF LifeInv, LifeTyped, IntentsTyped, RowSet, NoKey
<1>3. key[2] = i
  BY <1>1 DEF LifeInv, RowsSound, RowFits
<1>4. IntentsTyped' /\ RowsSound' /\ RowsKept /\ NoNewRow /\ NoneBooked
  BY <1>1, RowsUntouched
<1>5. /\ bot'.pc = "enter" /\ bot'.key = key /\ BotTyped' /\ CanaryKept
  BY <1>1, <1>2, AtTyped DEF LifeInv, LifeTyped, BotTyped, Pcs, CanaryKept
<1>6. KeyFits(bot.key)'
  <2>1. intents'[bot'.key[2]].key = bot'.key
    BY <1>1, <1>3, <1>5
  <2>2. bot'.key[1] = "preview" /\ bot'.key \in Keys
    BY <1>1, <1>2, <1>5
  <2> QED
    BY <2>1, <2>2 DEF KeyFits, CanaryKeys
<1>7. BotSound'
  BY <1>5, <1>6, BotLeaves
<1> QED
  BY <1>1, <1>4, <1>5, <1>7, RowOnly

LEMMA CanaryCloseInv == LifeInv /\ CanaryClose => LifeInv'
<1> SUFFICES ASSUME LifeInv, CanaryClose PROVE LifeInv'
  OBVIOUS
<1> DEFINE key == <<"canary_close", 0>>
<1>1. /\ canary \in {"OPENED", "CLOSING", "FAILED"} /\ canary' = Claimed
      /\ bot' = At("enter", key) /\ intents' = intents /\ Rest /\ chain' = chain
  BY DEF CanaryClose, CanaryAdmits, Rest
<1>2. key \in Keys /\ key[1] = "canary_close"
  BY DEF Keys, CanaryKeys
<1>3. IntentsTyped' /\ RowsSound' /\ RowsKept /\ NoNewRow /\ NoneBooked
  BY <1>1, RowsUntouched
<1>4. canary' \in {"OPENED", "CLOSING", "FAILED"}
  BY <1>1 DEF Claimed
<1>5. /\ bot'.pc = "enter" /\ bot'.key = key /\ BotTyped' /\ CanaryKept
  BY <1>1, <1>2, <1>4, AtTyped DEF LifeInv, LifeTyped, BotTyped, Pcs, CanaryKept
<1>6. KeyFits(bot.key)'
  BY <1>2, <1>4, <1>5 DEF KeyFits
<1>7. BotSound'
  BY <1>5, <1>6, BotLeaves
<1> QED
  BY <1>1, <1>3, <1>5, <1>7, RowOnly

\* The row the bot finds: taken over as it stands, or won.
LEMMA WonFits ==
    ASSUME NEW i \in Ids, NEW row \in RowSet, NEW tx, RowFits(i, row, tx), row.state # "NONE"
    PROVE  /\ Won(row) \in RowSet /\ Won(row).key = row.key /\ Won(row).action = row.action
           /\ Won(row).receipt = row.receipt /\ Won(row).hash = row.hash
           /\ Won(row).state = IF row.state = "PREVIEWED" THEN "CLAIMED" ELSE row.state
           /\ RowFits(i, Won(row), tx)
<1>1. CASE row.state = "PREVIEWED"
  <2> DEFINE r == [row EXCEPT !.state = "CLAIMED"]
  <2>1. Won(row) = r
    BY <1>1 DEF Won
  <2>2. /\ r \in RowSet /\ r.state = "CLAIMED" /\ r.key = row.key /\ r.action = row.action
        /\ r.receipt = row.receipt /\ r.hash = row.hash /\ r.removed = row.removed
    BY DEF RowSet, RowStates
  <2> HIDE DEF r
  <2>3. row.hash = FALSE /\ row.receipt # "success" /\ row.key # NoKey
    BY <1>1 DEF RowFits, RowSet, Signed, Booked, ConfirmedStates
  <2>4. RowFits(i, r, tx)
    BY <1>1, <2>2, <2>3 DEF RowFits, Signed, Booked, ConfirmedStates
  <2> QED
    BY <1>1, <2>1, <2>2, <2>4
<1>2. CASE row.state # "PREVIEWED"
  BY <1>2 DEF Won
<1> QED
  BY <1>1, <1>2

LEMMA EnterFound ==
    ASSUME LifeInv, Enter, HasKey(bot.key)
    PROVE  LifeInv'
<1> DEFINE old == intents[Self]
           row == Won(old)
<1>1. /\ bot.pc = "enter" /\ intents' = [intents EXCEPT ![Self] = row]
      /\ old.state \in {"PREVIEWED", "CLAIMED"} => Goto("prepare")
      /\ old.state = "PREPARED" => Goto("probe")
      /\ old.state = "SUBMITTED" => Goto("wait")
      /\ old.state \in ConfirmedStates => Goto("confirmed")
      /\ old.state \in {"RECONCILED", "BURNED"} => Succeeds(old, mirror)
      /\ old.state = "FAILED" => Fails
      /\ Rest /\ chain' = chain
  BY DEF Enter, Rest, ConfirmedStates
<1>2. /\ Self \in Ids /\ Self \in Rows /\ old.key = bot.key /\ old.state # "NONE"
      /\ old \in RowSet /\ RowFits(Self, old, chain.tx[Self])
      /\ KeyFits(bot.key) /\ bot.pc # "idle"
  BY <1>1, SelfIsRow DEF LifeInv, LifeTyped, IntentsTyped, RowsSound, BotSound
<1>3. /\ row \in RowSet /\ row.key = old.key /\ row.action = old.action
      /\ row.receipt = old.receipt /\ row.hash = old.hash
      /\ row.state = IF old.state = "PREVIEWED" THEN "CLAIMED" ELSE old.state
      /\ RowFits(Self, row, chain.tx[Self])
  BY <1>2, WonFits
<1> HIDE DEF row
<1>4. Confirmed(Self) => row.receipt = "success"
  BY <1>3 DEF Confirmed
<1>5. /\ IntentsTyped' /\ RowsSound' /\ RowsKept /\ NoNewRow /\ NoneBooked
      /\ intents'[Self] = row
  BY <1>1, <1>2, <1>3, <1>4, SelfStep
<1>6. ASSUME NEW pc \in Pcs, Goto(pc), PcFits(pc, row, chain.tx[Self], Self \in ingested)
      PROVE  BotTyped' /\ CanaryKept /\ BotSound'
  <2>1. BotTyped' /\ CanaryKept /\ bot'.pc = pc /\ bot'.key = bot.key
    BY <1>2, <1>6, GotoTyped
  <2>2. PcFits(bot'.pc, intents'[Self], chain'.tx[Self], Self \in ingested')
    BY <1>1, <1>5, <1>6, <2>1 DEF Rest
  <2> QED
    BY <1>2, <1>5, <2>1, <2>2, BotGoesOn DEF LifeInv, LifeTyped, KeysSound
<1>7. BotTyped' /\ CanaryKept /\ BotSound'
  <2>1. CASE old.state \in {"PREVIEWED", "CLAIMED"}
    BY <1>1, <1>3, <1>6, <2>1 DEF PcFits, Pcs
  <2>2. CASE old.state = "PREPARED"
    BY <1>1, <1>3, <1>6, <2>2 DEF PcFits, Pcs, RowFits, Signed
  <2>3. CASE old.state = "SUBMITTED"
    BY <1>1, <1>3, <1>6, <2>3 DEF PcFits, Pcs, RowFits, Signed
  <2>4. CASE old.state \in ConfirmedStates
    BY <1>1, <1>2, <1>3, <1>6, <2>4 DEF PcFits, Pcs, RowFits, Booked
  <2>5. CASE old.state \in {"RECONCILED", "BURNED"}
    BY <1>1, <1>2, <1>5, <2>5, SucceedsLeaves DEF LifeInv
  <2>6. CASE old.state = "FAILED"
    BY <1>1, <1>2, <2>6, FailsLeaves DEF LifeInv, LifeTyped
  <2>7. old.state \in RowStates
    BY <1>2 DEF RowSet
  <2> QED
    BY <1>2, <2>1, <2>2, <2>3, <2>4, <2>5, <2>6, <2>7 DEF RowStates, Signed, Booked, ConfirmedStates
<1> QED
  BY <1>1, <1>5, <1>7, RowOnly

LEMMA EnterNew ==
    ASSUME LifeInv, Enter, ~HasKey(bot.key)
    PROVE  LifeInv'
<1> DEFINE action == CASE bot.key[1] = "burn"         -> "burn"
                       [] bot.key[1] = "canary_burn"  -> "burn"
                       [] bot.key[1] = "canary_close" -> "full_close"
                       [] OTHER                       -> intents[bot.key[2]].action
           row == Won(Created(bot.key, action))
<1>1. KeyFits(bot.key) /\ bot.key \in Keys /\ bot.pc = "enter"
  BY DEF Enter, LifeInv, BotSound, KeyFits
<1>2. /\ bot.key[1] \in {"preview", "burn"} \cup CanaryKeys /\ bot.key # NoKey
      /\ bot.key[1] \in {"preview", "burn"} => bot.key[2] \in Ids
      /\ bot.key[1] \in CanaryKeys => bot.key[2] = 0
      /\ bot.key = <<bot.key[1], bot.key[2]>>
  BY <1>1, KeyForms
<1>3. \A j \in Ids : intents[j].key # NoKey => j \in Rows
  BY DEF LifeInv, RowsSound, RowFits, Rows
<1>4. bot.key[1] # "preview"
  <2> SUFFICES ASSUME bot.key[1] = "preview" PROVE FALSE
    OBVIOUS
  <2>1. bot.key[2] \in Rows /\ intents[bot.key[2]].key = bot.key
    BY <1>1, <1>2, <1>3 DEF KeyFits
  <2> QED
    BY <2>1 DEF HasKey
<1>5. /\ bot.key[1] \in {"burn", "canary_burn"} => action = "burn"
      /\ bot.key[1] = "canary_close" => action = "full_close"
      /\ action \in Actions
  BY <1>2, <1>4 DEF CanaryKeys, Actions
<1>6. \A a : Created(bot.key, a).state = "PREVIEWED"
  BY DEF Created, Absent
<1>7. /\ intents' = [intents EXCEPT ![NextId] = row]
      /\ Goto("prepare") /\ Rest /\ chain' = chain
  <2>1. intents' = [intents EXCEPT ![NextId] = row]
    BY DEF Enter
  <2>2. Goto("prepare")
    BY <1>6 DEF Enter, ConfirmedStates
  <2>3. Rest /\ chain' = chain
    BY DEF Enter, Rest
  <2> QED
    BY <2>1, <2>2, <2>3
<1> HIDE DEF action
<1>8. /\ row \in RowSet /\ row.key = bot.key /\ row.action = action /\ row.state = "CLAIMED"
      /\ row.hash = FALSE /\ row.receipt = "none" /\ row.removed = 0
  <2>1. row \in NewRow(bot.key, action, "CLAIMED")
    BY <1>1, <1>5, CreatedRow
  <2> QED
    BY <2>1 DEF NewRow
<1> HIDE DEF row
<1>9. BotTyped' /\ CanaryKept /\ bot'.pc = "prepare" /\ bot'.key = bot.key /\ canary' = canary
  BY <1>1, <1>7, GotoTyped DEF Pcs, Goto
<1>10. KeysSound' /\ NextId \in Ids /\ NextId \notin Rows
  <2>1. \/ \E j \in Rows : /\ row.key = <<"burn", j>>
                           /\ intents[j].key[1] = "preview"
                           /\ intents[j].action = "full_close"
        \/ canary # "NONE" /\ \E k \in CanaryKeys : row.key = <<k, 0>>
    <3>1. CASE bot.key[1] = "burn"
      <4> DEFINE j == bot.key[2]
      <4>1. j \in Ids /\ intents[j].key = <<"preview", j>> /\ intents[j].action = "full_close"
        BY <1>1, <1>2, <3>1 DEF KeyFits
      <4>2. j \in Rows
        BY <1>3, <4>1 DEF NoKey
      <4> QED
        BY <1>2, <1>8, <3>1, <4>1, <4>2
    <3>2. CASE bot.key[1] \in CanaryKeys
      BY <1>1, <1>2, <1>8, <3>2 DEF KeyFits
    <3> QED
      BY <1>2, <1>4, <3>1, <3>2
  <2>2. row.state # "NONE" /\ ~HasKey(row.key)
    BY <1>8
  <2> QED
    BY <1>7, <1>8, <1>9, <2>1, <2>2, RoomAfterOwed DEF LifeInv, LifeTyped
<1>11. IntentsTyped' /\ RowsSound' /\ RowsKept /\ NoneBooked /\ intents'[NextId] = row
  <2>1. /\ row.key # NoKey /\ row.key[1] # "preview"
        /\ row.key[1] \in {"burn", "canary_burn"} => row.action = "burn"
        /\ row.key[1] = "canary_close" => row.action = "full_close"
    BY <1>2, <1>4, <1>5, <1>8
  <2> QED
    BY <1>7, <1>8, <1>10, <2>1, RowCreated
<1>12. NextId \in Rows'
  BY <1>8, <1>10, <1>11 DEF Rows
<1>13. BotSound'
  <2>1. HasKey(bot.key)'
    BY <1>8, <1>9, <1>11, <1>12 DEF HasKey
  <2>2. KeyFits(bot.key)'
    <3>1. \A key : KeyFits(key) => KeyFits(key)'
      BY <1>9, <1>11, KeyStillFits DEF LifeInv, LifeTyped
    <3> QED
      BY <1>1, <1>9, <3>1 DEF KeyFits
  <2>3. \A i \in Rows' : intents'[i].key = bot'.key => intents'[i] = row
    <3>1. KeysUnique'
      BY <1>10 DEF KeysSound
    <3> QED
      BY <1>8, <1>9, <1>11, <1>12, <3>1 DEF KeysUnique
  <2>4. \A i \in Rows' : intents'[i].key = bot'.key =>
            PcFits(bot'.pc, intents'[i], chain'.tx[i], i \in ingested')
    BY <1>8, <1>9, <2>3 DEF PcFits
  <2> QED
    BY <2>1, <2>2, <2>4 DEF BotSound
<1>14. ChainTyped' /\ BooksTyped' /\ WorkTyped' /\ WorkSound' /\ BooksSound'
  BY <1>7, <1>11, RestKept
<1> QED
  BY <1>9, <1>10, <1>11, <1>13, <1>14 DEF LifeInv, LifeTyped

LEMMA EnterInv == LifeInv /\ Enter => LifeInv'
BY EnterFound, EnterNew

-----------------------------------------------------------------------------
(* The invariant *)

LEMMA InitLife == Init => LifeInv
<1> SUFFICES ASSUME Init PROVE LifeInv
  OBVIOUS
<1>1. /\ intents = [i \in Ids |-> Absent]
      /\ chain = [liq |-> InitialLiquidity, held |-> TRUE,
                  tx |-> [i \in Ids |-> "none"], landed |-> <<>>]
      /\ mirror = [liq |-> InitialLiquidity, status |-> "open"]
      /\ ingested = {} /\ basis = <<>> /\ work = [i \in Ids |-> "none"] /\ worker = NoItem
      /\ bot = Idle /\ canary \in {"NONE", "OPENED"} /\ (MaxIntents < 2 => canary = "NONE")
  BY DEF Init
<1>2. Absent \in RowSet /\ Absent.state = "NONE" /\ Absent.key = NoKey
  BY BoundsAssumption DEF Absent, RowSet, RowStates, NoKey, Actions, Held
<1>3. IntentsTyped
  BY <1>1, <1>2 DEF IntentsTyped
<1>4. ChainTyped
  <2>1. InitialLiquidity \in Held
    BY BoundsAssumption DEF Held
  <2>2. <<>> \in Seq(Ids)
    BY EmptySeq
  <2>3. [i \in Ids |-> "none"] \in [Ids -> TxStates]
    BY DEF TxStates
  <2> QED
    BY <1>1, <2>1, <2>2, <2>3 DEF ChainTyped
<1>5. BotTyped
  BY <1>1, AtTyped DEF BotTyped
<1>6. BooksTyped /\ WorkTyped
  BY <1>1, BoundsAssumption, EmptySeq DEF BooksTyped, WorkTyped, NoItem, Held, Statuses
<1>7. RowsSound
  BY <1>1 DEF RowsSound, RowFits, Absent, NoKey, Signed, Booked, ConfirmedStates
<1>8. Rows = {}
  BY <1>1, <1>2 DEF Rows
<1>9. KeysUnique /\ NoGaps
  BY <1>8 DEF KeysUnique, NoGaps
<1>10. RoomLeft
  <2>1. \A key : ~HasKey(key)
    BY <1>8 DEF HasKey
  <2>2. Unburned = {} /\ Unclosed = CanaryKeys
    BY <1>8, <2>1 DEF Unburned, Unclosed
  <2>3. Cardinality(CanaryKeys) = 2
    <3>1. CanaryKeys = {"canary_close"} \cup {"canary_burn"}
      BY DEF CanaryKeys
    <3>2. IsFiniteSet({"canary_close"}) /\ Cardinality({"canary_close"}) = 1
      BY FS_Singleton
    <3> QED
      BY <3>1, <3>2, FS_AddElement
  <2>4. Reserved = IF canary = "NONE" THEN 0 ELSE 2
    BY <1>9, <2>2, <2>3, OwedCounted, FS_EmptySet
  <2> QED
    BY <1>1, <1>8, <2>4, FS_EmptySet, BoundsAssumption DEF RoomLeft
<1>11. BotSound /\ WorkSound
  <2>1. bot.pc = "idle" /\ worker.id = 0 /\ \A i \in Ids : work[i] = "none"
    BY <1>1 DEF Idle, NoItem
  <2> QED
    BY <1>8, <2>1 DEF BotSound, WorkSound, ItemsSound, WorkerSound
<1>12. BooksSound
  <2>1. chain.landed = <<>> /\ DOMAIN chain.landed = {} /\ DOMAIN basis = {}
    BY <1>1, EmptySeq
  <2> QED
    BY <1>1, <1>2, <2>1
       DEF BooksSound, LandedOnce, BasisSettled, ClosesBooked, CloseTakesTheRest
<1> QED
  BY <1>3, <1>4, <1>5, <1>6, <1>7, <1>9, <1>10, <1>11, <1>12
     DEF LifeInv, LifeTyped, KeysSound

LEMMA LifeInductive == LifeInv /\ [Next]_vars => LifeInv'
<1> SUFFICES ASSUME LifeInv, [Next]_vars PROVE LifeInv'
  OBVIOUS
<1>1. CASE BotStep
  BY <1>1, PreviewInv, ConfirmInv, CanaryCloseInv, EnterInv, PrepareInv, RefuseInv, BroadcastInv,
     ProbeInv, ObserveInv, GiveUpInv, DeferInv, BookBurnInv, ReadBooksInv, BookInlineInv, CrashInv
     DEF BotStep
<1>2. CASE \E i \in Ids : Discover(i) \/ Lease(i) \/ Book(i, TRUE) \/ Book(i, FALSE) \/ Land(i)
  BY <1>2, DiscoverInv, LeaseInv, BookInv, LandInv
<1>3. CASE WorkerFails \/ Refresh
  BY <1>3, WorkerFailsInv, RefreshInv
<1>4. CASE \E i \in Ids, how \in {"reverted", "none"} : Lose(i, how)
  BY <1>4, LoseInv
<1>5. CASE UNCHANGED vars
  <2>1. /\ intents' = intents /\ chain' = chain /\ Rest /\ bot' = bot /\ canary' = canary
        /\ ingested' = ingested
    BY <1>5 DEF vars, Rest
  <2>2. IntentsTyped' /\ RowsSound' /\ RowsKept /\ NoNewRow /\ NoneBooked
    BY <2>1, RowsUntouched
  <2>3. BotTyped' /\ CanaryKept /\ BotSound'
    BY <2>1, <2>2, BotStays
  <2> QED
    BY <2>1, <2>2, <2>3, RowOnly
<1> QED
  BY <1>1, <1>2, <1>3, <1>4, <1>5 DEF Next

\* Every row of the lifecycle's tables is one the program writes.
THEOREM LifecycleTyped == Spec => []TypeOK
<1>1. LifeInv => TypeOK
  BY DEF LifeInv, LifeTyped, IntentsTyped, ChainTyped, BotTyped, BooksTyped, WorkTyped, TypeOK,
         RowSet, RowStates, Signed, Booked, ConfirmedStates, UnresolvedStates, Held, TxStates,
         Statuses
<1> QED
  BY InitLife, LifeInductive, <1>1, PTL DEF Spec

\* An action that landed on the chain keeps its hash and is never FAILED or back where it
\* could be signed again, whatever threw, timed out or died after the bytes left
\* (the catch clause of executeV4Lifecycle, failBeforeConfirmation).
THEOREM LandedActionIsKept == Spec => []LandedIsKept
<1>1. LifeInv => LandedIsKept
  <2> SUFFICES ASSUME LifeInv, NEW i \in Ids, chain.tx[i] = "success"
               PROVE  /\ intents[i].hash
                      /\ intents[i].state \in UnresolvedStates \cup {"RECONCILED", "BURNED"}
                      /\ intents[i].state # "CLAIMED"
    BY DEF LandedIsKept
  <2>1. RowFits(i, intents[i], "success")
    BY DEF LifeInv, RowsSound
  <2> QED
    BY <2>1 DEF RowFits, Signed, Booked, ConfirmedStates, UnresolvedStates
<1> QED
  BY InitLife, LifeInductive, <1>1, PTL DEF Spec

\* A close takes from the cost basis what the removals before it left over: one that
\* landed earlier and was previewed earlier has been consumed before it, whether the bot
\* or the worker books it (consumeGenericV4Basis).
THEOREM CloseTakesWhatIsLeft == Spec => []CloseTakesTheRest
<1>1. LifeInv => CloseTakesTheRest
  BY DEF LifeInv, BooksSound
<1> QED
  BY InitLife, LifeInductive, <1>1, PTL DEF Spec
=============================================================================
