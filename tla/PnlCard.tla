------------------------------- MODULE PnlCard -------------------------------
(***************************************************************************)
(* The card that tells the chat what a close has earned: the row of        *)
(* pnl_card_deliveries (lp-ledger), the consumers that share it, which are *)
(* the loop of the bot and the reconcile command (pnl-card-delivery.ts),   *)
(* and the sender (telegram-sender.ts).                                    *)
(*                                                                         *)
(* Between a claim and the start of the send a consumer awaits nothing,    *)
(* and the lease of 30 s is longer than that: such a claim expires only    *)
(* when its consumer is dead.  The send itself has no time limit and is    *)
(* overtaken by the lease.  An answer of HTTP error is taken to mean that  *)
(* nothing was delivered, as the sender takes it.                          *)
(***************************************************************************)
EXTENDS Naturals

CONSTANT Consumers      \* the processes that deliver cards

VARIABLE card

Statuses == {"NONE", "PENDING", "SENDING", "DELIVERED", "DELIVERY_UNCERTAIN", "FAILED"}

(* status: delivery_status.  started: send_started_at_ms is there.  at: how *)
(* far a consumer is with it.  shown, no field of the program: how many     *)
(* requests may have put the card into the chat.                            *)
TypeOK == card \in [status : Statuses, started : BOOLEAN,
                    at : [Consumers -> {"idle", "claimed", "sending"}], shown : 0..2]

Init == card = [status |-> "NONE", started |-> FALSE,
                at |-> [c \in Consumers |-> "idle"], shown |-> 0]

(* ensurePnlCardDelivery: INSERT OR IGNORE.                                 *)
Ensured == IF card.status = "NONE" THEN [card EXCEPT !.status = "PENDING"] ELSE card

(* duePnlCardDeliveries, claimPnlCardDelivery                               *)
Claim(c) ==
    /\ card.status = "PENDING" /\ card.at[c] = "idle"
    /\ card' = [card EXCEPT !.status = "SENDING", !.started = FALSE, !.at[c] = "claimed"]

(* finalizePnlCardDelivery: only a row that is SENDING is written.          *)
Finalized(status) ==
    IF card.status # "SENDING" THEN card
    ELSE [card EXCEPT !.status = status, !.started = @ /\ status # "PENDING"]

Finishes(c, status, shown) ==
    card' = [Finalized(status) EXCEPT !.at[c] = "idle", !.shown = @ + shown]

(* closeCardTruth throws: the event is not there, or cannot be read.        *)
TruthFails(c) == card.at[c] = "claimed" /\ Finishes(c, "PENDING", 0)

(* markPnlCardDeliverySendStarted, then sendPhoto or sendMessage.           *)
StartSend(c) ==
    /\ card.at[c] = "claimed" /\ card.status = "SENDING" /\ ~card.started
    /\ card' = [card EXCEPT !.started = TRUE, !.at[c] = "sending"]

(* The answer of Telegram: delivered, later again, never, or none at all.   *)
Answered(c) ==
    /\ card.at[c] = "sending"
    /\ \/ Finishes(c, "DELIVERED", 1)
       \/ Finishes(c, "PENDING", 0)
       \/ Finishes(c, "FAILED", 0)
       \/ \E shown \in 0..1 : Finishes(c, "DELIVERY_UNCERTAIN", shown)

(* A request that was under way may still reach the chat.                   *)
Dies(c) ==
    /\ card.at[c] # "idle"
    /\ \E shown \in IF card.at[c] = "sending" THEN 0..1 ELSE {0} :
         card' = [card EXCEPT !.at[c] = "idle", !.shown = @ + shown]

(* Sent again.                                                              *)
Repeated == "PENDING"

(* What a send that began and was never finished becomes.                   *)
Ambiguous == "DELIVERY_UNCERTAIN"

(* recoverPnlCardDeliveryClaims                                             *)
Recover ==
    /\ card.status = "SENDING"
    /\ \A c \in Consumers : card.at[c] # "claimed"
    /\ card' = [card EXCEPT !.status = IF card.started THEN Ambiguous ELSE "PENDING"]

Deliver == Recover \/ \E c \in Consumers :
    Claim(c) \/ TruthFails(c) \/ StartSend(c) \/ Answered(c) \/ Dies(c)
=============================================================================
