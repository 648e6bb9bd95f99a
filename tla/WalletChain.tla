----------------------------- MODULE WalletChain -----------------------------
(***************************************************************************)
(* The chain as the one managed wallet sees it: the account nonce, the     *)
(* nodes' mempools, raw transactions still on their way to a node, and the *)
(* receipts.  Nothing here is code of the repository: the module says what *)
(* exactHashEvidence, broadcastSignedTransaction and                       *)
(* waitForTransactionReceipt can observe (apps/cli/src/                    *)
(* transaction-boundary.ts), for every module that talks to the chain.     *)
(*                                                                         *)
(* A signed transaction is identified by its hash, and the hash determines *)
(* the stage it was built for (to + calldata), its nonce and a variant     *)
(* that stands for everything else that is signed: gas price, gas limit,   *)
(* deadline, refreshed calldata.                                           *)
(***************************************************************************)
EXTENDS Naturals

CONSTANTS
    Stages,        \* (workflow, semantic stage) pairs executed by the wallet
    Variants,      \* ways in which two signings of a stage at a nonce differ
    MaxNonce,      \* bound: nonces 0..MaxNonce are used in a behaviour
    NULL,          \* the NULL of a column or a local that is not set
    LateDelivery   \* TRUE: a raw transaction may reach the nodes after the
                   \* send call ended, and an evicted one may come back

ASSUME MaxNonceAssumption == MaxNonce \in Nat

Nonces == 0..MaxNonce

Hashes == [stage : Stages, nonce : Nonces, variant : Variants]

ASSUME NullAssumption == NULL \notin Hashes /\ NULL \notin Stages

ASSUME LateDeliveryAssumption == LateDelivery \in BOOLEAN

VARIABLES
    latest,     \* eth_getTransactionCount(latest): transactions mined
    pool,       \* our transactions the nodes hold as pending
    foreign,    \* nonces of pending transactions signed elsewhere by the user
    flight,     \* our raw transactions that no node has yet
    executed,   \* hashes with a receipt of status success
    reverted    \* hashes with a receipt of status reverted

chainVars == <<latest, pool, foreign, flight, executed, reverted>>

ChainTypeOK ==
    /\ latest \in 0..(MaxNonce + 1)
    /\ pool \subseteq Hashes
    /\ foreign \subseteq Nonces
    /\ flight \subseteq Hashes
    /\ executed \subseteq Hashes
    /\ reverted \subseteq Hashes

ChainInit ==
    /\ latest = 0
    /\ pool = {}
    /\ foreign = {}
    /\ flight = {}
    /\ executed = {}
    /\ reverted = {}

PooledNonces == {h.nonce : h \in pool} \cup foreign

(* eth_getTransactionCount(pending): the first nonce from latest on that   *)
(* no pending transaction takes.                                           *)
IsPendingNonce(n) ==
    /\ n \in latest..(MaxNonce + 1)
    /\ n \notin PooledNonces
    /\ \A m \in latest..MaxNonce : m < n => m \in PooledNonces

(* A node keeps one transaction per nonce and may let a better paying one  *)
(* replace it.                                                             *)
Admit(h) ==
    /\ h.nonce >= latest
    /\ pool' = {g \in pool : g.nonce # h.nonce} \cup {h}
    /\ foreign' = foreign \ {h.nonce}

Deliver(h) ==
    /\ h \in flight
    /\ flight' = flight \ {h}
    /\ \/ Admit(h)
       \/ UNCHANGED <<pool, foreign>>
    /\ UNCHANGED <<latest, executed, reverted>>

Mine(h) ==
    /\ h \in pool
    /\ h.nonce = latest
    /\ latest' = latest + 1
    /\ pool' = {g \in pool : g.nonce # h.nonce}
    /\ \/ /\ executed' = executed \cup {h}
          /\ UNCHANGED reverted
       \/ /\ reverted' = reverted \cup {h}
          /\ UNCHANGED executed
    /\ UNCHANGED <<foreign, flight>>

(* A transaction of the wallet that FUNI did not sign (README, "Intervensi *)
(* Manual Darurat"): it queues at a nonce, possibly replacing one of ours. *)
ForeignSend(n) ==
    /\ n \in Nonces
    /\ n >= latest
    /\ n \notin foreign
    /\ \A m \in latest..MaxNonce : m < n => m \in PooledNonces
    /\ foreign' = foreign \cup {n}
    /\ pool' = {g \in pool : g.nonce # n}
    /\ UNCHANGED <<latest, flight, executed, reverted>>

ForeignMine ==
    /\ latest \in foreign
    /\ foreign' = foreign \ {latest}
    /\ latest' = latest + 1
    /\ UNCHANGED <<pool, flight, executed, reverted>>

Evict(h) ==
    /\ h \in pool
    /\ pool' = pool \ {h}
    /\ flight' = IF LateDelivery THEN flight \cup {h} ELSE flight
    /\ UNCHANGED <<latest, foreign, executed, reverted>>

ChainStep ==
    \/ \E h \in flight : Deliver(h)
    \/ \E h \in pool : Mine(h) \/ Evict(h)
    \/ \E n \in Nonces : ForeignSend(n)
    \/ ForeignMine

(* eth_sendRawTransaction, as the caller can tell its outcomes apart: the  *)
(* node acknowledges, or the call fails although the node has the bytes,   *)
(* or it fails and the bytes are lost, or they are still travelling.       *)
SendAccepted(h) ==
    /\ Admit(h)
    /\ UNCHANGED <<latest, flight, executed, reverted>>

SendErrored(h) ==
    \/ SendAccepted(h)
    \/ UNCHANGED chainVars
    \/ /\ LateDelivery
       /\ flight' = flight \cup {h}
       /\ UNCHANGED <<latest, pool, foreign, executed, reverted>>

Landed(h) == h \in executed \cup reverted
=============================================================================
