---------------------------- MODULE StageAuthority ----------------------------
(***************************************************************************)
(* What the transaction journal promises the rest of the program, without  *)
(* processes, mutexes or probes: a stage is authorised for at most one     *)
(* signed transaction at a time, no two stages are authorised for          *)
(* different transactions of one nonce, and a stage that is confirmed is   *)
(* never authorised again.                                                 *)
(***************************************************************************)
CONSTANTS Stages, Hashes, NULL

VARIABLES
    grant,   \* the transaction a stage may have on its way, or NULL
    done     \* the transaction a stage was confirmed with, or NULL

authority == <<grant, done>>

Init ==
    /\ grant = [s \in Stages |-> NULL]
    /\ done = [s \in Stages |-> NULL]

InUse(s) == {grant[s], done[s]} \ {NULL}

Authorise(s, h) ==
    /\ grant[s] = NULL
    /\ done[s] = NULL
    /\ \A t \in Stages : \A g \in InUse(t) : g.nonce # h.nonce
    /\ grant' = [grant EXCEPT ![s] = h]
    /\ UNCHANGED done

Confirm(s) ==
    /\ grant[s] # NULL
    /\ done' = [done EXCEPT ![s] = grant[s]]
    /\ grant' = [grant EXCEPT ![s] = NULL]

Revoke(s) ==
    /\ grant[s] # NULL
    /\ grant' = [grant EXCEPT ![s] = NULL]
    /\ UNCHANGED done

Next == \E s \in Stages :
    \/ \E h \in Hashes : Authorise(s, h)
    \/ Confirm(s)
    \/ Revoke(s)

Spec == Init /\ [][Next]_authority
=============================================================================
