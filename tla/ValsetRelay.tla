---------------------------- MODULE ValsetRelay ----------------------------
(***************************************************************************)
(* Competing relayers moving the Peggy contract's validator set to the    *)
(* latest one of the Cosmos chain.  A relayer's pass reads the contract's *)
(* current valset and the latest Cosmos valset with its confirmations     *)
(* (relay_valsets, §4.2 steps 1-3 of the spec) and then runs              *)
(* send_eth_valset_update (ethereum_peggy/src/valset_update.rs): the      *)
(* pre-submit race check, gas estimation, send_transaction,               *)
(* wait_for_transaction and the post-submit check.  Each await is one     *)
(* step, so the passes of different relayers interleave with each other,  *)
(* with mining and with new valsets at every await.                       *)
(*                                                                         *)
(* A valset is its nonce.  Whether the confirmations of a new valset      *)
(* carry enough of the old valset's power is abstracted to membership in  *)
(* confirmed.  Ethereum mines a sender's transactions in account-nonce    *)
(* order; a mined updateValset that fails the contract's checks reverts   *)
(* and still uses up its nonce.                                           *)
(***************************************************************************)
EXTENDS Naturals

CONSTANTS
    Relayers,     \* the orchestrators, each with its own Ethereum key
    NumValsets,   \* the Cosmos chain produces valsets 1..NumValsets
    MaxFaults     \* bound on failed RPCs, all relayers

ASSUME ValsetAssumption ==
    /\ NumValsets \in Nat
    /\ MaxFaults \in Nat

Valsets == 0..NumValsets   \* 0 is the valset the contract is deployed with

VARIABLES
    latest,      \* Cosmos: nonce of the latest valset
    confirmed,   \* Cosmos: valsets whose confirmations suffice
    valsetNonce, \* Ethereum: the contract's current valset nonce
    acctNonce,   \* Ethereum: next nonce of each relayer's account
    mempool,     \* Ethereum: broadcast, not yet mined transactions
    pc,          \* relayer: the await its pass is at
    old,         \* relayer: old_valset.nonce of the pass
    new,         \* relayer: new_valset.nonce of the pass
    sent,        \* relayer: the transaction it broadcast
    result,      \* relayer: what send_eth_valset_update last returned
    faults       \* failures so far

cosmosVars == <<latest, confirmed>>
ethVars == <<valsetNonce, acctNonce, mempool>>
relayerVars == <<pc, old, new, sent, result>>
vars == <<cosmosVars, ethVars, relayerVars, faults>>

PCs == {"idle", "latest", "confirms", "before", "estimate", "send", "wait",
        "after"}

Txs == [from : Relayers, nonce : Nat, old : Valsets, new : Valsets]

NoTx == [from |-> CHOOSE r \in Relayers : TRUE, nonce |-> 0, old |-> 0,
         new |-> 0]

TypeOK ==
    /\ latest \in Valsets
    /\ confirmed \subseteq 1..NumValsets
    /\ valsetNonce \in Valsets
    /\ acctNonce \in [Relayers -> Nat]
    /\ mempool \subseteq Txs
    /\ pc \in [Relayers -> PCs]
    /\ old \in [Relayers -> Valsets]
    /\ new \in [Relayers -> Valsets]
    /\ sent \in [Relayers -> Txs]
    /\ result \in [Relayers -> {"none", "ok", "err"}]
    /\ faults \in 0..MaxFaults

Init ==
    /\ latest = 0
    /\ confirmed = {}
    /\ valsetNonce = 0
    /\ acctNonce = [r \in Relayers |-> 0]
    /\ mempool = {}
    /\ pc = [r \in Relayers |-> "idle"]
    /\ old = [r \in Relayers |-> 0]
    /\ new = [r \in Relayers |-> 0]
    /\ sent = [r \in Relayers |-> NoTx]
    /\ result = [r \in Relayers |-> "none"]
    /\ faults = 0

Fault == faults < MaxFaults /\ faults' = faults + 1

(* The pass of r ends; send_eth_valset_update returned out, or "none"    *)
(* when the pass ended in relay_valsets before calling it.                *)
Return(r, out) ==
    /\ pc' = [pc EXCEPT ![r] = "idle"]
    /\ result' = [result EXCEPT ![r] = out]

Goto(r, l) == pc' = [pc EXCEPT ![r] = l]

(* Variant of FindLatestValset for mutation runs: the valset one before  *)
(* the contract's is taken as old_valset.                                 *)
FindLatestValsetOneBack(r) ==
    /\ pc[r] = "idle"
    /\ \/ /\ old' = [old EXCEPT ![r] = valsetNonce - 1]
          /\ Goto(r, "latest")
          /\ result' = [result EXCEPT ![r] = "none"]
          /\ UNCHANGED faults
       \/ Fault /\ Return(r, "none") /\ UNCHANGED old
    /\ UNCHANGED <<cosmosVars, ethVars, new, sent>>

(* find_latest_valset: the contract's current valset becomes old_valset. *)
FindLatestValset(r) ==
    /\ pc[r] = "idle"
    /\ \/ /\ old' = [old EXCEPT ![r] = valsetNonce]
          /\ Goto(r, "latest")
          /\ result' = [result EXCEPT ![r] = "none"]
          /\ UNCHANGED faults
       \/ Fault /\ Return(r, "none") /\ UNCHANGED old
    /\ UNCHANGED <<cosmosVars, ethVars, new, sent>>

(* The latest Cosmos valset; an update is attempted only when its nonce  *)
(* is above old_valset.nonce, which makes the assert! of line 25 hold.    *)
GetLatestValset(r) ==
    /\ pc[r] = "latest"
    /\ \/ /\ new' = [new EXCEPT ![r] = latest]
          /\ IF latest > old[r] THEN Goto(r, "confirms") /\ UNCHANGED result
                                ELSE Return(r, "none")
          /\ UNCHANGED faults
       \/ Fault /\ Return(r, "none") /\ UNCHANGED new
    /\ UNCHANGED <<cosmosVars, ethVars, old, sent>>

(* Variant of OrderValsetSigs for mutation runs: the update goes ahead   *)
(* whatever the confirmations are.                                        *)
OrderValsetSigsUnchecked(r) ==
    /\ pc[r] = "confirms"
    /\ \/ Goto(r, "before") /\ UNCHANGED <<result, faults>>
       \/ Fault /\ Return(r, "none")
    /\ UNCHANGED <<cosmosVars, ethVars, old, new, sent>>

(* The confirmations of new_valset, ordered against old_valset by        *)
(* order_valset_sigs(confirms)?: too few is an Err out of                 *)
(* send_eth_valset_update before anything is sent.                        *)
OrderValsetSigs(r) ==
    /\ pc[r] = "confirms"
    /\ \/ /\ IF new[r] \in confirmed THEN Goto(r, "before") /\ UNCHANGED result
                                     ELSE Return(r, "err")
          /\ UNCHANGED faults
       \/ Fault /\ Return(r, "none")
    /\ UNCHANGED <<cosmosVars, ethVars, old, new, sent>>

(* get_valset_nonce before the send: a contract already moved past       *)
(* old_nonce is a lost race, returned as Ok without sending.              *)
GetValsetNonceBefore(r) ==
    /\ pc[r] = "before"
    /\ \/ /\ IF valsetNonce # old[r] THEN Return(r, "ok")
                                     ELSE Goto(r, "estimate") /\ UNCHANGED result
          /\ UNCHANGED faults
       \/ Fault /\ Return(r, "err")
    /\ UNCHANGED <<cosmosVars, ethVars, old, new, sent>>

(* eth_estimate_gas simulates updateValset on the current contract state: *)
(* it fails, and the function returns Err, when the contract has moved    *)
(* since the check; a high estimate is only logged.                       *)
EstimateGas(r) ==
    /\ pc[r] = "estimate"
    /\ \/ /\ IF valsetNonce = old[r] THEN Goto(r, "send") /\ UNCHANGED result
                                     ELSE Return(r, "err")
          /\ UNCHANGED faults
       \/ Fault /\ Return(r, "err")
    /\ UNCHANGED <<cosmosVars, ethVars, old, new, sent>>

(* Variant of UpdateTx for mutation runs: the nonce after the account's  *)
(* transaction count.                                                     *)
UpdateTxNextNonce(r) == [from |-> r, nonce |-> acctNonce[r] + 1,
                         old |-> old[r], new |-> new[r]]

(* web3.send_transaction signs with the account's transaction count; the *)
(* node refuses a nonce a pending transaction of the account already has. *)
UpdateTx(r) == [from |-> r, nonce |-> acctNonce[r], old |-> old[r],
                new |-> new[r]]

Accepts(tx) == \A t \in mempool : t.from = tx.from => t.nonce # tx.nonce

SendTransaction(r) ==
    /\ pc[r] = "send"
    /\ \/ /\ Accepts(UpdateTx(r))
          /\ mempool' = mempool \cup {UpdateTx(r)}
          /\ sent' = [sent EXCEPT ![r] = UpdateTx(r)]
          /\ Goto(r, "wait")
          /\ UNCHANGED <<faults, result>>
       \/ /\ ~Accepts(UpdateTx(r))
          /\ Return(r, "err")
          /\ UNCHANGED <<mempool, sent, faults>>
       \/ Fault /\ Return(r, "err") /\ UNCHANGED <<mempool, sent>>
    /\ UNCHANGED <<cosmosVars, valsetNonce, acctNonce, old, new>>

(* Variant of WaitForTransaction for mutation runs: a timeout of the wait *)
(* is ignored, as in let _ = wait_for_transaction(..).                    *)
WaitIgnoringTimeout(r) ==
    /\ pc[r] = "wait"
    /\ \/ /\ sent[r] \notin mempool
          /\ Goto(r, "after")
          /\ UNCHANGED <<result, faults>>
       \/ Goto(r, "after") /\ UNCHANGED <<result, faults>>
    /\ UNCHANGED <<cosmosVars, ethVars, old, new, sent>>

(* wait_for_transaction(tx, timeout)?: returns once the transaction is   *)
(* mined, reverted or not; the timeout may fire first, at any moment the  *)
(* transaction is pending, and is an Err that leaves it pending.          *)
WaitForTransaction(r) ==
    /\ pc[r] = "wait"
    /\ \/ /\ sent[r] \notin mempool
          /\ Goto(r, "after")
          /\ UNCHANGED <<result, faults>>
       \/ Return(r, "err") /\ UNCHANGED faults
    /\ UNCHANGED <<cosmosVars, ethVars, old, new, sent>>

(* get_valset_nonce after the wait: a nonce other than new_nonce is only *)
(* logged, and the function returns Ok.                                   *)
GetValsetNonceAfter(r) ==
    /\ pc[r] = "after"
    /\ \/ Return(r, "ok") /\ UNCHANGED faults
       \/ Fault /\ Return(r, "err")
    /\ UNCHANGED <<cosmosVars, ethVars, old, new, sent>>

(* The Cosmos chain produces the next valset, and its validators confirm *)
(* it.                                                                    *)
CreateValset ==
    /\ latest < NumValsets
    /\ latest' = latest + 1
    /\ UNCHANGED <<confirmed, ethVars, relayerVars, faults>>

Confirm(v) ==
    /\ v \in 1..latest \ confirmed
    /\ confirmed' = confirmed \cup {v}
    /\ UNCHANGED <<latest, ethVars, relayerVars, faults>>

(* A miner includes the next transaction of an account.  updateValset    *)
(* takes effect only if the contract is still at its old nonce and the    *)
(* new nonce is higher; otherwise it reverts, using up the nonce.         *)
Mine(tx) ==
    /\ tx \in mempool
    /\ tx.nonce = acctNonce[tx.from]
    /\ mempool' = mempool \ {tx}
    /\ acctNonce' = [acctNonce EXCEPT ![tx.from] = @ + 1]
    /\ valsetNonce' = IF tx.old = valsetNonce /\ tx.new > valsetNonce
                         THEN tx.new ELSE valsetNonce
    /\ UNCHANGED <<cosmosVars, relayerVars, faults>>

RelayerStep(r) ==
    \/ FindLatestValset(r)
    \/ GetLatestValset(r)
    \/ OrderValsetSigs(r)
    \/ GetValsetNonceBefore(r)
    \/ EstimateGas(r)
    \/ SendTransaction(r)
    \/ WaitForTransaction(r)
    \/ GetValsetNonceAfter(r)

Next ==
    \/ \E r \in Relayers : RelayerStep(r)
    \/ CreateValset
    \/ \E v \in 1..NumValsets : Confirm(v)
    \/ \E tx \in mempool : Mine(tx)

Spec == Init /\ [][Next]_vars

(* Relayers run their passes in an endless loop, miners include every    *)
(* minable transaction, and validators confirm every valset.             *)
Fairness ==
    /\ \A r \in Relayers : WF_vars(RelayerStep(r))
    /\ WF_vars(CreateValset)
    /\ \A v \in 1..NumValsets : WF_vars(Confirm(v))
    /\ WF_vars(\E tx \in mempool : Mine(tx))

FairSpec == Spec /\ Fairness

-----------------------------------------------------------------------------
(* An Ok from send_eth_valset_update means the contract's valset has     *)
(* moved past old_nonce, by this relayer's transaction or a competitor's: *)
(* a lost race before the send, a reverted transaction and a post-check   *)
(* mismatch all return Ok, and each must be explained by progress on      *)
(* chain (§4.2 steps 5 and 8).                                            *)
OkMeansAdvanced ==
    \A r \in Relayers : result[r] = "ok" => valsetNonce > old[r]

(* Every valset the Cosmos chain produces is eventually reached or       *)
(* passed by the contract, whatever the interleaving of competing         *)
(* relayers, reverted updates, any number of wait timeouts and a bounded  *)
(* number of failed RPCs.                                                  *)
ValsetsRelayed ==
    \A v \in 1..NumValsets : (latest >= v) ~> (valsetNonce >= v)
=============================================================================
