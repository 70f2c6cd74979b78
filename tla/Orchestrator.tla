---------------------------- MODULE Orchestrator ----------------------------
(***************************************************************************)
(* The two relay loops of each orchestrator on one Ethereum key.  The     *)
(* orchestrator's main loop (outside src/, §6 of the spec: a scheduler    *)
(* that invokes the valset relayer and the batch relayer) runs a valset   *)
(* pass, relay_valsets with send_eth_valset_update, and then a batch      *)
(* pass, relay_batches, one after the other and forever.  Both passes     *)
(* sign with the orchestrator's key, so their transactions share one      *)
(* account: one transaction count, and one set of pending nonces in the   *)
(* mempool.                                                               *)
(*                                                                         *)
(* The passes are the relayer steps of ValsetRelay and BatchRelay, each   *)
(* with its own program counter, over shared Ethereum state: the          *)
(* contract's valset nonce (the batch pass orders its signatures against  *)
(* it, the valset pass moves it), the account nonces and the mempool.     *)
(* A mined transaction is a batch or a valset update, told apart by its   *)
(* fields.                                                                 *)
(***************************************************************************)
EXTENDS Naturals

CONSTANTS
    Relayers,     \* the orchestrators, each with one Ethereum key
    Tokens,       \* ERC20 contracts bridged by the Peggy contract
    NumBatches,   \* how many batches the Cosmos module builds in a run
    BatchToken,   \* BatchToken[n]: token contract of batch n
    NeverSigned,  \* batches whose confirmations never reach the threshold
    NumValsets,   \* the Cosmos chain produces valsets 1..NumValsets
    MaxFaults     \* bound on failed RPCs, both passes of all orchestrators

ASSUME OrchestratorAssumption ==
    /\ NumBatches \in Nat
    /\ BatchToken \in [1..NumBatches -> Tokens]
    /\ NumValsets \in Nat
    /\ MaxFaults \in Nat

VARIABLES
    \* --- Cosmos chain ---
    created, storedBatches, signed,   \* the batch store and its confirmations
    latest, confirmed,                \* the valsets and their confirmations
    \* --- Ethereum chain, shared by both passes ---
    lastBatchNonce,  \* Peggy contract: last executed batch per token
    valsetNonce,     \* Peggy contract: nonce of its validator set
    acctNonce,       \* transaction count of each orchestrator's account
    mempool,         \* pending transactions of both kinds
    \* --- relay_batches ---
    bpc, todo, cur, base, i, sigsOk, vset,
    \* --- relay_valsets and send_eth_valset_update ---
    vpc, old, new, sent, result,
    \* --- the main loop ---
    phase,           \* the pass each orchestrator is in
    faults

B == INSTANCE BatchRelay WITH pc <- bpc, MaxValsetUpdates <- NumValsets
V == INSTANCE ValsetRelay WITH pc <- vpc

batchOnly  == <<created, storedBatches, signed, lastBatchNonce,
                bpc, todo, cur, base, i, sigsOk, vset>>
valsetOnly == <<latest, confirmed, vpc, old, new, sent, result>>
vars == <<batchOnly, valsetOnly, valsetNonce, acctNonce, mempool, phase,
          faults>>

IsBatchTx(tx) == "batch" \in DOMAIN tx

TypeOK ==
    /\ created \in 0..NumBatches
    /\ storedBatches \subseteq B!Batches
    /\ signed \subseteq B!Batches
    /\ latest \in V!Valsets
    /\ confirmed \subseteq 1..NumValsets
    /\ lastBatchNonce \in [Tokens -> Nat]
    /\ valsetNonce \in V!Valsets
    /\ acctNonce \in [Relayers -> Nat]
    /\ mempool \subseteq B!Txs \cup V!Txs
    /\ bpc \in [Relayers -> B!PCs]
    /\ vpc \in [Relayers -> V!PCs]
    /\ phase \in [Relayers -> {"valset", "batch"}]
    /\ faults \in 0..MaxFaults

Init ==
    /\ B!Init
    /\ V!Init
    /\ phase = [r \in Relayers |-> "valset"]

(* The main loop goes on to the other pass once a pass has returned.      *)
NextPhase(r, pc2, this, other) ==
    phase' = [phase EXCEPT ![r] = IF pc2[r] = "idle" THEN other ELSE this]

ValsetPass(r) ==
    /\ phase[r] = "valset"
    /\ V!RelayerStep(r)
    /\ NextPhase(r, vpc', "valset", "batch")
    /\ UNCHANGED batchOnly

BatchPass(r) ==
    /\ phase[r] = "batch"
    /\ B!Relayer(r)
    /\ NextPhase(r, bpc', "batch", "valset")
    /\ UNCHANGED valsetOnly

(* A miner includes an account's next transaction, whichever pass sent    *)
(* it: the account nonce orders the two kinds together.                   *)
Mine(tx) ==
    \/ IsBatchTx(tx) /\ B!Mine(tx) /\ UNCHANGED <<valsetOnly, phase>>
    \/ ~IsBatchTx(tx) /\ V!Mine(tx) /\ UNCHANGED <<batchOnly, phase>>

Cosmos ==
    \/ B!CreateBatch /\ UNCHANGED <<valsetOnly, phase>>
    \/ \E b \in B!Batches : B!Confirm(b) /\ UNCHANGED <<valsetOnly, phase>>
    \/ B!ObserveExecuted /\ UNCHANGED <<valsetOnly, phase>>
    \/ V!CreateValset /\ UNCHANGED <<batchOnly, phase>>
    \/ \E v \in 1..NumValsets : V!Confirm(v) /\ UNCHANGED <<batchOnly, phase>>

Orchestrate(r) == ValsetPass(r) \/ BatchPass(r)

Next ==
    \/ \E r \in Relayers : Orchestrate(r)
    \/ Cosmos
    \/ \E tx \in mempool : Mine(tx)

Spec == Init /\ [][Next]_vars

(* The main loop never stops; miners include every minable transaction;   *)
(* the oracle observes executions; validators sign every batch outside    *)
(* NeverSigned and confirm every valset.                                  *)
Fairness ==
    /\ \A r \in Relayers : WF_vars(Orchestrate(r))
    /\ WF_vars(\E tx \in mempool : Mine(tx))
    /\ WF_vars(B!ObserveExecuted /\ UNCHANGED <<valsetOnly, phase>>)
    /\ WF_vars(B!CreateBatch /\ UNCHANGED <<valsetOnly, phase>>)
    /\ \A b \in B!Batches \ NeverSigned :
          WF_vars(B!Confirm(b) /\ UNCHANGED <<valsetOnly, phase>>)
    /\ WF_vars(V!CreateValset /\ UNCHANGED <<batchOnly, phase>>)
    /\ \A v \in 1..NumValsets :
          WF_vars(V!Confirm(v) /\ UNCHANGED <<batchOnly, phase>>)

FairSpec == Spec /\ Fairness

(* The refinement mapping: a batch is executed once the contract's last  *)
(* nonce of its token has reached it; the abstract valset is the          *)
(* contract's.                                                            *)
Executed == {b \in B!Batches : B!BatchExecuted(b)}

Bridge == INSTANCE PeggyBridge WITH executed <- Executed, valset <- valsetNonce

-----------------------------------------------------------------------------
(* Every valset the Cosmos chain produces is eventually reached by the    *)
(* contract although each orchestrator's batch pass sends from the same   *)
(* account: send_transaction signs with the transaction count, which a    *)
(* pending batch transaction may hold, and a batch pass may leave a gap   *)
(* in the account's nonces.                                               *)
ValsetsRelayed == V!ValsetsRelayed

(* Every batch whose confirmations reach the threshold is eventually      *)
(* executed or superseded although the valset pass of the same           *)
(* orchestrator takes nonces of the account between two batch passes,    *)
(* and may leave a valset update pending when wait_for_transaction times *)
(* out, holding the nonce the next batch pass reads as its base.          *)
ConfirmedBatchesRelayed == B!ConfirmedBatchesRelayed

(* An Ok from send_eth_valset_update means the contract's valset has     *)
(* moved past old_nonce, also when the batch pass of the same key holds   *)
(* nonces of the account: an update signed with a nonce a pending batch   *)
(* transaction has is refused, and a wait that times out leaves the       *)
(* update pending behind batch transactions of the same account.          *)
OkMeansAdvanced == V!OkMeansAdvanced

(* The orchestrators implement the bridge: every step of theirs leaves    *)
(* the chains' state alone or is one step of PeggyBridge.  In particular  *)
(* the contract only ever takes a valset the validators confirmed, which  *)
(* rests on send_eth_valset_update sending only after order_valset_sigs   *)
(* succeeded, and no batch execution, by whichever pass's nonce it was    *)
(* mined, undoes an earlier one.                                          *)
ImplementsBridge == Bridge!Spec
=============================================================================
