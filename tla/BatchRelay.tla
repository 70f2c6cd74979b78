----------------------------- MODULE BatchRelay -----------------------------
(***************************************************************************)
(* The batch relaying loop of the orchestrator (relay_batches in           *)
(* relayer/src/batch_relaying.rs), run by several independent relayers     *)
(* against one Cosmos chain (the batch store and its confirmations) and    *)
(* one Ethereum chain (the Peggy contract, one account per relayer and    *)
(* the mempool).                                                           *)
(*                                                                         *)
(* Every await of relay_batches is one step of a relayer, so the steps of  *)
(* other relayers, of the miners and of the Cosmos chain interleave with   *)
(* it exactly where the async code can be suspended.                       *)
(***************************************************************************)
EXTENDS Naturals, FiniteSets, FiniteSetsExt

CONSTANTS
    Relayers,          \* independent orchestrators, each with its own Ethereum key
    Tokens,            \* ERC20 contracts bridged by the Peggy contract
    NumBatches,        \* how many batches the Cosmos module builds in a run
    BatchToken,        \* BatchToken[n]: token contract of the batch with nonce n
    NeverSigned,       \* batches whose confirmations never reach the threshold
    MaxValsetUpdates,  \* how often another party replaces the contract's valset
    MaxFaults          \* how many transient RPC failures may happen in a run

Batches == 1..NumBatches

ASSUME BatchAssumption ==
    /\ NumBatches \in Nat
    /\ BatchToken \in [Batches -> Tokens]
    /\ NeverSigned \subseteq Batches

ASSUME BoundAssumption ==
    /\ MaxValsetUpdates \in Nat
    /\ MaxFaults \in Nat

VARIABLES
    \* --- Cosmos chain ---
    created,         \* batches 1..created have been built by the Cosmos module
    storedBatches,   \* batches still in the store: what get_latest_transaction_batches returns
    signed,          \* batches whose confirmations reach the signing threshold
    \* --- Ethereum chain ---
    lastBatchNonce,  \* Peggy contract: state_lastBatchNonces[token]
    valsetNonce,     \* Peggy contract: nonce of the validator set it stores
    acctNonce,       \* acctNonce[r]: transaction count of r's account (mined txs)
    mempool,         \* broadcast transactions that are not mined yet
    \* --- relay_batches, one activation per relayer ---
    pc,              \* the await the relayer is at
    todo,            \* batches of the sorted list not yet taken by the for loop
    cur,             \* the batch of the current iteration
    base,            \* the account nonce read at the start of the pass
    i,               \* the local counter added to base
    sigsOk,          \* the fetched signatures of cur reach the threshold
    vset,            \* nonce of the valset find_latest_valset returned
    \* --- environment ---
    faults           \* transient failures that happened so far

cosmosVars  == <<created, storedBatches, signed>>
ethVars     == <<lastBatchNonce, valsetNonce, acctNonce, mempool>>
relayerVars == <<pc, todo, cur, base, i, sigsOk, vset>>
vars        == <<cosmosVars, ethVars, relayerVars, faults>>

NoBatch == 0

PCs == {"idle", "txcount", "sigs", "ethnonce", "findvs", "send", "panicked"}

\* A signed Ethereum transaction calling submitBatch.
Txs == [from : Relayers, nonce : Nat, batch : Batches, vs : Nat]

TypeOK ==
    /\ created \in 0..NumBatches
    /\ storedBatches \subseteq Batches
    /\ signed \subseteq Batches
    /\ lastBatchNonce \in [Tokens -> Nat]
    /\ valsetNonce \in Nat
    /\ acctNonce \in [Relayers -> Nat]
    /\ mempool \subseteq Txs
    /\ pc \in [Relayers -> PCs]
    /\ todo \in [Relayers -> SUBSET Batches]
    /\ cur \in [Relayers -> Batches \cup {NoBatch}]
    /\ base \in [Relayers -> Nat]
    /\ i \in [Relayers -> Nat]
    /\ sigsOk \in [Relayers -> BOOLEAN]
    /\ vset \in [Relayers -> Nat]
    /\ faults \in 0..MaxFaults

Init ==
    /\ created = 0
    /\ storedBatches = {}
    /\ signed = {}
    /\ lastBatchNonce = [t \in Tokens |-> 0]
    /\ valsetNonce = 0
    /\ acctNonce = [r \in Relayers |-> 0]
    /\ mempool = {}
    /\ pc = [r \in Relayers |-> "idle"]
    /\ todo = [r \in Relayers |-> {}]
    /\ cur = [r \in Relayers |-> NoBatch]
    /\ base = [r \in Relayers |-> 0]
    /\ i = [r \in Relayers |-> 0]
    /\ sigsOk = [r \in Relayers |-> FALSE]
    /\ vset = [r \in Relayers |-> 0]
    /\ faults = 0

(***************************************************************************)
(* Helpers.                                                                *)
(***************************************************************************)

\* A transient RPC failure: allowed while the fault budget lasts.
Fault == faults < MaxFaults /\ faults' = faults + 1

\* get_tx_batch_nonce: the contract's last executed batch of a token.
BatchExecuted(b) == lastBatchNonce[BatchToken[b]] >= b

\* The Ethereum node accepts a transaction into its pool unless its nonce
\* is already used by a mined or by a pending transaction of the sender.
Accepts(tx) ==
    /\ tx.nonce >= acctNonce[tx.from]
    /\ ~\E p \in mempool : p.from = tx.from /\ p.nonce = tx.nonce

\* relay_batches returns: its locals go out of scope.
Return(r) ==
    /\ pc' = [pc EXCEPT ![r] = "idle"]
    /\ todo' = [todo EXCEPT ![r] = {}]
    /\ cur' = [cur EXCEPT ![r] = NoBatch]
    /\ base' = [base EXCEPT ![r] = 0]
    /\ i' = [i EXCEPT ![r] = 0]
    /\ sigsOk' = [sigsOk EXCEPT ![r] = FALSE]
    /\ vset' = [vset EXCEPT ![r] = 0]

\* The for loop ends an iteration with the batches rest still to go and
\* the counter at n: it goes on with the next batch or leaves the function.
Continue(r, rest, n) ==
    IF rest = {}
    THEN Return(r)
    ELSE /\ pc' = [pc EXCEPT ![r] = "sigs"]
         /\ todo' = [todo EXCEPT ![r] = rest]
         /\ cur' = [cur EXCEPT ![r] = NoBatch]
         /\ i' = [i EXCEPT ![r] = n]
         /\ sigsOk' = [sigsOk EXCEPT ![r] = FALSE]
         /\ vset' = [vset EXCEPT ![r] = 0]
         /\ UNCHANGED base

(***************************************************************************)
(* relay_batches, one action per await.                                    *)
(***************************************************************************)

\* get_latest_transaction_batches, then sort (ascending nonce). The for loop
\* over the sorted list is the repeated choice of the least nonce in todo.
\* A failure returns.
GetLatestBatches(r) ==
    /\ pc[r] = "idle"
    /\ \/ /\ todo' = [todo EXCEPT ![r] = storedBatches]
          /\ pc' = [pc EXCEPT ![r] = "txcount"]
          /\ UNCHANGED faults
       \/ /\ Fault
          /\ UNCHANGED <<todo, pc>>
    /\ UNCHANGED <<cosmosVars, ethVars, cur, base, i, sigsOk, vset>>

\* eth_get_transaction_count(our address): the base nonce of the pass, and
\* i = 0. A failure returns from relay_batches.
GetTxCount(r) ==
    /\ pc[r] = "txcount"
    /\ \/ /\ todo[r] # {}
          /\ base' = [base EXCEPT ![r] = acctNonce[r]]
          /\ pc' = [pc EXCEPT ![r] = "sigs"]
          /\ UNCHANGED <<todo, cur, i, sigsOk, vset, faults>>
       \/ /\ todo[r] = {}
          /\ Return(r)
          /\ UNCHANGED faults
       \/ /\ Fault
          /\ Return(r)
    /\ UNCHANGED <<cosmosVars, ethVars>>

\* Next batch of the loop, get_transaction_batch_signatures. The signatures
\* are those present now; a failure logs and continues with the next batch.
GetSigs(r) ==
    /\ pc[r] = "sigs"
    /\ LET b    == Min(todo[r])
           rest == todo[r] \ {b}
       IN \/ /\ todo' = [todo EXCEPT ![r] = rest]
             /\ cur' = [cur EXCEPT ![r] = b]
             /\ sigsOk' = [sigsOk EXCEPT ![r] = b \in signed]
             /\ pc' = [pc EXCEPT ![r] = "ethnonce"]
             /\ UNCHANGED <<base, i, vset, faults>>
          \/ /\ Fault
             /\ Continue(r, rest, i[r])
    /\ UNCHANGED <<cosmosVars, ethVars>>

\* get_tx_batch_nonce for the batch's token. On an error the code logs it
\* and then unwraps the error: the relayer panics. Otherwise the batch is
\* relayed only if its nonce is above the contract's.
GetEthBatchNonce(r) ==
    /\ pc[r] = "ethnonce"
    /\ \/ /\ cur[r] > lastBatchNonce[BatchToken[cur[r]]]
          /\ pc' = [pc EXCEPT ![r] = "findvs"]
          /\ UNCHANGED <<todo, cur, base, i, sigsOk, vset, faults>>
       \/ /\ cur[r] <= lastBatchNonce[BatchToken[cur[r]]]
          /\ Continue(r, todo[r], i[r])
          /\ UNCHANGED faults
       \/ /\ Fault
          /\ pc' = [pc EXCEPT ![r] = "panicked"]
          /\ UNCHANGED <<todo, cur, base, i, sigsOk, vset>>
    /\ UNCHANGED <<cosmosVars, ethVars>>

\* Variant of FindLatestValset for mutation runs: the valset one before the
\* contract's is taken.
FindLatestValsetOneBack(r) ==
    /\ pc[r] = "findvs"
    /\ \/ /\ vset' = [vset EXCEPT ![r] = valsetNonce - 1]
          /\ pc' = [pc EXCEPT ![r] = "send"]
          /\ UNCHANGED <<todo, cur, base, i, sigsOk, faults>>
       \/ /\ Fault
          /\ Continue(r, todo[r], i[r])
    /\ UNCHANGED <<cosmosVars, ethVars>>

\* find_latest_valset: the validator set the contract currently holds. A
\* failure logs and continues with the next batch, without touching i.
FindLatestValset(r) ==
    /\ pc[r] = "findvs"
    /\ \/ /\ vset' = [vset EXCEPT ![r] = valsetNonce]
          /\ pc' = [pc EXCEPT ![r] = "send"]
          /\ UNCHANGED <<todo, cur, base, i, sigsOk, faults>>
       \/ /\ Fault
          /\ Continue(r, todo[r], i[r])
    /\ UNCHANGED <<cosmosVars, ethVars>>

\* Variant of SendEthTransactionBatch for mutation runs: the transaction is
\* broadcast whether or not the signatures reach the threshold.
SendEthTransactionBatchUnchecked(r, tx) ==
    \/ /\ Accepts(tx)
       /\ mempool' = mempool \cup {tx}
       /\ UNCHANGED faults
    \/ /\ ~Accepts(tx)
       /\ UNCHANGED <<mempool, faults>>
    \/ /\ Fault
       /\ UNCHANGED mempool

\* send_eth_transaction_batch: order the signatures against the valset (an
\* error when they do not reach the threshold), then broadcast tx, which
\* the node may refuse or the transport may lose. The result is discarded.
SendEthTransactionBatch(r, tx) ==
    \/ /\ sigsOk[r]
       /\ Accepts(tx)
       /\ mempool' = mempool \cup {tx}
       /\ UNCHANGED faults
    \/ /\ sigsOk[r]
       /\ ~Accepts(tx)
       /\ UNCHANGED <<mempool, faults>>
    \/ /\ sigsOk[r]
       /\ Fault
       /\ UNCHANGED mempool
    \/ /\ ~sigsOk[r]
       /\ UNCHANGED <<mempool, faults>>

\* Variant of SendBatch for mutation runs: the nonce is one past base + i.
SendBatchNonceOffByOne(r) ==
    /\ pc[r] = "send"
    /\ SendEthTransactionBatch(r, [from |-> r, nonce |-> base[r] + i[r] + 1,
                                   batch |-> cur[r], vs |-> vset[r]])
    /\ Continue(r, todo[r], i[r] + 1)
    /\ UNCHANGED <<cosmosVars, lastBatchNonce, valsetNonce, acctNonce>>

\* The send with nonce base + i, then i += 1 whatever it returned.
SendBatch(r) ==
    /\ pc[r] = "send"
    /\ SendEthTransactionBatch(r, [from |-> r, nonce |-> base[r] + i[r],
                                   batch |-> cur[r], vs |-> vset[r]])
    /\ Continue(r, todo[r], i[r] + 1)
    /\ UNCHANGED <<cosmosVars, lastBatchNonce, valsetNonce, acctNonce>>

\* The process is restarted after a panic; nothing of the pass survives.
Restart(r) ==
    /\ pc[r] = "panicked"
    /\ Return(r)
    /\ UNCHANGED <<cosmosVars, ethVars, faults>>

Relayer(r) ==
    \/ GetLatestBatches(r)
    \/ GetTxCount(r)
    \/ GetSigs(r)
    \/ GetEthBatchNonce(r)
    \/ FindLatestValset(r)
    \/ SendBatch(r)
    \/ Restart(r)

(***************************************************************************)
(* The two chains.                                                         *)
(***************************************************************************)

\* The Cosmos module builds the next batch (nonces come from one counter).
CreateBatch ==
    /\ created < NumBatches
    /\ created' = created + 1
    /\ storedBatches' = storedBatches \cup {created + 1}
    /\ UNCHANGED <<signed, ethVars, relayerVars, faults>>

\* Enough validators have confirmed batch b.
Confirm(b) ==
    /\ b \in 1..created
    /\ b \notin signed \cup NeverSigned
    /\ signed' = signed \cup {b}
    /\ UNCHANGED <<created, storedBatches, ethVars, relayerVars, faults>>

\* The oracle observes the executed batches on Ethereum: the Cosmos module
\* drops each batch at or below the last executed nonce of its token.
ObserveExecuted ==
    /\ \E b \in storedBatches : BatchExecuted(b)
    /\ storedBatches' = {b \in storedBatches : ~BatchExecuted(b)}
    /\ UNCHANGED <<created, signed, ethVars, relayerVars, faults>>

\* A miner includes the sender's next transaction. submitBatch succeeds only
\* if the batch is newer than the token's last batch, the signatures check
\* out and were ordered against the valset the contract holds; a reverted
\* call still uses up the nonce.
Mine(tx) ==
    /\ tx \in mempool
    /\ tx.nonce = acctNonce[tx.from]
    /\ acctNonce' = [acctNonce EXCEPT ![tx.from] = @ + 1]
    /\ mempool' = mempool \ {tx}
    /\ lastBatchNonce' =
         IF /\ tx.batch > lastBatchNonce[BatchToken[tx.batch]]
            /\ tx.batch \in signed
            /\ tx.vs = valsetNonce
         THEN [lastBatchNonce EXCEPT ![BatchToken[tx.batch]] = tx.batch]
         ELSE lastBatchNonce
    /\ UNCHANGED <<cosmosVars, valsetNonce, relayerVars, faults>>

\* Another party relays a validator set update to the contract.
UpdateValset ==
    /\ valsetNonce < MaxValsetUpdates
    /\ valsetNonce' = valsetNonce + 1
    /\ UNCHANGED <<cosmosVars, lastBatchNonce, acctNonce, mempool, relayerVars, faults>>

Next ==
    \/ \E r \in Relayers : Relayer(r)
    \/ CreateBatch
    \/ \E b \in Batches : Confirm(b)
    \/ ObserveExecuted
    \/ \E tx \in mempool : Mine(tx)
    \/ UpdateValset

(***************************************************************************)
(* Fairness. The orchestrator calls relay_batches in an endless loop, so   *)
(* each relayer keeps taking steps; miners include every minable           *)
(* transaction; the oracle keeps observing Ethereum; the validators sign   *)
(* every batch outside NeverSigned.                                        *)
(***************************************************************************)
Fairness ==
    /\ \A r \in Relayers : WF_vars(Relayer(r))
    /\ WF_vars(\E tx \in mempool : Mine(tx))
    /\ WF_vars(ObserveExecuted)
    /\ WF_vars(CreateBatch)
    /\ \A b \in Batches \ NeverSigned : WF_vars(Confirm(b))

Spec == Init /\ [][Next]_vars

FairSpec == Spec /\ Fairness

(***************************************************************************)
(* Properties.                                                             *)
(***************************************************************************)

\* No transaction a relayer broadcasts carries a batch whose confirmations
\* were short of the threshold: relay_batches forwards the signatures it
\* fetched without checking them ("todo check that enough people have
\* signed"), so it rests on send_eth_transaction_batch refusing to order an
\* insufficient set, and on the fetch happening before the send.
NoUnderSignedSubmission ==
    \A tx \in mempool : tx.batch \in signed

\* relay_batches never panics: a failed Ethereum query for one batch must
\* not take down the pass (spec: the relay loop never crashes on a single
\* remote failure; batch_relaying.rs logs the error of get_tx_batch_nonce
\* and then unwraps it).
NoPanic ==
    \A r \in Relayers : pc[r] # "panicked"

\* Every batch whose confirmations reach the threshold is eventually
\* executed on Ethereum, or superseded by a later batch of its token,
\* although relayers race, reads go stale, RPCs fail and one relayer's
\* transactions must be mined in account-nonce order.
ConfirmedBatchesRelayed ==
    \A b \in Batches : (b \in signed) ~> BatchExecuted(b)

=============================================================================
