# TLA+ models of the Minter Hub orchestrator relayers

This directory holds TLA+ models, TLC configurations and TLAPS proofs for
the relay logic of the Minter Hub (Peggy) orchestrator under `src/orchestrator`.
Each module is translated from the Rust source, and `PROJECT.json` maps
every definition to the lines it models.

## 1. The system

The orchestrator moves state from a Cosmos chain (the Peggy module) to an
Ethereum contract (Peggy.sol). Many orchestrators run the same code at the
same time against the same two chains. Nothing is shared between them, or
kept from one pass to the next: every decision is re-derived from chain
reads.

| part | source | what it does |
|---|---|---|
| batch relayer | `relayer/src/batch_relaying.rs` | `relay_batches`: reads the latest batches and the account's transaction count, then for each batch reads the signatures, the contract's batch nonce and the current valset, and sends the batch with nonce `base + i` |
| valset update submission | `ethereum_peggy/src/valset_update.rs` | `send_eth_valset_update`: orders the signatures against the old valset, re-reads the contract's valset nonce (pre-submit race check), estimates gas, sends, waits for inclusion and re-reads the nonce (post-submit check) |
| Cosmos submission and retry | `contact/src/client/send.rs`, `contact/src/utils.rs` | `create_and_send_transaction` looks up the sequence and chain id, signs, and hands the transaction to `retry_on_block`. That function retries Block-mode broadcasts within the caller's timeout |
| JSON-RPC client | `contact/src/jsonrpc/client.rs`, `error.rs` | `request_method` and the `JsonRpcError` classes the retry loop dispatches on |
| Cosmos queries | `contact/src/client/get.rs` | `get_account_info` with its `Blank` fallback; the other getters are single requests |
| types, proto, constructor | `contact/src/types.rs`, `peggy_utils/src/types/coins.rs`, `peggy_proto/...`, `contact/src/client/mod.rs`, `lib.rs` | data only, generated code, configuration |

How the parts interact:
- The batch relayer and the valset relayer run one after the other in each orchestrator's loop. Both submit Ethereum transactions from the orchestrator's key.
- The Ethereum chain mines an account's transactions strictly in nonce order. A transaction that reverts still uses up its nonce.
- The Peggy contract accepts a batch only if its nonce is above the token's last one and its signatures match the current valset. It accepts a valset update only from the current valset nonce to a higher one.
- Cosmos transactions go through `Contact`. Its Block-mode broadcast waits for inclusion, and the node gives up after its own timeout.

What makes the code hard to test:
- the awaits of competing relayers interleave with each other, with mining and with new batches and valsets;
- reads go stale between a check and the send it justifies;
- RPCs fail at every await;
- a send that fails still moves the nonce counter;
- a transaction can be pending, committed or lost while the client times out;
- the clock moves between two reads in the retry loop.

## 2. Modules

### BatchRelay (and MCBatchRelay, BatchRelayProofs)

State:
- Cosmos: `created`, `storedBatches` (what `get_latest_transaction_batches` returns) and `signed` (the batches whose confirmations reach the threshold).
- Ethereum: `lastBatchNonce` per token, `valsetNonce`, `acctNonce` per relayer, and the `mempool`.
- Each relayer's pass: `pc` (the await it is at), `todo` (the sorted batches still to visit), `cur`, `base` (the transaction count read at line 37), `i` (the counter of line 43), `sigsOk` and `vset`.
- `faults`, a budget of failed RPCs.

One action per await of `relay_batches`:
- `GetLatestBatches`: lines 28-35.
- `GetTxCount`: lines 37-43.
- `GetSigs`: lines 45-51, with its error path at 101-106.
- `GetEthBatchNonce`: lines 52-72, including the panic of the unwrap at 66.
- `FindLatestValset`: lines 73-80 and 97-99.
- `SendBatch`: lines 80-96, with `i += 1` whatever the send returned.

The batch loop is `Continue`: it takes the next batch in nonce order, or ends the pass. `Restart` is the process coming back after a panic. `send_eth_transaction_batch` is not under `src/`, so `SendEthTransactionBatch` models it from the spec: it orders the signatures, which fails when they are short of the threshold, and then broadcasts. The environment actions are `CreateBatch`, `Confirm`, `ObserveExecuted` (pruning executed batches), `UpdateValset` (another party replacing the valset), and `Mine`, which models the contract's checks and the account nonce order.

### ValsetRelay (and MCValsetRelay)

The relayer's pass has one action per await:
- Two reads modelled from the spec (section 4.2): `relay_valsets`' `FindLatestValset` and `GetLatestValset`. They give `old` and `new`, and the update is attempted only when `new > old`, which is why the `assert!` of line 25 always holds.
- `OrderValsetSigs`: lines 21-36.
- `GetValsetNonceBefore`: lines 62-72. A lost race returns Ok.
- `EstimateGas`: lines 74-97. The estimate fails when the contract has moved; a high estimate is only logged.
- `SendTransaction` with `UpdateTx`: lines 99-109. It uses the account's transaction count, and the node refuses a duplicate nonce.
- `WaitForTransaction`: line 116. The timeout can fire at any moment and leaves the transaction pending.
- `GetValsetNonceAfter`: lines 117-131. A mismatch is logged, and the function returns Ok.

`result[r]` records what `send_eth_valset_update` last returned. `Mine` models `updateValset`: the update takes effect only from the contract's current nonce to a higher one, and otherwise reverts.

### ContactSend

This module models one call of `create_and_send_transaction` against a node.
- `GetAccountInfo`, `GetAccountInfoBlank` (the BadStruct fallback that becomes `NoToken`. A missing account takes it, and so does a funded one whose body does not parse) and `GetLatestBlock` model the lookups. `StartRetry` signs the transaction and starts `retry_on_block`.
- `SendRequest` and `ReceiveResponse`/`Outcome` model `request_method`. The node admits a new, correctly sequenced transaction and rejects others with a `TxSendErrorResponse`. That answer becomes `BadStruct`, and is called `AppError` here. The node answers Ok once the transaction is committed, and an error status at its `ServerTimeout`. The client times out at the per-attempt budget, and the connection can drop at any moment.
- `CheckRetry` is the `while let` and the `elapsed > timeout` break (lines 53-63). `ComputeTimeLeft` is the second clock read and the `Duration` subtraction (line 69), which panics below zero. `Backoff1` is `delay_for(1s)` followed by the next request (lines 70-74).
- Time is whole seconds. Between the two clock reads the clock may cross one tick. `Commit` is the node including the transaction at any moment.

### Orchestrator (and MCOrchestrator, PeggyBridge, OrchestratorProofs, OrchestratorSafetyProofs)

The orchestrator's main loop is not under `src/`. It is modelled from the spec (§6): a scheduler that runs the valset relayer and then the batch relayer, forever. Both passes sign with the orchestrator's single Ethereum key.
- `Orchestrator` instantiates BatchRelay as `B` and ValsetRelay as `V`. Each gets its own program counter (`bpc` and `vpc`). They share the contract's valset nonce, the account nonces `acctNonce` and one `mempool` that holds both kinds of transaction.
- `phase[r]` is the pass orchestrator `r` is in. `ValsetPass` and `BatchPass` are one relayer step of that pass. `NextPhase` switches to the other pass once the step returned to "idle".
- `Mine` mines an account's next transaction, whichever pass sent it. It then applies the contract's `submitBatch` or `updateValset` (`B!Mine` or `V!Mine`).
- `Cosmos` is the two modules' chain actions.

`PeggyBridge` is the abstract bridge, with relayers, accounts and mempool left out:
- the Cosmos chain creates and confirms batches and valsets;
- the contract executes a signed, not yet executed batch, which supersedes every earlier batch of its token;
- the contract takes a confirmed valset newer than its own.

The refinement mapping (`Bridge == INSTANCE PeggyBridge WITH ...`) maps `executed` to `Executed`, the batches at or below their token's last nonce on the contract. It maps `valset` to the contract's `valsetNonce`. Every relayer step is a stutter of the bridge.

## 3. Runs

| run | cfg | checks | result |
|---|---|---|---|
| batch_liveness | MCBatchRelay.cfg | TypeOK, NoUnderSignedSubmission, ConfirmedBatchesRelayed under FairSpec | pass (93,951 states) |
| batch_nonce_gap | MCBatchRelay_gap.cfg | ConfirmedBatchesRelayed | violation: finding 2 |
| batch_panic | MCBatchRelay_panic.cfg | NoPanic | violation: finding 1 |
| retry_deadline | MCContactSend.cfg | TypeOK, ReturnsWithinBackoffOfDeadline | pass |
| retry_exact_deadline | MCContactSend_ReturnsByDeadline.cfg | ReturnsByDeadline | violation: finding 3 |
| retry_underflow | MCContactSend_NoDurationUnderflow.cfg | NoDurationUnderflow | violation: finding 4 |
| retry_at_deadline | MCContactSend_NoAttemptAtDeadline.cfg | NoAttemptAtDeadline | violation: finding 5 |
| retry_app_error | MCContactSend_AppErrorNotRetried.cfg | AppErrorNotRetried | violation: finding 6 |
| valset_race | MCValsetRelay.cfg | TypeOK, OkMeansAdvanced, ValsetsRelayed under FairSpec | pass (116,874 states) |
| account_notoken | MCContactSend_NoTokenMeansUnfunded.cfg | NoTokenMeansUnfunded | violation: finding 7 |
| orchestrator_liveness | MCOrchestrator.cfg | TypeOK, ValsetsRelayed, ConfirmedBatchesRelayed, ImplementsBridge under FairSpec | pass (30,421 states) |
| orchestrator_race | MCOrchestrator_race.cfg | OkMeansAdvanced, ImplementsBridge, two orchestrators | pass (851,264 states) |

The properties:
- **NoUnderSignedSubmission**: no broadcast batch lacks the threshold of confirmations. `relay_batches` never checks this itself ("todo check that enough people have signed").
- **ConfirmedBatchesRelayed**: every confirmed batch is eventually executed or superseded.
- **ReturnsWithinBackoffOfDeadline**: `retry_on_block` returns within Timeout + 1 s, whatever the node and the connection do.
- **OkMeansAdvanced**: an Ok from `send_eth_valset_update` implies the contract moved past `old_nonce`. This covers every path that returns Ok: a lost race, a reverted update, and a post-check mismatch.
- **ValsetsRelayed**: the contract eventually reaches every valset, despite competing relayers, timeouts and failures. In Orchestrator it is checked again with the batch pass on the same account. There a pending batch transaction can hold the nonce the update is signed with, and the batch pass can leave a gap.
- **ConfirmedBatchesRelayed** (Orchestrator): the same batch liveness, now with the valset pass taking nonces of the account between batch passes. It also holds when a timed-out valset update still holds the nonce that the next batch pass reads as `base`.
- **OkMeansAdvanced** (Orchestrator): the valset property again, with the batch pass of the same key taking nonces of the account. An update signed with a nonce that a pending batch transaction holds is refused. A wait that times out leaves the update pending behind batch transactions, and a mined batch transaction does not move the valset. The mutant that ignores the wait timeout breaks it here too.
- **ImplementsBridge**: `Bridge!Spec`, checked as a temporal property. The contract takes only confirmed valsets and signed batches, and never moves back. On the valset side this rests on `send_eth_valset_update` sending only after `order_valset_sigs` succeeded.

What the composition shows:
- The two passes of one orchestrator do not starve each other.
- Neither pass holds a nonce that stops the other for good. A pending valset update makes the first batch send of the next pass be refused. A pending batch transaction makes the valset update be refused. In both cases a later pass recovers once the pending transaction is mined.

Every property of a passing run has a mutant, a plausible bug in the mapped definition that TLC must catch (`mutants` in PROJECT.json):
- old_valset taken one valset too far back;
- a broadcast without the signature check;
- nonce `base + i + 1`;
- the retry sent with the full timeout;
- a wait timeout ignored (caught in valset_race and in orchestrator_race);
- the nonce after the transaction count;
- a valset update sent without checking its confirmations.

### Findings

1. `batch_relaying.rs:66` logs a failed `get_tx_batch_nonce` and then unwraps it. One failed Ethereum query panics the relayer (code bug).
2. `batch_relaying.rs:96` increments `i` even when `send_eth_transaction_batch` failed before broadcasting. A batch that never gathers its confirmations then puts a permanent nonce gap in front of every later batch of the pass, and does so again on every pass. The spec says the counter counts successful dispatches and that one bad batch cannot block others.
3. `send.rs:69-70` computes `time_left` before the one-second sleep, so the last attempt can end a second after the caller's deadline.
4. `send.rs:61/69` reads the clock twice. When the deadline passes between the reads, the `Duration` subtraction underflows and panics (code bug).
5. `send.rs:61` uses a strict `>`. At exactly the deadline, one more request is sent with a zero budget.
6. `client.rs:88` maps the node's application error to `BadStruct`, which is retried until the deadline. An example is a transaction resent after a server timeout when it is already in the mempool or committed: the call then reports failure for a committed transaction.
7. `get.rs:44` re-reads the account as a `Blank` on any `BadStruct`, and `Blank {}` accepts any object. A funded account whose body does not parse as `CosmosAccountInfo` then becomes `Ok(None)`, and `maybe_get_optional_tx_info` reports `NoToken`. Examples are another account type, or a value that is cut short. The doc comment at lines 27-29 says that `Ok(None)` means an account without tokens, or one never seen.

### Bounds

- **batch_liveness** uses three batches so that two of them share a token, a later batch can supersede an earlier one, and a batch of the other token sits between them in the loop. It also has one valset update (to make a sent batch revert against a stale valset) and one fault. The fault makes an RPC fail, or makes the relayer panic and restart.
- **ContactSend** has a 3 s budget and a 2 s server timeout. This allows a server timeout followed by a retry, a retry at exactly the deadline, and the clock crossing a tick between the two reads.
- **orchestrator_liveness** has one orchestrator, two batches of two tokens, one valset and one fault. A valset update can time out and stay pending across a batch pass, and a batch can be pending during a valset pass. Two orchestrators with liveness take more than 5 minutes.
- **orchestrator_race** has two orchestrators, one batch and one valset, and checks safety only. Both orchestrators can fetch, check and send the same batch and the same valset at interleaved awaits: one wins and the other reverts. ImplementsBridge shows that the losing execution reverts without undoing the winner. Whether the batch is still executed and the loser's account is not held is a liveness question. No run asks it with two relayers: beyond one batch it exceeds TLC's time. An exploratory run with two relayers and two batches (not kept) found the loser's account can keep a transaction pending. A batch fetched before its confirmations arrived is skipped while `i += 1` still runs, so the next batch is sent behind a nonce gap. Only a later send of that account fills the gap. This is the mechanism of finding 2, reached by timing alone.

NoUnderSignedSubmission is not checked again in the composition. The signatures flag is per relayer and confirmations only grow, so a second orchestrator adds no case.
- **valset_race** has two relayers, two valsets and one fault. That is enough for a lost race, a reverted update, a skipped valset and a wait timeout followed by a refused duplicate nonce.

### Fairness

- Relayers run their passes in an endless loop, so each relayer step is weakly fair.
- Miners include every minable transaction (WF on `Mine`).
- The Cosmos chain builds every batch and valset, and validators confirm those not in `NeverSigned` (WF).
- Failures are bounded by `MaxFaults`. A wait timeout in ValsetRelay is not bounded and is never forced.

## 4. Proofs (TLAPS)

`BatchRelayProofs` proves two theorems, for all relayers, tokens, batches and bounds:
- **TypeCorrect**: `Spec => []TypeOK`.
- **SubmissionsSigned**: `Spec => []NoUnderSignedSubmission`.

TypeOK is not inductive on its own. The inductive invariant `TypeInv` adds `LoopInv`: a relayer at "sigs" still has batches to visit, and a relayer past "sigs" holds a batch. `ChainInv` and `RelayerInv` split the step proof, one CASE per action and per disjunct. `MinInSet` (the smallest element of a non-empty set of naturals belongs to it, from well-foundedness) covers `Min(todo)`.

For NoUnderSignedSubmission, the strengthening `SignedInv` says that `sigsOk[r]` implies `cur[r] \in signed`. The argument is that the flag is only set from a read of `signed`, and `signed` only grows. The `KeepsSigs` and `ForgetSigs` lemmas carry this through `Return` and `Continue`.

`ValsetRelayProofs` proves **ValsetTypeCorrect** (`Spec => []TypeOK`) and **OkBackedByProgress** (`Spec => []OkMeansAdvanced`), for any set of relayers and any number of valsets.

OkMeansAdvanced is not inductive: an Ok returned after the wait depends on the relayer's own update having left the mempool. The strengthening `RelayerInv(r)` says:
- `old[r]` is never above the contract's nonce, because it is read from the contract and the contract only moves forward;
- past the newer-valset check, `new[r] > old[r]`;
- a broadcast update carries the pass's `old` and `new`;
- at "wait", the update is still in the mempool, or the contract is already past `old`;
- at "after", the contract is past `old`.

The key lemma is `MineInv`. When a relayer's update is mined, the contract ends past its old nonce in every case:
- the update took effect;
- it reverted because the contract had left `old`;
- it reverted because the contract was already at `new` or beyond.

`Frame` covers the steps of other relayers and of the Cosmos chain.

`ContactSendProofs` proves **ContactTypeCorrect** and **DeadlineBound** (`Spec => []ReturnsWithinBackoffOfDeadline`) for every `Timeout` and `ServerTimeout`. The inductive invariant `DeadlineInv` bounds `Elapsed + budget`:
- at most Timeout + 1 while a request is in flight;
- exactly Timeout after `time_left` is computed;
- `Elapsed` is at most Timeout at "timeleft", which is why the sleep can overrun by one second and no more.

`OrchestratorProofs` proves **Refinement** (`Spec => ImplementsBridge`, that is `Spec => Bridge!Spec`) for every set of orchestrators, tokens, batches and valsets. It follows the standard layout:
- `InitRefines` maps the initial states;
- `StepRefines` maps every step to a bridge step or a stutter, under an invariant `Inv`.

`Inv` is needed because the contract's valset check (`V!Mine`) does not look at confirmations. The proof that the contract only takes confirmed valsets therefore goes through the relayer, in two parts:
- a valset pass at "before", "estimate" or "send" holds a confirmed `new`;
- every pending valset update carries a confirmed `new`.

`confirmed` only grows, so both parts are kept. `ExecutedStep` shows that moving a token's last nonce up to `b` adds exactly the batches of that token up to `b` to `Executed`. `PassFrame` shows that neither pass touches the chains' state.

`OrchestratorSafetyProofs` proves two of the composition's safety invariants for every set of orchestrators, tokens, batches and valsets, and every `MaxFaults` in Nat:
- **OrchestratorTypeCorrect**: `Spec => []TypeOK`;
- **OkBackedByProgressShared**: `Spec => []OkMeansAdvanced`.

The inductive invariant `TypeInv` has four parts:
- `BatchChainTypes` types the batch side of the Cosmos chain and the contract;
- `BatchLocals` types the batch pass's locals and adds BatchRelayProofs' loop facts: a relayer at "sigs" has batches left, and one past "sigs" holds a batch, so `Min(todo)` is a batch (`MinInSet`, now in `MinLemmas`);
- `ValsetTypes` types the valset pass, including the transaction it sent and the result of its wait;
- `SharedTypes` types what both passes share: the contract's valset nonce, the account nonces, the mempool of both kinds of transaction, the phase and the fault count.

The typing of `sent` and `result` is not part of TypeOK. It is needed because the valset steps update them with EXCEPT, and the Ok argument reads them.

`OkInv(r)` is ValsetRelayProofs' `RelayerInv` restated over the shared state, with one addition. The transaction a valset pass waits for is not a batch transaction (`~IsBatchTx(sent[r])`). Without it, mining that transaction would be a batch step that moves no valset, and "in the mempool or the contract is past `old`" would be lost.

The lemmas:
- `OkFrame` carries OkInv through the steps of other orchestrators and of the Cosmos chain;
- `BatchPassOk` carries it through the batch pass;
- `MineOk` carries it through mining either kind of transaction;
- `ValsetPassOwn` carries it through the relayer's own valset step, one case per action of ValsetRelay.

The proofs assume `OrchestratorAssumption`. It includes `MaxFaults \in Nat`, which every run's value satisfies.

Only model-checked (TLAPS does not handle liveness or ENABLED):
- ConfirmedBatchesRelayed and ValsetsRelayed, also in the composition;
- the violation runs.

## 5. Not modelled

- The main loop's timer and its delay between passes: the passes follow each other directly.
- `send_transaction` in Sync mode, and the non-Block branch.
- The query getters other than `get_account_info`.
- The serde types and the generated proto code.
- Signature bytes and voting power. Sufficiency is a set of confirmed nonces.

## 6. Plan

1. Model `order_valset_sigs` (SignatureOrderer, spec section 4.1) as a pure operator and check it against a reference definition over small valsets. The reference would cover the filter of empty addresses, which preserves order, and positional alignment. Its code is not under `src/`.
2. Prove action properties of the composition: the account nonce and the contract's nonces never move back. Prove the refinement of BatchRelay alone to the batch half of PeggyBridge.
3. Extend orchestrator_race with liveness once a smaller instance makes it fit in TLC's time.
4. Check that the nonce gap of finding 2 does not block valset updates: `send_transaction` signs with the transaction count, which is the gap's nonce. TLC confirmed this on one orchestrator with batch 1 never signed, but the run is left out to keep the run list short.
