---------------------- MODULE OrchestratorSafetyProofs ----------------------
(***************************************************************************)
(* Safety of the orchestrators' two passes on one key, for every number   *)
(* of orchestrators, tokens, batches and valsets: every reachable state   *)
(* is well typed, and an Ok from send_eth_valset_update means progress of *)
(* the contract's valset although batch transactions share the account.   *)
(***************************************************************************)
EXTENDS Orchestrator, MinLemmas, TLAPS

USE OrchestratorAssumption

(***************************************************************************)
(* TypeOK is not inductive: a transaction the batch pass builds is typed  *)
(* only if the pass's locals are, and its for loop takes Min of todo,     *)
(* which must be non-empty there; the valset pass builds its update from  *)
(* old and new.  The invariant is split by the state each pass owns and   *)
(* the state the two share.                                               *)
(***************************************************************************)
BatchChainTypes ==
    /\ created \in 0..NumBatches
    /\ storedBatches \subseteq B!Batches
    /\ signed \subseteq B!Batches
    /\ lastBatchNonce \in [Tokens -> Nat]

BatchLocals ==
    /\ bpc \in [Relayers -> B!PCs]
    /\ todo \in [Relayers -> SUBSET B!Batches]
    /\ cur \in [Relayers -> B!Batches \cup {B!NoBatch}]
    /\ base \in [Relayers -> Nat]
    /\ i \in [Relayers -> Nat]
    /\ sigsOk \in [Relayers -> BOOLEAN]
    /\ vset \in [Relayers -> Nat]
    /\ \A r \in Relayers :
         /\ bpc[r] = "sigs" => todo[r] # {}
         /\ bpc[r] \in {"ethnonce", "findvs", "send", "panicked"}
              => cur[r] \in B!Batches

ValsetTypes ==
    /\ latest \in V!Valsets
    /\ confirmed \subseteq 1..NumValsets
    /\ vpc \in [Relayers -> V!PCs]
    /\ old \in [Relayers -> V!Valsets]
    /\ new \in [Relayers -> V!Valsets]
    /\ sent \in [Relayers -> V!Txs \cup {V!NoTx}]
    /\ result \in [Relayers -> {"none", "ok", "err"}]

SharedTypes ==
    /\ valsetNonce \in V!Valsets
    /\ acctNonce \in [Relayers -> Nat]
    /\ mempool \subseteq B!Txs \cup V!Txs
    /\ phase \in [Relayers -> {"valset", "batch"}]
    /\ faults \in 0..MaxFaults

TypeInv == BatchChainTypes /\ BatchLocals /\ ValsetTypes /\ SharedTypes

-----------------------------------------------------------------------------
(* The two kinds of transaction in the mempool are told apart by their   *)
(* fields.                                                                *)
LEMMA TxKinds ==
    /\ \A tx \in B!Txs : IsBatchTx(tx)
    /\ \A tx \in V!Txs : ~IsBatchTx(tx)
  BY DEF B!Txs, V!Txs, IsBatchTx

LEMMA TypeInit == Init => TypeInv
  BY DEF Init, B!Init, V!Init, TypeInv, BatchChainTypes, BatchLocals,
         ValsetTypes, SharedTypes, B!PCs, V!PCs, V!Valsets, B!NoBatch

(* The state of the valset pass and the state it shares with the batch   *)
(* pass; what a valset pass step may change.                              *)
ValsetSide ==
    /\ ValsetTypes
    /\ valsetNonce \in V!Valsets
    /\ acctNonce \in [Relayers -> Nat]
    /\ mempool \subseteq B!Txs \cup V!Txs
    /\ faults \in 0..MaxFaults

LEMMA ValsetStepType ==
  ASSUME TypeInv, NEW r \in Relayers, V!RelayerStep(r) PROVE ValsetSide'
  <1> USE DEF TypeInv, ValsetTypes, SharedTypes, V!Valsets, V!RelayerStep,
              V!FindLatestValset, V!GetLatestValset, V!OrderValsetSigs,
              V!GetValsetNonceBefore, V!EstimateGas, V!SendTransaction,
              V!WaitForTransaction, V!GetValsetNonceAfter
  <1>1. UNCHANGED <<latest, confirmed, valsetNonce, acctNonce>>
    BY DEF V!cosmosVars, V!ethVars
  <1>2. vpc' \in [Relayers -> V!PCs]
    BY DEF V!Return, V!Goto, V!PCs
  <1>3. old' \in [Relayers -> V!Valsets] /\ new' \in [Relayers -> V!Valsets]
    BY DEF V!cosmosVars, V!ethVars
  <1>4. V!UpdateTx(r) \in V!Txs
    BY DEF V!UpdateTx, V!Txs
  <1>5. mempool' \subseteq B!Txs \cup V!Txs
    BY <1>4 DEF V!cosmosVars, V!ethVars
  <1>7. sent' \in [Relayers -> V!Txs \cup {V!NoTx}]
    BY <1>4 DEF V!cosmosVars, V!ethVars
  <1>8. result' \in [Relayers -> {"none", "ok", "err"}]
    BY DEF V!Return, V!Goto
  <1>6. faults' \in 0..MaxFaults
    BY DEF V!Fault
  <1>. QED BY <1>1, <1>2, <1>3, <1>5, <1>6, <1>7, <1>8 DEF ValsetSide

LEMMA ValsetPassType ==
  ASSUME TypeInv, NEW r \in Relayers, ValsetPass(r) PROVE TypeInv'
  <1>1. ValsetSide'
    BY ValsetStepType DEF ValsetPass
  <1>2. BatchChainTypes' /\ BatchLocals'
    BY DEF ValsetPass, batchOnly, TypeInv, BatchChainTypes, BatchLocals
  <1>3. phase' \in [Relayers -> {"valset", "batch"}]
    BY DEF ValsetPass, NextPhase, TypeInv, SharedTypes
  <1>. QED BY <1>1, <1>2, <1>3 DEF TypeInv, ValsetSide, SharedTypes

(* Leaving relay_batches, or ending an iteration of its for loop with a  *)
(* typed rest and counter, keeps the batch pass's locals typed.           *)
LEMMA BatchReturnType ==
  ASSUME BatchLocals, NEW r \in Relayers, B!Return(r) PROVE BatchLocals'
  BY DEF BatchLocals, B!Return, B!PCs, B!Batches, B!NoBatch

LEMMA BatchContinueType ==
  ASSUME BatchLocals, NEW r \in Relayers, NEW rest \in SUBSET B!Batches,
         NEW n \in Nat, B!Continue(r, rest, n)
  PROVE  BatchLocals'
  <1>1. CASE rest = {}
    BY <1>1, BatchReturnType DEF B!Continue
  <1>2. CASE rest # {}
    <2>1. /\ bpc' = [bpc EXCEPT ![r] = "sigs"]
          /\ todo' = [todo EXCEPT ![r] = rest]
          /\ cur' = [cur EXCEPT ![r] = B!NoBatch]
          /\ i' = [i EXCEPT ![r] = n]
          /\ sigsOk' = [sigsOk EXCEPT ![r] = FALSE]
          /\ vset' = [vset EXCEPT ![r] = 0]
          /\ UNCHANGED base
      BY <1>2 DEF B!Continue
    <2>. QED BY <1>2, <2>1 DEF BatchLocals, B!PCs, B!Batches, B!NoBatch
  <1>. QED BY <1>1, <1>2

(* The state of the batch pass and the state it shares with the valset   *)
(* pass.                                                                  *)
BatchSide ==
    /\ BatchLocals
    /\ acctNonce \in [Relayers -> Nat]
    /\ mempool \subseteq B!Txs \cup V!Txs
    /\ faults \in 0..MaxFaults

LEMMA BatchStepType ==
  ASSUME TypeInv, NEW r \in Relayers, B!Relayer(r) PROVE BatchSide'
  <1> USE DEF TypeInv, SharedTypes, BatchSide
  <1>0. BatchLocals
    BY DEF TypeInv
  <1>1. CASE B!GetLatestBatches(r)
    <2>1. BatchLocals'
      BY <1>0, <1>1 DEF B!GetLatestBatches, BatchLocals, BatchChainTypes,
                       B!PCs
    <2>. QED BY <1>1, <2>1 DEF B!GetLatestBatches, B!Fault, B!ethVars
  <1>2. CASE B!GetTxCount(r)
    <2>1. BatchLocals'
      BY <1>0, <1>2, BatchReturnType DEF B!GetTxCount, BatchLocals, B!PCs
    <2>. QED BY <1>2, <2>1 DEF B!GetTxCount, B!Fault, B!ethVars
  <1>3. CASE B!GetSigs(r)
    <2> DEFINE b == B!Min(todo[r])
    <2>1. todo[r] \in SUBSET B!Batches /\ todo[r] # {}
      BY <1>0, <1>3 DEF B!GetSigs, BatchLocals
    <2>2. b \in todo[r]
      <3>1. b = Min(todo[r])
        BY DEF B!Min, Min
      <3>. QED BY <2>1, <3>1, MinInSet DEF B!Batches
    <2>3. BatchLocals'
      <3>1. CASE /\ todo' = [todo EXCEPT ![r] = todo[r] \ {b}]
                 /\ cur' = [cur EXCEPT ![r] = b]
                 /\ sigsOk' = [sigsOk EXCEPT ![r] = b \in signed]
                 /\ bpc' = [bpc EXCEPT ![r] = "ethnonce"]
                 /\ UNCHANGED <<base, i, vset>>
        BY <1>0, <2>1, <2>2, <3>1 DEF BatchLocals, B!PCs
      <3>2. CASE B!Continue(r, todo[r] \ {b}, i[r])
        BY <1>0, <2>1, <3>2, BatchContinueType DEF BatchLocals
      <3>. QED BY <1>3, <3>1, <3>2 DEF B!GetSigs
    <2>. QED BY <1>3, <2>3 DEF B!GetSigs, B!Fault, B!ethVars
  <1>4. CASE B!GetEthBatchNonce(r)
    <2>1. BatchLocals'
      BY <1>0, <1>4, BatchContinueType DEF B!GetEthBatchNonce, BatchLocals,
                                          B!PCs
    <2>. QED BY <1>4, <2>1 DEF B!GetEthBatchNonce, B!Fault, B!ethVars
  <1>5. CASE B!FindLatestValset(r)
    <2>1. BatchLocals'
      <3>1. CASE /\ vset' = [vset EXCEPT ![r] = valsetNonce]
                 /\ bpc' = [bpc EXCEPT ![r] = "send"]
                 /\ UNCHANGED <<todo, cur, base, i, sigsOk>>
        BY <1>0, <1>5, <3>1 DEF BatchLocals, B!PCs, V!Valsets, B!FindLatestValset
      <3>2. CASE B!Continue(r, todo[r], i[r])
        BY <1>0, <3>2, BatchContinueType DEF BatchLocals
      <3>. QED BY <1>5, <3>1, <3>2 DEF B!FindLatestValset
    <2>. QED BY <1>5, <2>1 DEF B!FindLatestValset, B!Fault, B!ethVars
  <1>6. CASE B!SendBatch(r)
    <2> DEFINE tx == [from |-> r, nonce |-> base[r] + i[r], batch |-> cur[r],
                      vs |-> vset[r]]
    <2>1. tx \in B!Txs
      BY <1>0, <1>6 DEF B!SendBatch, B!Txs, BatchLocals
    <2>2. BatchLocals'
      <3>1. todo[r] \in SUBSET B!Batches /\ i[r] + 1 \in Nat
        BY <1>0 DEF BatchLocals
      <3>2. B!Continue(r, todo[r], i[r] + 1)
        BY <1>6 DEF B!SendBatch
      <3>. QED BY <1>0, <3>1, <3>2, BatchContinueType
    <2>3. mempool' \subseteq B!Txs \cup V!Txs /\ faults' \in 0..MaxFaults
      BY <1>6, <2>1 DEF B!SendBatch, B!SendEthTransactionBatch, B!Fault
    <2>. QED BY <1>6, <2>2, <2>3 DEF B!SendBatch
  <1>7. CASE B!Restart(r)
    BY <1>0, <1>7, BatchReturnType DEF B!Restart, B!ethVars
  <1>. QED BY <1>1, <1>2, <1>3, <1>4, <1>5, <1>6, <1>7 DEF B!Relayer

LEMMA BatchPassType ==
  ASSUME TypeInv, NEW r \in Relayers, BatchPass(r) PROVE TypeInv'
  <1>1. BatchSide'
    BY BatchStepType DEF BatchPass
  <1>2. BatchChainTypes' /\ ValsetTypes' /\ valsetNonce' = valsetNonce
    BY DEF BatchPass, valsetOnly, TypeInv, BatchChainTypes, ValsetTypes,
           B!Relayer, B!GetLatestBatches, B!GetTxCount, B!GetSigs,
           B!GetEthBatchNonce, B!FindLatestValset, B!SendBatch, B!Restart,
           B!cosmosVars, B!ethVars
  <1>3. phase' \in [Relayers -> {"valset", "batch"}]
    BY DEF BatchPass, NextPhase, TypeInv, SharedTypes
  <1>. QED BY <1>1, <1>2, <1>3 DEF TypeInv, BatchSide, SharedTypes

(* A mined transaction is of the kind its fields say, so the miner's     *)
(* effect on the contract is typed: a batch moves its token's last nonce  *)
(* to the batch, a valset update moves the valset to one of the chain's.  *)
LEMMA MineType ==
  ASSUME TypeInv, NEW tx \in mempool, Mine(tx) PROVE TypeInv'
  <1> USE DEF TypeInv, BatchChainTypes, BatchLocals, ValsetTypes, SharedTypes
  <1>1. CASE IsBatchTx(tx) /\ B!Mine(tx) /\ UNCHANGED <<valsetOnly, phase>>
    <2>1. tx \in B!Txs
      BY <1>1, TxKinds
    <2>2. tx.batch \in B!Batches /\ tx.from \in Relayers
      BY <2>1 DEF B!Txs
    <2>3. lastBatchNonce' \in [Tokens -> Nat]
      <3>1. BatchToken[tx.batch] \in Tokens
        BY <2>2 DEF B!Batches
      <3>2. tx.batch \in Nat
        BY <2>2 DEF B!Batches
      <3>. QED BY <1>1, <3>1, <3>2 DEF B!Mine
    <2>4. acctNonce' \in [Relayers -> Nat] /\ mempool' \subseteq mempool
      BY <1>1, <2>2 DEF B!Mine
    <2>. QED BY <1>1, <2>3, <2>4
             DEF B!Mine, B!cosmosVars, B!relayerVars, valsetOnly
  <1>2. CASE ~IsBatchTx(tx) /\ V!Mine(tx) /\ UNCHANGED <<batchOnly, phase>>
    <2>1. tx \in V!Txs
      BY <1>2, TxKinds
    <2>2. tx.new \in V!Valsets /\ tx.from \in Relayers
      BY <2>1 DEF V!Txs
    <2>. QED BY <1>2, <2>2 DEF V!Mine, V!cosmosVars, V!relayerVars, batchOnly
  <1>. QED BY <1>1, <1>2 DEF Mine

LEMMA CosmosType ==
  ASSUME TypeInv, Cosmos PROVE TypeInv'
  <1> USE DEF TypeInv, BatchChainTypes, BatchLocals, ValsetTypes, SharedTypes
  <1>1. CASE B!CreateBatch /\ UNCHANGED <<valsetOnly, phase>>
    BY <1>1 DEF B!CreateBatch, B!ethVars, B!relayerVars, valsetOnly,
               B!Batches
  <1>2. ASSUME NEW b \in B!Batches,
               B!Confirm(b) /\ UNCHANGED <<valsetOnly, phase>>
        PROVE  TypeInv'
    BY <1>2 DEF B!Confirm, B!ethVars, B!relayerVars, valsetOnly
  <1>3. CASE B!ObserveExecuted /\ UNCHANGED <<valsetOnly, phase>>
    BY <1>3 DEF B!ObserveExecuted, B!ethVars, B!relayerVars, valsetOnly
  <1>4. CASE V!CreateValset /\ UNCHANGED <<batchOnly, phase>>
    BY <1>4 DEF V!CreateValset, V!ethVars, V!relayerVars, batchOnly,
               V!Valsets
  <1>5. ASSUME NEW v \in 1..NumValsets,
               V!Confirm(v) /\ UNCHANGED <<batchOnly, phase>>
        PROVE  TypeInv'
    BY <1>5 DEF V!Confirm, V!ethVars, V!relayerVars, batchOnly
  <1>. QED BY <1>1, <1>2, <1>3, <1>4, <1>5 DEF Cosmos

LEMMA TypeStep == TypeInv /\ [Next]_vars => TypeInv'
  <1> SUFFICES ASSUME TypeInv, [Next]_vars PROVE TypeInv'
    OBVIOUS
  <1>1. ASSUME NEW r \in Relayers, Orchestrate(r) PROVE TypeInv'
    BY <1>1, ValsetPassType, BatchPassType DEF Orchestrate
  <1>2. CASE Cosmos
    BY <1>2, CosmosType
  <1>3. ASSUME NEW tx \in mempool, Mine(tx) PROVE TypeInv'
    BY <1>3, MineType
  <1>4. CASE UNCHANGED vars
    BY <1>4 DEF vars, batchOnly, valsetOnly, TypeInv, BatchChainTypes,
               BatchLocals, ValsetTypes, SharedTypes
  <1>. QED BY <1>1, <1>2, <1>3, <1>4 DEF Next

(***************************************************************************)
(* Every state the orchestrators, the miners and the Cosmos chain can     *)
(* reach is well typed: the account nonces the two passes share, the      *)
(* mempool that holds both kinds of transaction, and the contract's       *)
(* valset, which only a mined update of a Cosmos valset moves.            *)
(***************************************************************************)
THEOREM OrchestratorTypeCorrect == Spec => []TypeOK
  <1>1. Spec => []TypeInv
    BY TypeInit, TypeStep, PTL DEF Spec
  <1>2. TypeInv => TypeOK
    BY DEF TypeInv, BatchChainTypes, BatchLocals, ValsetTypes, SharedTypes,
           TypeOK
  <1>. QED BY <1>1, <1>2, PTL

-----------------------------------------------------------------------------
(* The stages of a valset pass after the latest valset was found newer,  *)
(* and after its update was broadcast.                                    *)
Updating == {"confirms", "before", "estimate", "send", "wait", "after"}
Waiting == {"wait", "after"}

(***************************************************************************)
(* The strengthening of OkMeansAdvanced, per orchestrator: old_valset is  *)
(* never ahead of the contract; past the newer-valset check new is above  *)
(* old; the broadcast update is a valset update carrying the pass's old   *)
(* and new, so no batch mined from the shared account removes it; once it *)
(* has left the mempool the contract is past old.                         *)
(***************************************************************************)
OkInv(r) ==
    /\ old[r] <= valsetNonce
    /\ result[r] = "ok" => valsetNonce > old[r]
    /\ vpc[r] \in Updating => new[r] > old[r]
    /\ vpc[r] \in Waiting =>
         /\ ~IsBatchTx(sent[r])
         /\ sent[r].old = old[r] /\ sent[r].new = new[r]
    /\ vpc[r] = "wait" => sent[r] \in mempool \/ valsetNonce > old[r]
    /\ vpc[r] = "after" => valsetNonce > old[r]

AdvancedInv == TypeInv /\ \A r \in Relayers : OkInv(r)

LEMMA OkInit == Init => \A r \in Relayers : OkInv(r)
  <1> SUFFICES ASSUME Init, NEW r \in Relayers PROVE OkInv(r)
    OBVIOUS
  <1>1. vpc[r] = "idle" /\ old[r] = 0 /\ result[r] = "none" /\ valsetNonce = 0
    BY DEF Init, V!Init
  <1>. QED BY <1>1 DEF OkInv, Updating, Waiting

(* A step that does not move the contract, keeps a pending update of s   *)
(* in the mempool and leaves the pass of s alone keeps OkInv(s).          *)
LEMMA OkFrame ==
  ASSUME NEW s \in Relayers, OkInv(s),
         valsetNonce' = valsetNonce,
         vpc[s] = "wait" /\ sent[s] \in mempool => sent[s] \in mempool',
         vpc'[s] = vpc[s], old'[s] = old[s], new'[s] = new[s],
         sent'[s] = sent[s], result'[s] = result[s]
  PROVE  OkInv(s)'
  BY DEF OkInv

(* The valset pass of r leaves the passes of the others alone, does not  *)
(* move the contract and only adds to the mempool.                        *)
LEMMA ValsetPassOthers ==
  ASSUME AdvancedInv, NEW r \in Relayers, ValsetPass(r),
         NEW s \in Relayers, s # r
  PROVE  OkInv(s)'
  <1>1. valsetNonce' = valsetNonce /\ mempool \subseteq mempool'
    BY DEF ValsetPass, V!RelayerStep, V!FindLatestValset, V!GetLatestValset,
           V!OrderValsetSigs, V!GetValsetNonceBefore, V!EstimateGas,
           V!SendTransaction, V!WaitForTransaction, V!GetValsetNonceAfter,
           V!ethVars
  <1>2. /\ vpc'[s] = vpc[s] /\ old'[s] = old[s] /\ new'[s] = new[s]
        /\ sent'[s] = sent[s] /\ result'[s] = result[s]
    BY DEF ValsetPass, V!RelayerStep, V!FindLatestValset, V!GetLatestValset,
           V!OrderValsetSigs, V!GetValsetNonceBefore, V!EstimateGas,
           V!SendTransaction, V!WaitForTransaction, V!GetValsetNonceAfter,
           V!Return, V!Goto, V!Fault, AdvancedInv, TypeInv, ValsetTypes
  <1>. QED BY <1>1, <1>2, OkFrame DEF AdvancedInv

(* Ending the pass with an Err, or with no call of                        *)
(* send_eth_valset_update, keeps OkInv(r); so does going on to a later    *)
(* check before the send.                                                 *)
LEMMA OkReturn ==
  ASSUME NEW r \in Relayers, OkInv(r), vpc'[r] = "idle",
         result'[r] \in {"none", "err"}, valsetNonce' = valsetNonce,
         old'[r] = old[r]
  PROVE  OkInv(r)'
  BY DEF OkInv, Updating, Waiting

LEMMA OkAdvance ==
  ASSUME NEW r \in Relayers, OkInv(r), vpc[r] \in Updating,
         vpc'[r] \in Updating \ Waiting, valsetNonce' = valsetNonce,
         old'[r] = old[r], new'[r] = new[r], result'[r] = result[r]
  PROVE  OkInv(r)'
  BY DEF OkInv, Updating, Waiting

(* The valset pass of r keeps OkInv(r): one case per await of            *)
(* relay_valsets and send_eth_valset_update.                              *)
LEMMA ValsetPassOwn ==
  ASSUME AdvancedInv, NEW r \in Relayers, ValsetPass(r) PROVE OkInv(r)'
  <1>0. /\ OkInv(r)
        /\ vpc \in [Relayers -> V!PCs] /\ result \in [Relayers -> {"none", "ok", "err"}]
        /\ old \in [Relayers -> V!Valsets] /\ new \in [Relayers -> V!Valsets]
        /\ sent \in [Relayers -> V!Txs \cup {V!NoTx}]
        /\ valsetNonce \in V!Valsets /\ latest \in V!Valsets
        /\ V!RelayerStep(r)
    BY DEF AdvancedInv, TypeInv, ValsetTypes, SharedTypes, ValsetPass
  <1> DEFINE Ret(out) == vpc'[r] = "idle" /\ result'[r] = out
  <1>r. ASSUME NEW out, V!Return(r, out) PROVE Ret(out)
    BY <1>0, <1>r DEF V!Return
  <1>g. ASSUME NEW l, V!Goto(r, l) PROVE vpc'[r] = l
    BY <1>0, <1>g DEF V!Goto
  <1>1. CASE V!FindLatestValset(r)
    <2>1. valsetNonce' = valsetNonce
      BY <1>1 DEF V!FindLatestValset, V!ethVars
    <2>2. CASE /\ old' = [old EXCEPT ![r] = valsetNonce]
               /\ V!Goto(r, "latest")
               /\ result' = [result EXCEPT ![r] = "none"]
      <3>1. old'[r] = valsetNonce /\ vpc'[r] = "latest" /\ result'[r] = "none"
        BY <1>0, <1>g, <2>2
      <3>. QED BY <1>0, <2>1, <3>1 DEF OkInv, Updating, Waiting, V!Valsets
    <2>3. CASE V!Fault /\ V!Return(r, "none") /\ UNCHANGED old
      BY <1>0, <1>r, <2>1, <2>3, OkReturn
    <2>. QED BY <1>1, <2>2, <2>3 DEF V!FindLatestValset
  <1>2. CASE V!GetLatestValset(r)
    <2>1. valsetNonce' = valsetNonce /\ old' = old
      BY <1>2 DEF V!GetLatestValset, V!ethVars
    <2>2. CASE /\ new' = [new EXCEPT ![r] = latest]
               /\ IF latest > old[r] THEN V!Goto(r, "confirms") /\ UNCHANGED result
                                     ELSE V!Return(r, "none")
      <3>1. new'[r] = latest
        BY <1>0, <2>2
      <3>2. CASE latest > old[r]
        <4>1. vpc'[r] = "confirms" /\ result'[r] = result[r]
          BY <1>g, <2>2, <3>2
        <4>. QED BY <1>0, <2>1, <3>1, <3>2, <4>1 DEF OkInv, Updating, Waiting
      <3>3. CASE ~(latest > old[r])
        BY <1>0, <1>r, <2>1, <2>2, <3>3, OkReturn
      <3>. QED BY <3>2, <3>3
    <2>3. CASE V!Fault /\ V!Return(r, "none") /\ UNCHANGED new
      BY <1>0, <1>r, <2>1, <2>3, OkReturn
    <2>. QED BY <1>2, <2>2, <2>3 DEF V!GetLatestValset
  <1>3. CASE V!OrderValsetSigs(r)
    <2>1. UNCHANGED <<valsetNonce, old, new>>
      BY <1>3 DEF V!OrderValsetSigs, V!ethVars
    <2>2. CASE new[r] \in confirmed /\ V!Goto(r, "before") /\ UNCHANGED result
      BY <1>0, <1>3, <1>g, <2>1, <2>2, OkAdvance DEF V!OrderValsetSigs, Updating,
                                                  Waiting
    <2>3. CASE V!Return(r, "err") \/ V!Return(r, "none")
      BY <1>0, <1>r, <2>1, <2>3, OkReturn
    <2>. QED BY <1>3, <2>2, <2>3 DEF V!OrderValsetSigs
  <1>4. CASE V!GetValsetNonceBefore(r)
    <2>1. UNCHANGED <<valsetNonce, old, new>>
      BY <1>4 DEF V!GetValsetNonceBefore, V!ethVars
    <2>2. CASE valsetNonce # old[r] /\ V!Return(r, "ok")
      <3>1. valsetNonce > old[r]
        BY <1>0, <2>2 DEF OkInv, V!Valsets
      <3>2. Ret("ok")
        BY <1>r, <2>2
      <3>. QED BY <1>0, <2>1, <3>1, <3>2 DEF OkInv, Updating, Waiting
    <2>3. CASE valsetNonce = old[r] /\ V!Goto(r, "estimate") /\ UNCHANGED result
      BY <1>0, <1>4, <1>g, <2>1, <2>3, OkAdvance DEF V!GetValsetNonceBefore,
                                                  Updating, Waiting
    <2>4. CASE V!Return(r, "err")
      BY <1>0, <1>r, <2>1, <2>4, OkReturn
    <2>. QED BY <1>4, <2>2, <2>3, <2>4 DEF V!GetValsetNonceBefore
  <1>5. CASE V!EstimateGas(r)
    <2>1. UNCHANGED <<valsetNonce, old, new>>
      BY <1>5 DEF V!EstimateGas, V!ethVars
    <2>2. CASE V!Goto(r, "send") /\ UNCHANGED result
      BY <1>0, <1>5, <1>g, <2>1, <2>2, OkAdvance DEF V!EstimateGas, Updating,
                                                  Waiting
    <2>3. CASE V!Return(r, "err")
      BY <1>0, <1>r, <2>1, <2>3, OkReturn
    <2>. QED BY <1>5, <2>2, <2>3 DEF V!EstimateGas
  <1>6. CASE V!SendTransaction(r)
    <2>1. UNCHANGED <<valsetNonce, old, new>>
      BY <1>6 DEF V!SendTransaction
    <2>2. CASE /\ mempool' = mempool \cup {V!UpdateTx(r)}
               /\ sent' = [sent EXCEPT ![r] = V!UpdateTx(r)]
               /\ V!Goto(r, "wait")
               /\ UNCHANGED result
      <3>1. sent'[r] = V!UpdateTx(r) /\ vpc'[r] = "wait"
        BY <1>0, <1>g, <2>2
      <3>2. /\ ~IsBatchTx(V!UpdateTx(r))
            /\ V!UpdateTx(r).old = old[r] /\ V!UpdateTx(r).new = new[r]
        BY DEF V!UpdateTx, IsBatchTx
      <3>3. new[r] > old[r]
        BY <1>0, <1>6 DEF V!SendTransaction, OkInv, Updating
      <3>. QED BY <1>0, <2>1, <2>2, <3>1, <3>2, <3>3 DEF OkInv, Updating,
                  Waiting
    <2>3. CASE V!Return(r, "err")
      BY <1>0, <1>r, <2>1, <2>3, OkReturn
    <2>. QED BY <1>6, <2>2, <2>3 DEF V!SendTransaction
  <1>7. CASE V!WaitForTransaction(r)
    <2>1. UNCHANGED <<valsetNonce, mempool, old, new, sent>>
      BY <1>7 DEF V!WaitForTransaction, V!ethVars
    <2>2. CASE sent[r] \notin mempool /\ V!Goto(r, "after") /\ UNCHANGED result
      <3>1. vpc'[r] = "after" /\ vpc[r] = "wait"
        BY <1>7, <1>g, <2>2 DEF V!WaitForTransaction
      <3>2. valsetNonce > old[r]
        BY <1>0, <2>2, <3>1 DEF OkInv
      <3>. QED BY <1>0, <2>1, <2>2, <3>1, <3>2 DEF OkInv, Updating, Waiting
    <2>3. CASE V!Return(r, "err")
      BY <1>0, <1>r, <2>1, <2>3, OkReturn
    <2>. QED BY <1>7, <2>2, <2>3 DEF V!WaitForTransaction
  <1>8. CASE V!GetValsetNonceAfter(r)
    <2>1. UNCHANGED <<valsetNonce, old>> /\ vpc[r] = "after"
      BY <1>8 DEF V!GetValsetNonceAfter, V!ethVars
    <2>2. CASE V!Return(r, "ok")
      <3>1. valsetNonce > old[r]
        BY <1>0, <2>1 DEF OkInv
      <3>. QED BY <1>0, <1>r, <2>1, <2>2, <3>1 DEF OkInv, Updating, Waiting
    <2>3. CASE V!Return(r, "err")
      BY <1>0, <1>r, <2>1, <2>3, OkReturn
    <2>. QED BY <1>8, <2>2, <2>3 DEF V!GetValsetNonceAfter
  <1>. QED BY <1>0, <1>1, <1>2, <1>3, <1>4, <1>5, <1>6, <1>7, <1>8
              DEF V!RelayerStep

(* A batch pass leaves every valset pass and the contract alone, and     *)
(* only adds to the mempool.                                              *)
LEMMA BatchPassOk ==
  ASSUME AdvancedInv, NEW r \in Relayers, BatchPass(r), NEW s \in Relayers
  PROVE  OkInv(s)'
  <1>1. valsetNonce' = valsetNonce /\ mempool \subseteq mempool'
    BY DEF BatchPass, B!Relayer, B!GetLatestBatches, B!GetTxCount, B!GetSigs,
           B!GetEthBatchNonce, B!FindLatestValset, B!SendBatch, B!Restart,
           B!SendEthTransactionBatch, B!ethVars
  <1>2. UNCHANGED <<vpc, old, new, sent, result>>
    BY DEF BatchPass, valsetOnly
  <1>. QED BY <1>1, <1>2, OkFrame DEF AdvancedInv

(* Mining a batch leaves the contract's valset alone and removes no      *)
(* valset update; mining a valset update moves the contract only forward, *)
(* and when it removes the pending update of s the contract ends past the *)
(* update's old nonce: it took effect, or it reverted because the         *)
(* contract had left old already.                                         *)
LEMMA MineOk ==
  ASSUME AdvancedInv, NEW tx \in mempool, Mine(tx), NEW s \in Relayers
  PROVE  OkInv(s)'
  <1>0. OkInv(s)
    BY DEF AdvancedInv
  <1>1. CASE IsBatchTx(tx) /\ B!Mine(tx) /\ UNCHANGED <<valsetOnly, phase>>
    <2>1. valsetNonce' = valsetNonce /\ mempool' = mempool \ {tx}
      BY <1>1 DEF B!Mine
    <2>2. vpc[s] = "wait" /\ sent[s] \in mempool => sent[s] \in mempool'
      <3>1. vpc[s] = "wait" => ~IsBatchTx(sent[s])
        BY <1>0 DEF OkInv, Waiting
      <3>. QED BY <1>1, <2>1, <3>1
    <2>. QED BY <1>0, <1>1, <2>1, <2>2, OkFrame DEF valsetOnly
  <1>2. CASE ~IsBatchTx(tx) /\ V!Mine(tx) /\ UNCHANGED <<batchOnly, phase>>
    <2>1. tx \in V!Txs
      BY <1>2, TxKinds DEF AdvancedInv, TypeInv, SharedTypes
    <2>2. /\ valsetNonce \in V!Valsets /\ tx.old \in V!Valsets
          /\ tx.new \in V!Valsets
          /\ old[s] \in V!Valsets /\ new[s] \in V!Valsets
      BY <2>1 DEF V!Txs, AdvancedInv, TypeInv, SharedTypes, ValsetTypes
    <2>3. valsetNonce' >= valsetNonce /\ valsetNonce' \in V!Valsets
      BY <1>2, <2>2 DEF V!Mine, V!Valsets
    <2>4. /\ vpc' = vpc /\ old' = old /\ new' = new /\ sent' = sent
          /\ result' = result /\ mempool' = mempool \ {tx}
      BY <1>2 DEF V!Mine, V!relayerVars
    <2>6. /\ old[s] <= valsetNonce
          /\ result[s] = "ok" => valsetNonce > old[s]
          /\ vpc[s] = "wait" => sent[s] \in mempool \/ valsetNonce > old[s]
          /\ vpc[s] = "after" => valsetNonce > old[s]
      BY <1>0 DEF OkInv
    <2>5. ASSUME vpc[s] = "wait", sent[s] \notin mempool'
          PROVE  valsetNonce' > old[s]
      <3>1. CASE sent[s] \notin mempool
        <4>1. valsetNonce > old[s]
          BY <2>5, <2>6, <3>1
        <4>. QED BY <2>2, <2>3, <4>1 DEF V!Valsets
      <3>2. CASE sent[s] \in mempool
        <4>1. sent[s] = tx
          BY <2>4, <2>5, <3>2
        <4>2. tx.old = old[s] /\ tx.new = new[s] /\ new[s] > old[s]
          BY <1>0, <2>5, <4>1 DEF OkInv, Updating, Waiting
        <4>. QED BY <1>0, <1>2, <2>2, <4>2 DEF V!Mine, OkInv, V!Valsets
      <3>. QED BY <3>1, <3>2
    <2>7. /\ old'[s] <= valsetNonce'
          /\ result'[s] = "ok" => valsetNonce' > old'[s]
          /\ vpc'[s] = "wait" => sent'[s] \in mempool' \/ valsetNonce' > old'[s]
          /\ vpc'[s] = "after" => valsetNonce' > old'[s]
      <3>1. old'[s] = old[s] /\ vpc'[s] = vpc[s] /\ result'[s] = result[s]
            /\ sent'[s] = sent[s]
        BY <2>4
      <3>2. old'[s] <= valsetNonce'
        BY <2>2, <2>3, <2>6, <3>1 DEF V!Valsets
      <3>3. result'[s] = "ok" => valsetNonce' > old'[s]
        BY <2>2, <2>3, <2>6, <3>1 DEF V!Valsets
      <3>4. vpc'[s] = "wait" => sent'[s] \in mempool' \/ valsetNonce' > old'[s]
        BY <2>5, <3>1
      <3>5. vpc'[s] = "after" => valsetNonce' > old'[s]
        BY <2>2, <2>3, <2>6, <3>1 DEF V!Valsets
      <3>. QED BY <3>2, <3>3, <3>4, <3>5
    <2>. QED BY <1>0, <2>4, <2>7 DEF OkInv
  <1>. QED BY <1>1, <1>2 DEF Mine

LEMMA AdvancedStep == AdvancedInv /\ [Next]_vars => AdvancedInv'
  <1> SUFFICES ASSUME AdvancedInv, [Next]_vars PROVE AdvancedInv'
    OBVIOUS
  <1>1. TypeInv'
    BY TypeStep DEF AdvancedInv
  <1>2. ASSUME NEW s \in Relayers PROVE OkInv(s)'
    <2>1. ASSUME NEW r \in Relayers, Orchestrate(r) PROVE OkInv(s)'
      <3>1. CASE ValsetPass(r) /\ s = r
        BY <3>1, ValsetPassOwn
      <3>2. CASE ValsetPass(r) /\ s # r
        BY <3>2, ValsetPassOthers
      <3>3. CASE BatchPass(r)
        BY <3>3, BatchPassOk
      <3>. QED BY <2>1, <3>1, <3>2, <3>3 DEF Orchestrate
    <2>2. CASE Cosmos
      <3>1. UNCHANGED <<valsetNonce, mempool, vpc, old, new, sent, result>>
        BY <2>2 DEF Cosmos, B!CreateBatch, B!Confirm, B!ObserveExecuted,
                   V!CreateValset, V!Confirm, B!ethVars, V!ethVars,
                   V!relayerVars, valsetOnly
      <3>. QED BY <3>1, OkFrame DEF AdvancedInv
    <2>3. ASSUME NEW tx \in mempool, Mine(tx) PROVE OkInv(s)'
      BY <2>3, MineOk
    <2>4. CASE UNCHANGED vars
      <3>1. UNCHANGED <<valsetNonce, mempool, vpc, old, new, sent, result>>
        BY <2>4 DEF vars, valsetOnly
      <3>. QED BY <3>1, OkFrame DEF AdvancedInv
    <2>. QED BY <2>1, <2>2, <2>3, <2>4 DEF Next
  <1>. QED BY <1>1, <1>2 DEF AdvancedInv

(***************************************************************************)
(* Every Ok that send_eth_valset_update returns, from the lost-race exit  *)
(* or after the wait and the post-submit check, means the contract's      *)
(* valset is past old_nonce, for any number of orchestrators, also while  *)
(* the batch pass of the same key takes nonces of the account and         *)
(* batches are mined in between.                                          *)
(***************************************************************************)
THEOREM OkBackedByProgressShared == Spec => []OkMeansAdvanced
  <1>1. Init => AdvancedInv
    BY TypeInit, OkInit DEF AdvancedInv
  <1>2. AdvancedInv => OkMeansAdvanced
    BY DEF AdvancedInv, OkInv, OkMeansAdvanced, V!OkMeansAdvanced
  <1>. QED BY <1>1, <1>2, AdvancedStep, PTL DEF Spec
=============================================================================
