------------------------- MODULE OrchestratorProofs -------------------------
(***************************************************************************)
(* Proof that the orchestrators, each running valset and batch passes on  *)
(* one key, implement the abstract bridge PeggyBridge under the mapping   *)
(* of Orchestrator, for every number of orchestrators, tokens, batches    *)
(* and valsets.                                                           *)
(***************************************************************************)
EXTENDS Orchestrator, TLAPS

USE OrchestratorAssumption

SendsConfirmed == {"before", "estimate", "send"}

(* The invariant the refinement rests on: a valset pass past              *)
(* order_valset_sigs holds a confirmed new valset, and so does every      *)
(* pending valset update; with the types the mapping needs.               *)
Inv ==
    /\ signed \subseteq B!Batches
    /\ lastBatchNonce \in [Tokens -> Nat]
    /\ latest \in Nat
    /\ confirmed \subseteq 1..NumValsets
    /\ vpc \in [Relayers -> V!PCs]
    /\ new \in [Relayers -> Nat]
    /\ \A r \in Relayers : vpc[r] \in SendsConfirmed => new[r] \in confirmed
    /\ \A tx \in mempool : ~IsBatchTx(tx) => tx.new \in confirmed

LEMMA InitInv == Init => Inv
  BY DEF Init, B!Init, V!Init, Inv, V!PCs, SendsConfirmed

LEMMA ValsetPassInv ==
  ASSUME Inv, NEW r \in Relayers, ValsetPass(r) PROVE Inv'
  <1>1. UNCHANGED <<signed, lastBatchNonce, latest>> /\ confirmed' = confirmed
    BY DEF ValsetPass, V!RelayerStep, V!FindLatestValset, V!GetLatestValset,
           V!OrderValsetSigs, V!GetValsetNonceBefore, V!EstimateGas,
           V!SendTransaction, V!WaitForTransaction, V!GetValsetNonceAfter,
           V!cosmosVars, V!ethVars, batchOnly, V!Fault
  <1>2. vpc' \in [Relayers -> V!PCs] /\ new' \in [Relayers -> Nat]
    BY DEF Inv, ValsetPass, V!RelayerStep, V!FindLatestValset,
           V!GetLatestValset, V!OrderValsetSigs, V!GetValsetNonceBefore,
           V!EstimateGas, V!SendTransaction, V!WaitForTransaction,
           V!GetValsetNonceAfter, V!Return, V!Goto, V!PCs, V!Fault,
           V!Accepts, V!UpdateTx
  <1>3. \A s \in Relayers : vpc'[s] \in SendsConfirmed => new'[s] \in confirmed'
    BY <1>1 DEF Inv, ValsetPass, V!RelayerStep, V!FindLatestValset,
           V!GetLatestValset, V!OrderValsetSigs, V!GetValsetNonceBefore,
           V!EstimateGas, V!SendTransaction, V!WaitForTransaction,
           V!GetValsetNonceAfter, V!Return, V!Goto, SendsConfirmed,
           V!Fault, V!Accepts, V!UpdateTx, V!cosmosVars, V!ethVars
  <1>4. \A tx \in mempool' : ~IsBatchTx(tx) => tx.new \in confirmed'
    BY <1>1 DEF Inv, ValsetPass, V!RelayerStep, V!FindLatestValset,
           V!GetLatestValset, V!OrderValsetSigs, V!GetValsetNonceBefore,
           V!EstimateGas, V!SendTransaction, V!WaitForTransaction,
           V!GetValsetNonceAfter, V!Return, V!Goto, V!UpdateTx,
           V!cosmosVars, V!ethVars, SendsConfirmed, V!Fault,
           V!Accepts, IsBatchTx
  <1>. QED BY <1>1, <1>2, <1>3, <1>4 DEF Inv

(* A batch pass adds batch transactions only, and leaves the valset pass *)
(* and the contract alone.                                                *)
LEMMA BatchPassInv ==
  ASSUME Inv, NEW r \in Relayers, BatchPass(r) PROVE Inv'
  <1>1. UNCHANGED <<signed, lastBatchNonce, latest, confirmed, vpc, new>>
    BY DEF BatchPass, B!Relayer, B!GetLatestBatches, B!GetTxCount, B!GetSigs,
           B!GetEthBatchNonce, B!FindLatestValset, B!SendBatch, B!Restart,
           B!cosmosVars, B!ethVars, valsetOnly
  <1>2. \A tx \in mempool' \ mempool : IsBatchTx(tx)
    BY DEF BatchPass, B!Relayer, B!GetLatestBatches, B!GetTxCount, B!GetSigs,
           B!GetEthBatchNonce, B!FindLatestValset, B!SendBatch, B!Restart,
           B!SendEthTransactionBatch, B!cosmosVars, B!ethVars, IsBatchTx
  <1>. QED BY <1>1, <1>2 DEF Inv

LEMMA MineInv ==
  ASSUME Inv, NEW tx \in mempool, Mine(tx) PROVE Inv'
  <1>1. CASE IsBatchTx(tx) /\ B!Mine(tx) /\ UNCHANGED <<valsetOnly, phase>>
    <2>1. UNCHANGED <<signed, latest, confirmed, vpc, new>>
          /\ mempool' \subseteq mempool
      BY <1>1 DEF B!Mine, B!cosmosVars, valsetOnly
    <2>2. lastBatchNonce' \in [Tokens -> Nat]
      <3>1. CASE tx.batch \in signed
        <4>1. tx.batch \in 1..NumBatches
          BY <3>1 DEF Inv, B!Batches
        <4>. QED BY <1>1, <4>1 DEF Inv, B!Mine
      <3>2. CASE tx.batch \notin signed
        BY <1>1, <3>2 DEF Inv, B!Mine
      <3>. QED BY <3>1, <3>2
    <2>. QED BY <2>1, <2>2 DEF Inv
  <1>2. CASE ~IsBatchTx(tx) /\ V!Mine(tx) /\ UNCHANGED <<batchOnly, phase>>
    <2>1. UNCHANGED <<signed, lastBatchNonce, latest, confirmed, vpc, new>>
          /\ mempool' \subseteq mempool
      BY <1>2 DEF V!Mine, V!cosmosVars, V!relayerVars, batchOnly
    <2>. QED BY <2>1 DEF Inv
  <1>. QED BY <1>1, <1>2 DEF Mine

LEMMA CosmosInv == Inv /\ Cosmos => Inv'
  <1> SUFFICES ASSUME Inv, Cosmos PROVE Inv'
    OBVIOUS
  <1>1. CASE B!CreateBatch /\ UNCHANGED <<valsetOnly, phase>>
    BY <1>1 DEF Inv, B!CreateBatch, B!ethVars, valsetOnly
  <1>2. ASSUME NEW b \in B!Batches,
               B!Confirm(b) /\ UNCHANGED <<valsetOnly, phase>>
        PROVE Inv'
    BY <1>2 DEF Inv, B!Confirm, B!ethVars, valsetOnly
  <1>3. CASE B!ObserveExecuted /\ UNCHANGED <<valsetOnly, phase>>
    BY <1>3 DEF Inv, B!ObserveExecuted, B!ethVars, valsetOnly
  <1>4. CASE V!CreateValset /\ UNCHANGED <<batchOnly, phase>>
    BY <1>4 DEF Inv, V!CreateValset, V!ethVars, V!relayerVars, batchOnly
  <1>5. ASSUME NEW v \in 1..NumValsets,
               V!Confirm(v) /\ UNCHANGED <<batchOnly, phase>>
        PROVE Inv'
    BY <1>5 DEF Inv, V!Confirm, V!ethVars, V!relayerVars, batchOnly,
               SendsConfirmed
  <1>. QED BY <1>1, <1>2, <1>3, <1>4, <1>5 DEF Cosmos

LEMMA InvStep == Inv /\ [Next]_vars => Inv'
  <1> SUFFICES ASSUME Inv, [Next]_vars PROVE Inv'
    OBVIOUS
  <1>1. ASSUME NEW r \in Relayers, Orchestrate(r) PROVE Inv'
    BY <1>1, ValsetPassInv, BatchPassInv DEF Orchestrate
  <1>2. CASE Cosmos
    BY <1>2, CosmosInv
  <1>3. ASSUME NEW tx \in mempool, Mine(tx) PROVE Inv'
    BY <1>3, MineInv
  <1>4. CASE UNCHANGED vars
    BY <1>4 DEF vars, Inv, batchOnly, valsetOnly
  <1>. QED BY <1>1, <1>2, <1>3, <1>4 DEF Next

(* The chains' state, all the abstract bridge sees of them.               *)
chainVars == <<created, signed, lastBatchNonce, latest, confirmed,
               valsetNonce>>

LEMMA PassFrame ==
  ASSUME NEW r \in Relayers, Orchestrate(r) PROVE UNCHANGED chainVars
  <1>1. CASE ValsetPass(r)
    BY <1>1 DEF ValsetPass, V!RelayerStep, V!FindLatestValset,
           V!GetLatestValset, V!OrderValsetSigs, V!GetValsetNonceBefore,
           V!EstimateGas, V!SendTransaction, V!WaitForTransaction,
           V!GetValsetNonceAfter, V!cosmosVars, V!ethVars, batchOnly,
           chainVars
  <1>2. CASE BatchPass(r)
    BY <1>2 DEF BatchPass, B!Relayer, B!GetLatestBatches, B!GetTxCount,
           B!GetSigs, B!GetEthBatchNonce, B!FindLatestValset, B!SendBatch,
           B!Restart, B!cosmosVars, B!ethVars, valsetOnly, chainVars
  <1>. QED BY <1>1, <1>2 DEF Orchestrate

(* Executing batch b moves its token's last nonce up to b, which adds to *)
(* Executed exactly the batches of that token up to b.                    *)
LEMMA ExecutedStep ==
  ASSUME lastBatchNonce \in [Tokens -> Nat], NEW b \in B!Batches,
         b > lastBatchNonce[BatchToken[b]],
         lastBatchNonce' = [lastBatchNonce EXCEPT ![BatchToken[b]] = b]
  PROVE  Executed' = Executed \cup
           {c \in Bridge!Batches : BatchToken[c] = BatchToken[b] /\ c <= b}
  BY DEF Executed, B!BatchExecuted, B!Batches, Bridge!Batches

LEMMA InitRefines == Init => Bridge!Init
  BY DEF Init, B!Init, V!Init, Bridge!Init, Executed, B!BatchExecuted,
         B!Batches

LEMMA StepRefines == Inv /\ [Next]_vars => [Bridge!Next]_Bridge!vars
  <1> SUFFICES ASSUME Inv, [Next]_vars PROVE [Bridge!Next]_Bridge!vars
    OBVIOUS
  <1>1. ASSUME NEW r \in Relayers, Orchestrate(r)
        PROVE  UNCHANGED Bridge!vars
    BY <1>1, PassFrame DEF chainVars, Bridge!vars, Executed, B!BatchExecuted
  <1>2. ASSUME NEW tx \in mempool, IsBatchTx(tx), B!Mine(tx),
               UNCHANGED <<valsetOnly, phase>>
        PROVE  [Bridge!Next]_Bridge!vars
    <2>1. UNCHANGED <<created, signed, latest, confirmed, valsetNonce>>
      BY <1>2 DEF B!Mine, B!cosmosVars, valsetOnly
    <2>2. CASE /\ tx.batch > lastBatchNonce[BatchToken[tx.batch]]
               /\ tx.batch \in signed
               /\ tx.vs = valsetNonce
      <3>1. tx.batch \in B!Batches
        BY <2>2 DEF Inv
      <3>2. Executed' = Executed \cup {c \in Bridge!Batches :
                           BatchToken[c] = BatchToken[tx.batch] /\ c <= tx.batch}
        BY <1>2, <2>2, <3>1, ExecutedStep DEF Inv, B!Mine
      <3>3. tx.batch \notin Executed
        BY <2>2, <3>1 DEF Executed, B!BatchExecuted, Inv, B!Batches
      <3>4. Bridge!ExecuteBatch(tx.batch)
        BY <2>1, <2>2, <3>2, <3>3 DEF Bridge!ExecuteBatch
      <3>. QED BY <3>1, <3>4 DEF Bridge!Next, Bridge!Batches, B!Batches
    <2>3. CASE ~ /\ tx.batch > lastBatchNonce[BatchToken[tx.batch]]
                 /\ tx.batch \in signed
                 /\ tx.vs = valsetNonce
      BY <1>2, <2>1, <2>3 DEF B!Mine, Bridge!vars, Executed, B!BatchExecuted
    <2>. QED BY <2>2, <2>3
  <1>3. ASSUME NEW tx \in mempool, ~IsBatchTx(tx), V!Mine(tx),
               UNCHANGED <<batchOnly, phase>>
        PROVE  [Bridge!Next]_Bridge!vars
    <2>1. UNCHANGED <<created, signed, lastBatchNonce, latest, confirmed>>
      BY <1>3 DEF V!Mine, V!cosmosVars, batchOnly
    <2>2. CASE tx.old = valsetNonce /\ tx.new > valsetNonce
      <3>1. tx.new \in confirmed
        BY <1>3 DEF Inv
      <3>2. Bridge!UpdateValset(tx.new)
        BY <1>3, <2>1, <2>2, <3>1 DEF V!Mine, Bridge!UpdateValset, Executed,
                                      B!BatchExecuted
      <3>. QED BY <3>1, <3>2 DEF Inv, Bridge!Next
    <2>3. CASE ~(tx.old = valsetNonce /\ tx.new > valsetNonce)
      BY <1>3, <2>1, <2>3 DEF V!Mine, Bridge!vars, Executed, B!BatchExecuted
    <2>. QED BY <2>2, <2>3
  <1>4. CASE Cosmos
    <2>1. CASE B!CreateBatch /\ UNCHANGED <<valsetOnly, phase>>
      BY <2>1 DEF B!CreateBatch, B!ethVars, valsetOnly, Bridge!Next,
                 Bridge!CreateBatch, Executed, B!BatchExecuted
    <2>2. ASSUME NEW b \in B!Batches,
                 B!Confirm(b) /\ UNCHANGED <<valsetOnly, phase>>
          PROVE  [Bridge!Next]_Bridge!vars
      <3>1. Bridge!SignBatch(b)
        BY <2>2 DEF B!Confirm, B!ethVars, valsetOnly, Bridge!SignBatch,
                   Executed, B!BatchExecuted
      <3>. QED BY <3>1 DEF Bridge!Next, B!Batches, Bridge!Batches
    <2>3. CASE B!ObserveExecuted /\ UNCHANGED <<valsetOnly, phase>>
      BY <2>3 DEF B!ObserveExecuted, B!ethVars, valsetOnly, Bridge!vars,
                 Executed, B!BatchExecuted
    <2>4. CASE V!CreateValset /\ UNCHANGED <<batchOnly, phase>>
      BY <2>4 DEF V!CreateValset, V!ethVars, batchOnly, Bridge!Next,
                 Bridge!CreateValset, Executed, B!BatchExecuted
    <2>5. ASSUME NEW v \in 1..NumValsets,
                 V!Confirm(v) /\ UNCHANGED <<batchOnly, phase>>
          PROVE  [Bridge!Next]_Bridge!vars
      <3>1. Bridge!ConfirmValset(v)
        BY <2>5 DEF V!Confirm, V!ethVars, batchOnly, Bridge!ConfirmValset,
                   Executed, B!BatchExecuted
      <3>. QED BY <3>1 DEF Bridge!Next
    <2>. QED BY <1>4, <2>1, <2>2, <2>3, <2>4, <2>5 DEF Cosmos
  <1>5. CASE UNCHANGED vars
    BY <1>5 DEF vars, batchOnly, valsetOnly, Bridge!vars, Executed,
               B!BatchExecuted
  <1>. QED BY <1>1, <1>2, <1>3, <1>4, <1>5 DEF Next, Mine

(* The orchestrators implement the abstract bridge: whatever the         *)
(* interleaving of valset passes, batch passes, competing orchestrators, *)
(* mining and failed RPCs, the contract executes only signed batches,    *)
(* never undoes an execution, and moves its valset only forward to a     *)
(* confirmed one.                                                         *)
THEOREM Refinement == Spec => ImplementsBridge
  <1>1. Spec => []Inv
    BY InitInv, InvStep, PTL DEF Spec
  <1>. QED BY <1>1, InitRefines, StepRefines, PTL
           DEF Spec, ImplementsBridge, Bridge!Spec
=============================================================================
