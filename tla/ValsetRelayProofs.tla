------------------------- MODULE ValsetRelayProofs -------------------------
(***************************************************************************)
(* Proofs about the valset relaying model: type correctness and that an   *)
(* Ok returned by send_eth_valset_update is always backed by progress of  *)
(* the contract's valset, for every set of relayers and every bound.      *)
(***************************************************************************)
EXTENDS ValsetRelay, TLAPS

USE ValsetAssumption

(* The stages of a pass after the latest valset was found to be newer,   *)
(* and after the transaction was broadcast.                               *)
Updating == {"confirms", "before", "estimate", "send", "wait", "after"}
Waiting == {"wait", "after"}

(* The inductive strengthening of OkMeansAdvanced: old_valset is never   *)
(* ahead of the contract; a pass past the newer-valset check has          *)
(* new > old; a broadcast update carries the pass's old and new; once it  *)
(* has left the mempool the contract is past old.                         *)
RelayerInv(r) ==
    /\ old[r] <= valsetNonce
    /\ result[r] = "ok" => valsetNonce > old[r]
    /\ pc[r] \in Updating => new[r] > old[r]
    /\ pc[r] \in Waiting => sent[r].old = old[r] /\ sent[r].new = new[r]
    /\ pc[r] = "wait" => sent[r] \in mempool \/ valsetNonce > old[r]
    /\ pc[r] = "after" => valsetNonce > old[r]

Inv == TypeOK /\ \A r \in Relayers : RelayerInv(r)

-----------------------------------------------------------------------------
LEMMA NoTxType == Relayers # {} => NoTx \in Txs
  BY DEF NoTx, Txs, Valsets

LEMMA InitInv == Init => Inv
  <1> SUFFICES ASSUME Init PROVE Inv
    OBVIOUS
  <1>1. TypeOK
    <2>1. sent \in [Relayers -> Txs]
      <3>1. CASE Relayers = {}
        BY <3>1 DEF Init
      <3>2. CASE Relayers # {}
        BY <3>2, NoTxType DEF Init
      <3>. QED BY <3>1, <3>2
    <2>. QED BY <2>1 DEF Init, TypeOK, Valsets, PCs
  <1>2. \A r \in Relayers : RelayerInv(r)
    <2> SUFFICES ASSUME NEW r \in Relayers PROVE RelayerInv(r)
      OBVIOUS
    <2>1. pc[r] = "idle" /\ old[r] = 0 /\ result[r] = "none" /\ valsetNonce = 0
      BY DEF Init
    <2>. QED BY <2>1 DEF RelayerInv, Updating, Waiting
  <1>. QED BY <1>1, <1>2 DEF Inv

(* The steps of the environment and of the other relayers leave a        *)
(* relayer's part of the invariant alone, as long as the contract does    *)
(* not move and nothing leaves the mempool.                               *)
LEMMA Frame ==
  ASSUME NEW s \in Relayers, RelayerInv(s),
         valsetNonce' = valsetNonce, mempool \subseteq mempool',
         pc'[s] = pc[s], old'[s] = old[s], new'[s] = new[s],
         sent'[s] = sent[s], result'[s] = result[s]
  PROVE  RelayerInv(s)'
  BY DEF RelayerInv

LEMMA TypeStep == TypeOK /\ [Next]_vars => TypeOK'
  <1> SUFFICES ASSUME TypeOK, [Next]_vars PROVE TypeOK'
    OBVIOUS
  <1>1. ASSUME NEW r \in Relayers, FindLatestValset(r) PROVE TypeOK'
    BY <1>1 DEF FindLatestValset, Return, Goto, Fault, TypeOK, PCs, Valsets,
               cosmosVars, ethVars
  <1>2. ASSUME NEW r \in Relayers, GetLatestValset(r) PROVE TypeOK'
    BY <1>2 DEF GetLatestValset, Return, Goto, Fault, TypeOK, PCs, Valsets,
               cosmosVars, ethVars
  <1>3. ASSUME NEW r \in Relayers, OrderValsetSigs(r) PROVE TypeOK'
    BY <1>3 DEF OrderValsetSigs, Return, Goto, Fault, TypeOK, PCs,
               cosmosVars, ethVars
  <1>4. ASSUME NEW r \in Relayers, GetValsetNonceBefore(r) PROVE TypeOK'
    BY <1>4 DEF GetValsetNonceBefore, Return, Goto, Fault, TypeOK, PCs,
               cosmosVars, ethVars
  <1>5. ASSUME NEW r \in Relayers, EstimateGas(r) PROVE TypeOK'
    BY <1>5 DEF EstimateGas, Return, Goto, Fault, TypeOK, PCs,
               cosmosVars, ethVars
  <1>6. ASSUME NEW r \in Relayers, SendTransaction(r) PROVE TypeOK'
    <2>1. UpdateTx(r) \in Txs
      BY DEF UpdateTx, Txs, TypeOK
    <2>. QED BY <1>6, <2>1 DEF SendTransaction, Return, Goto, Fault, TypeOK,
                PCs, cosmosVars
  <1>7. ASSUME NEW r \in Relayers, WaitForTransaction(r) PROVE TypeOK'
    BY <1>7 DEF WaitForTransaction, Return, Goto, TypeOK, PCs,
               cosmosVars, ethVars
  <1>8. ASSUME NEW r \in Relayers, GetValsetNonceAfter(r) PROVE TypeOK'
    BY <1>8 DEF GetValsetNonceAfter, Return, Fault, TypeOK, PCs,
               cosmosVars, ethVars
  <1>9. CASE CreateValset
    BY <1>9 DEF CreateValset, TypeOK, Valsets, ethVars, relayerVars
  <1>10. ASSUME NEW v \in 1..NumValsets, Confirm(v) PROVE TypeOK'
    BY <1>10 DEF Confirm, TypeOK, ethVars, relayerVars
  <1>11. ASSUME NEW tx \in mempool, Mine(tx) PROVE TypeOK'
    BY <1>11 DEF Mine, TypeOK, Txs, Valsets, cosmosVars, relayerVars
  <1>12. CASE UNCHANGED vars
    BY <1>12 DEF vars, TypeOK, cosmosVars, ethVars, relayerVars
  <1>. QED BY <1>1, <1>2, <1>3, <1>4, <1>5, <1>6, <1>7, <1>8, <1>9, <1>10,
              <1>11, <1>12 DEF Next, RelayerStep

(* A step of relayer r keeps the invariant of every relayer s: of s = r  *)
(* by the code of the step, of the others by Frame.                       *)
LEMMA FindLatestValsetInv ==
  ASSUME Inv, NEW r \in Relayers, FindLatestValset(r), NEW s \in Relayers
  PROVE  RelayerInv(s)'
  <1>1. CASE s = r
    <2>1. CASE /\ old' = [old EXCEPT ![r] = valsetNonce]
               /\ Goto(r, "latest")
               /\ result' = [result EXCEPT ![r] = "none"]
      <3>1. /\ old'[r] = valsetNonce /\ pc'[r] = "latest"
            /\ result'[r] = "none" /\ valsetNonce' = valsetNonce
        BY <1>1, <2>1 DEF FindLatestValset, Goto, Inv, TypeOK, ethVars
      <3>2. RelayerInv(r)'
        BY <3>1 DEF Inv, TypeOK, Valsets, RelayerInv, Updating, Waiting
      <3>. QED BY <1>1, <3>2
    <2>2. CASE Fault /\ Return(r, "none") /\ UNCHANGED old
      BY <1>1, <2>2 DEF FindLatestValset, Return, Inv, RelayerInv, TypeOK,
                       Updating, Waiting, ethVars
    <2>. QED BY <2>1, <2>2 DEF FindLatestValset
  <1>2. CASE s # r
    <2>1. valsetNonce' = valsetNonce /\ mempool \subseteq mempool'
      BY DEF FindLatestValset, ethVars
    <2>2. /\ pc'[s] = pc[s] /\ old'[s] = old[s] /\ new'[s] = new[s]
         /\ sent'[s] = sent[s] /\ result'[s] = result[s]
      BY <1>2 DEF FindLatestValset, Return, Goto, Fault, Inv, TypeOK
    <2>. QED BY <2>1, <2>2, Frame DEF Inv
  <1>. QED BY <1>1, <1>2

LEMMA GetLatestValsetInv ==
  ASSUME Inv, NEW r \in Relayers, GetLatestValset(r), NEW s \in Relayers
  PROVE  RelayerInv(s)'
  <1>1. CASE s = r
    BY <1>1 DEF Inv, RelayerInv, GetLatestValset, Return, Goto, Fault, TypeOK,
               Updating, Waiting,
               ethVars, cosmosVars
  <1>2. CASE s # r
    <2>1. valsetNonce' = valsetNonce /\ mempool \subseteq mempool'
      BY DEF GetLatestValset, ethVars
    <2>2. /\ pc'[s] = pc[s] /\ old'[s] = old[s] /\ new'[s] = new[s]
         /\ sent'[s] = sent[s] /\ result'[s] = result[s]
      BY <1>2 DEF GetLatestValset, Return, Goto, Fault, Inv, TypeOK
    <2>. QED BY <2>1, <2>2, Frame DEF Inv
  <1>. QED BY <1>1, <1>2

LEMMA OrderValsetSigsInv ==
  ASSUME Inv, NEW r \in Relayers, OrderValsetSigs(r), NEW s \in Relayers
  PROVE  RelayerInv(s)'
  <1>1. CASE s = r
    BY <1>1 DEF Inv, RelayerInv, OrderValsetSigs, Return, Goto, Fault, TypeOK,
               Updating, Waiting,
               ethVars, cosmosVars
  <1>2. CASE s # r
    <2>1. valsetNonce' = valsetNonce /\ mempool \subseteq mempool'
      BY DEF OrderValsetSigs, ethVars
    <2>2. /\ pc'[s] = pc[s] /\ old'[s] = old[s] /\ new'[s] = new[s]
         /\ sent'[s] = sent[s] /\ result'[s] = result[s]
      BY <1>2 DEF OrderValsetSigs, Return, Goto, Fault, Inv, TypeOK
    <2>. QED BY <2>1, <2>2, Frame DEF Inv
  <1>. QED BY <1>1, <1>2

LEMMA GetValsetNonceBeforeInv ==
  ASSUME Inv, NEW r \in Relayers, GetValsetNonceBefore(r), NEW s \in Relayers
  PROVE  RelayerInv(s)'
  <1>1. CASE s = r
    <2>1. CASE valsetNonce # old[r] /\ Return(r, "ok")
      <3>1. valsetNonce > old[r]
        BY <2>1 DEF Inv, RelayerInv, TypeOK, Valsets
      <3>. QED BY <1>1, <2>1, <3>1 DEF GetValsetNonceBefore, Return, Inv,
                  RelayerInv, TypeOK, Updating, Waiting, ethVars
    <2>2. CASE valsetNonce = old[r] /\ Goto(r, "estimate") /\ UNCHANGED result
      BY <1>1, <2>2 DEF GetValsetNonceBefore, Goto, Inv, RelayerInv, TypeOK,
                       Updating, Waiting, ethVars
    <2>3. CASE Fault /\ Return(r, "err")
      BY <1>1, <2>3 DEF GetValsetNonceBefore, Return, Inv, RelayerInv,
                       TypeOK, Updating, Waiting, ethVars
    <2>. QED BY <2>1, <2>2, <2>3 DEF GetValsetNonceBefore
  <1>2. CASE s # r
    <2>1. valsetNonce' = valsetNonce /\ mempool \subseteq mempool'
      BY DEF GetValsetNonceBefore, ethVars
    <2>2. /\ pc'[s] = pc[s] /\ old'[s] = old[s] /\ new'[s] = new[s]
         /\ sent'[s] = sent[s] /\ result'[s] = result[s]
      BY <1>2 DEF GetValsetNonceBefore, Return, Goto, Fault, Inv, TypeOK
    <2>. QED BY <2>1, <2>2, Frame DEF Inv
  <1>. QED BY <1>1, <1>2

LEMMA EstimateGasInv ==
  ASSUME Inv, NEW r \in Relayers, EstimateGas(r), NEW s \in Relayers
  PROVE  RelayerInv(s)'
  <1>1. CASE s = r
    BY <1>1 DEF Inv, RelayerInv, EstimateGas, Return, Goto, Fault, TypeOK,
               Updating, Waiting,
               ethVars, cosmosVars
  <1>2. CASE s # r
    <2>1. valsetNonce' = valsetNonce /\ mempool \subseteq mempool'
      BY DEF EstimateGas, ethVars
    <2>2. /\ pc'[s] = pc[s] /\ old'[s] = old[s] /\ new'[s] = new[s]
         /\ sent'[s] = sent[s] /\ result'[s] = result[s]
      BY <1>2 DEF EstimateGas, Return, Goto, Fault, Inv, TypeOK
    <2>. QED BY <2>1, <2>2, Frame DEF Inv
  <1>. QED BY <1>1, <1>2

LEMMA SendTransactionInv ==
  ASSUME Inv, NEW r \in Relayers, SendTransaction(r), NEW s \in Relayers
  PROVE  RelayerInv(s)'
  <1>1. CASE s = r
    BY <1>1 DEF Inv, RelayerInv, SendTransaction, Return, Goto, Fault, TypeOK,
               Updating, Waiting,
               ethVars, cosmosVars, UpdateTx
  <1>2. CASE s # r
    <2>1. valsetNonce' = valsetNonce /\ mempool \subseteq mempool'
      BY DEF SendTransaction, ethVars
    <2>2. /\ pc'[s] = pc[s] /\ old'[s] = old[s] /\ new'[s] = new[s]
         /\ sent'[s] = sent[s] /\ result'[s] = result[s]
      BY <1>2 DEF SendTransaction, Return, Goto, Fault, Inv, TypeOK
    <2>. QED BY <2>1, <2>2, Frame DEF Inv
  <1>. QED BY <1>1, <1>2

LEMMA WaitForTransactionInv ==
  ASSUME Inv, NEW r \in Relayers, WaitForTransaction(r), NEW s \in Relayers
  PROVE  RelayerInv(s)'
  <1>1. CASE s = r
    BY <1>1 DEF Inv, RelayerInv, WaitForTransaction, Return, Goto, TypeOK,
               Updating, Waiting,
               ethVars, cosmosVars
  <1>2. CASE s # r
    <2>1. valsetNonce' = valsetNonce /\ mempool \subseteq mempool'
      BY DEF WaitForTransaction, ethVars
    <2>2. /\ pc'[s] = pc[s] /\ old'[s] = old[s] /\ new'[s] = new[s]
         /\ sent'[s] = sent[s] /\ result'[s] = result[s]
      BY <1>2 DEF WaitForTransaction, Return, Goto, Inv, TypeOK
    <2>. QED BY <2>1, <2>2, Frame DEF Inv
  <1>. QED BY <1>1, <1>2

LEMMA GetValsetNonceAfterInv ==
  ASSUME Inv, NEW r \in Relayers, GetValsetNonceAfter(r), NEW s \in Relayers
  PROVE  RelayerInv(s)'
  <1>1. CASE s = r
    BY <1>1 DEF Inv, RelayerInv, GetValsetNonceAfter, Return, Fault, TypeOK,
               Updating, Waiting,
               ethVars, cosmosVars
  <1>2. CASE s # r
    <2>1. valsetNonce' = valsetNonce /\ mempool \subseteq mempool'
      BY DEF GetValsetNonceAfter, ethVars
    <2>2. /\ pc'[s] = pc[s] /\ old'[s] = old[s] /\ new'[s] = new[s]
         /\ sent'[s] = sent[s] /\ result'[s] = result[s]
      BY <1>2 DEF GetValsetNonceAfter, Return, Fault, Inv, TypeOK
    <2>. QED BY <2>1, <2>2, Frame DEF Inv
  <1>. QED BY <1>1, <1>2

(* Mining moves the contract only forward; and when it takes a relayer's *)
(* own update out of the mempool, the contract ends past that update's    *)
(* old nonce: the update took effect, or it reverted because the contract *)
(* had already left old, or was already at new or beyond.                 *)
LEMMA MineInv ==
  ASSUME Inv, NEW tx \in mempool, Mine(tx), NEW s \in Relayers
  PROVE  RelayerInv(s)'
  <1>1. valsetNonce' >= valsetNonce /\ valsetNonce' \in Valsets
    BY DEF Mine, Inv, TypeOK, Txs, Valsets
  <1>2. /\ pc' = pc /\ old' = old /\ new' = new /\ sent' = sent
        /\ result' = result /\ mempool' = mempool \ {tx}
    BY DEF Mine, relayerVars
  <1>3. ASSUME pc[s] = "wait", sent[s] \notin mempool'
        PROVE  valsetNonce' > old[s]
    <2>1. CASE sent[s] \notin mempool
      BY <1>1, <1>3, <2>1 DEF Inv, RelayerInv, TypeOK, Valsets
    <2>2. CASE sent[s] \in mempool
      <3>1. sent[s] = tx
        BY <1>2, <1>3, <2>2
      <3>2. tx.old = old[s] /\ tx.new = new[s] /\ new[s] > old[s]
        BY <1>3, <3>1 DEF Inv, RelayerInv, Updating, Waiting
      <3>3. old[s] <= valsetNonce /\ old[s] \in Nat /\ new[s] \in Nat
        BY DEF Inv, RelayerInv, TypeOK, Valsets
      <3>. QED BY <3>2, <3>3 DEF Mine, Inv, TypeOK, Valsets
    <2>. QED BY <2>1, <2>2
  <1>. QED BY <1>1, <1>2, <1>3 DEF Inv, RelayerInv, TypeOK, Valsets

(* Inv is inductive.                                                      *)
LEMMA InvStep == Inv /\ [Next]_vars => Inv'
  <1> SUFFICES ASSUME Inv, [Next]_vars PROVE Inv'
    OBVIOUS
  <1>1. TypeOK'
    BY TypeStep DEF Inv
  <1>2. ASSUME NEW s \in Relayers PROVE RelayerInv(s)'
    <2>1. CASE \E r \in Relayers : RelayerStep(r)
      BY <2>1, FindLatestValsetInv, GetLatestValsetInv, OrderValsetSigsInv,
         GetValsetNonceBeforeInv, EstimateGasInv, SendTransactionInv,
         WaitForTransactionInv, GetValsetNonceAfterInv DEF RelayerStep
    <2>2. CASE CreateValset \/ \E v \in 1..NumValsets : Confirm(v)
      <3>1. /\ valsetNonce' = valsetNonce /\ mempool' = mempool
            /\ pc' = pc /\ old' = old /\ new' = new /\ sent' = sent
            /\ result' = result
        BY <2>2 DEF CreateValset, Confirm, ethVars, relayerVars
      <3>. QED BY <3>1, Frame DEF Inv
    <2>3. CASE \E tx \in mempool : Mine(tx)
      BY <2>3, MineInv
    <2>4. CASE UNCHANGED vars
      <3>1. /\ valsetNonce' = valsetNonce /\ mempool' = mempool
            /\ pc' = pc /\ old' = old /\ new' = new /\ sent' = sent
            /\ result' = result
        BY <2>4 DEF vars, ethVars, relayerVars
      <3>. QED BY <3>1, Frame DEF Inv
    <2>. QED BY <2>1, <2>2, <2>3, <2>4 DEF Next
  <1>. QED BY <1>1, <1>2 DEF Inv

(* Every state the competing valset relayers and the two chains reach is *)
(* well typed.                                                            *)
THEOREM ValsetTypeCorrect == Spec => []TypeOK
  <1>1. Init => Inv
    BY InitInv
  <1>2. Inv /\ [Next]_vars => Inv'
    BY InvStep
  <1>3. Inv => TypeOK
    BY DEF Inv
  <1>. QED BY <1>1, <1>2, <1>3, PTL DEF Spec

(* An Ok from send_eth_valset_update, whether from the lost-race exit    *)
(* before the send or after wait_for_transaction and the post-submit      *)
(* check, always means the contract's valset nonce is past old_nonce, for *)
(* any number of relayers racing, any interleaving and any bound.          *)
THEOREM OkBackedByProgress == Spec => []OkMeansAdvanced
  <1>1. Inv => OkMeansAdvanced
    BY DEF Inv, RelayerInv, OkMeansAdvanced
  <1>. QED BY <1>1, InitInv, InvStep, PTL DEF Spec
=============================================================================
