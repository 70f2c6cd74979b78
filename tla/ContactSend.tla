---------------------------- MODULE ContactSend ----------------------------
(***************************************************************************)
(* One call of Contact::create_and_send_transaction: the optional account *)
(* and chain-id lookups of maybe_get_optional_tx_info and get_account_info *)
(* and the timeout-budgeted loop of Contact::retry_on_block, against a     *)
(* Cosmos node that holds the signed transaction in its mempool or commits *)
(* it.  JsonRpcClient::request_method is modelled by the error class it    *)
(* returns; the wire format is abstracted away.                            *)
(*                                                                         *)
(* Time is the monotonic clock read by Instant::now(), in whole seconds:   *)
(* a request lasts between 0 and its per-attempt timeout, the backoff      *)
(* delay_for lasts Backoff = 1, and between the two Instant::now() reads   *)
(* of one loop iteration the clock may cross one tick.  Only time measured *)
(* from start, the instant retry_on_block begins, is observed, so the      *)
(* lookups before it do not advance the clock.                             *)
(***************************************************************************)
EXTENDS Naturals

CONSTANTS
    Timeout,        \* self.timeout of the Contact, the caller's budget
    ServerTimeout   \* the node's own wait for inclusion in Block mode

ASSUME TimeAssumption ==
    /\ Timeout \in Nat \ {0}
    /\ ServerTimeout \in Nat \ {0}

VARIABLES
    pc,        \* the await the call is at
    seq,       \* the sequence the transaction is signed with
    start,     \* Instant taken when retry_on_block begins
    now,       \* the monotonic clock
    budget,    \* the timeout passed to the next request_method
    arrival,   \* what the node did with the current request
    res,       \* the result of the last request_method
    acctSeq,   \* node: the sequence of the account (committed txs)
    txState,   \* node: where the signed transaction is
    accountExists  \* node: whether the account has ever been funded

vars == <<pc, seq, start, now, budget, arrival, res, acctSeq, txState,
          accountExists>>

Backoff == 1   \* delay_for(Duration::from_secs(1))

PCs == {"account", "blank", "chainid", "send", "respond", "check",
        "timeleft", "sleep", "done", "panicked"}

(* The classes of Result<_, JsonRpcError> request_method and the lookups  *)
(* return.  AppError and BadJson are both JsonRpcError::BadStruct: the    *)
(* first carries the raw_log of a TxSendErrorResponse, the body the node  *)
(* sends when CheckTx rejects the transaction, the second a body that     *)
(* fits neither type.                                                     *)
Results == {"None", "Ok", "Disconnected", "ConnectError", "ClientTimeout",
            "BadResponse", "AppError", "BadJson", "NoToken"}

(* The Err variants the while-let of retry_on_block loops on.             *)
Retryable == {"Disconnected", "BadResponse", "AppError", "BadJson"}

Elapsed == now - start

TypeOK ==
    /\ pc \in PCs
    /\ seq \in Nat
    /\ start \in Nat
    /\ now \in Nat
    /\ start <= now
    /\ budget \in 0..Timeout
    /\ arrival \in {"lost", "accepted", "rejected"}
    /\ res \in Results
    /\ acctSeq \in Nat
    /\ txState \in {"none", "mempool", "committed"}
    /\ accountExists \in BOOLEAN

(* The caller passes a sequence or leaves it to be looked up; a passed    *)
(* sequence may be one the account has already used.                      *)
Init ==
    /\ accountExists \in BOOLEAN
    /\ acctSeq = 1
    /\ txState = "none"
    /\ \/ pc = "account" /\ seq = 0
       \/ pc = "chainid" /\ seq \in {0, 1}
    /\ start = 0
    /\ now = 0
    /\ budget = Timeout
    /\ arrival = "lost"
    /\ res = "None"

Finish(r) == pc' = "done" /\ res' = r

node == <<acctSeq, txState, accountExists>>

(* get_account_info: the first request parses the account; a BadStruct is *)
(* retried once as a Blank body, which maybe_get_optional_tx_info turns   *)
(* into NoToken.  Any other error returns through ?.  The BadStruct comes *)
(* from a missing account, and also from an existing one whose body does  *)
(* not parse as CosmosAccountInfo (another account type, or a body cut    *)
(* short): Blank {} accepts any object.                                   *)
GetAccountInfo ==
    /\ pc = "account"
    /\ \/ /\ accountExists
          /\ seq' = acctSeq
          /\ pc' = "chainid"
          /\ UNCHANGED res
       \/ /\ pc' = "blank"
          /\ UNCHANGED <<seq, res>>
       \/ /\ \E r \in {"Disconnected", "ConnectError", "ClientTimeout",
                       "BadResponse"} : Finish(r)
          /\ UNCHANGED seq
    /\ UNCHANGED <<start, now, budget, arrival, node>>

GetAccountInfoBlank ==
    /\ pc = "blank"
    /\ \E r \in {"NoToken", "Disconnected", "ConnectError", "BadJson"} :
          Finish(r)
    /\ UNCHANGED <<seq, start, now, budget, arrival, node>>

(* The StdSignMsg is signed with seq in Block mode and handed to         *)
(* retry_on_block, which takes start and sends with the full timeout.     *)
StartRetry ==
    /\ pc' = "send"
    /\ start' = now
    /\ budget' = Timeout

(* get_latest_block for the chain id, which is then signed into the tx.  *)
GetLatestBlock ==
    /\ pc = "chainid"
    /\ \/ StartRetry /\ UNCHANGED res
       \/ /\ \E r \in {"Disconnected", "ConnectError", "BadResponse"} :
                Finish(r)
          /\ UNCHANGED <<start, budget>>
    /\ UNCHANGED <<seq, now, arrival, node>>

(* request_method("txs", tx, budget) reaching the node: CheckTx admits    *)
(* the transaction to the mempool only if it is new and signed with the   *)
(* account's sequence, and rejects it otherwise; the connection may also  *)
(* drop before the node sees it.                                          *)
SendRequest ==
    /\ pc = "send"
    /\ \/ /\ arrival' = "lost"
          /\ UNCHANGED txState
       \/ /\ txState = "none"
          /\ seq = acctSeq
          /\ arrival' = "accepted"
          /\ txState' = "mempool"
       \/ /\ txState # "none" \/ seq # acctSeq
          /\ arrival' = "rejected"
          /\ UNCHANGED txState
    /\ pc' = "respond"
    /\ UNCHANGED <<seq, start, now, budget, res, acctSeq, accountExists>>

(* The answer to that request after d seconds, d at most the per-attempt  *)
(* timeout.  In Block mode the node answers Ok once the transaction is    *)
(* committed, and an error status once its own ServerTimeout has passed   *)
(* with the transaction still in the mempool; the HTTP client gives up at *)
(* the per-attempt timeout; a connection may drop at any moment; a        *)
(* rejected transaction is answered with a TxSendErrorResponse.           *)
Outcome(d, r) ==
    \/ r \in {"Disconnected", "ConnectError"}
    \/ r = "ClientTimeout" /\ d = budget
                          /\ (arrival # "accepted" \/ txState = "mempool")
    \/ arrival = "rejected" /\ r = "AppError"
    \/ arrival = "accepted" /\ r = "Ok" /\ txState = "committed"
                            /\ d <= ServerTimeout
    \/ arrival = "accepted" /\ r = "BadResponse" /\ txState = "mempool"
                            /\ d = ServerTimeout
    \/ arrival = "accepted" /\ r = "BadJson"

ReceiveResponse ==
    /\ pc = "respond"
    /\ \E d \in 0..budget, r \in Results :
          /\ Outcome(d, r)
          /\ now' = now + d
          /\ res' = r
    /\ pc' = "check"
    /\ UNCHANGED <<seq, start, budget, arrival, node>>

(* The node commits a transaction of its mempool, at any moment.          *)
Commit ==
    /\ txState = "mempool"
    /\ txState' = "committed"
    /\ acctSeq' = acctSeq + 1
    /\ UNCHANGED <<pc, seq, start, now, budget, arrival, res, accountExists>>

(* The head of the while-let: a result outside Retryable is returned; a   *)
(* retryable one is returned once Instant::now() - start > self.timeout.  *)
CheckRetry ==
    /\ pc = "check"
    /\ IF res \notin Retryable \/ Elapsed > Timeout
          THEN pc' = "done"
          ELSE pc' = "timeleft"
    /\ UNCHANGED <<seq, start, now, budget, arrival, res, node>>

(* Variants of ComputeTimeLeft with a plausible bug, for mutation runs:   *)
(* the retry is sent with the full self.timeout, or with the time left    *)
(* counted as if the backoff were still to come after the deadline.       *)
ComputeTimeLeftFullTimeout ==
    /\ pc = "timeleft"
    /\ \E gap \in {0, 1} :
          /\ now' = now + gap
          /\ IF now' - start > Timeout
                THEN /\ pc' = "panicked"
                     /\ UNCHANGED budget
                ELSE /\ pc' = "sleep"
                     /\ budget' = Timeout
    /\ UNCHANGED <<seq, start, arrival, res, node>>

ComputeTimeLeftPlusBackoff ==
    /\ pc = "timeleft"
    /\ \E gap \in {0, 1} :
          /\ now' = now + gap
          /\ IF now' - start > Timeout
                THEN /\ pc' = "panicked"
                     /\ UNCHANGED budget
                ELSE /\ pc' = "sleep"
                     /\ budget' = Timeout - (now' - start) + Backoff
    /\ UNCHANGED <<seq, start, arrival, res, node>>

(* time_left = self.timeout - (Instant::now() - start), a second read of  *)
(* the clock; a Duration subtraction below zero panics.                   *)
ComputeTimeLeft ==
    /\ pc = "timeleft"
    /\ \E gap \in {0, 1} :
          /\ now' = now + gap
          /\ IF now' - start > Timeout
                THEN /\ pc' = "panicked"
                     /\ UNCHANGED budget
                ELSE /\ pc' = "sleep"
                     /\ budget' = Timeout - (now' - start)
    /\ UNCHANGED <<seq, start, arrival, res, node>>

(* delay_for(1s), then the next request_method with time_left.            *)
Backoff1 ==
    /\ pc = "sleep"
    /\ now' = now + Backoff
    /\ pc' = "send"
    /\ UNCHANGED <<seq, start, budget, arrival, res, node>>

Next ==
    \/ GetAccountInfo
    \/ GetAccountInfoBlank
    \/ GetLatestBlock
    \/ SendRequest
    \/ ReceiveResponse
    \/ Commit
    \/ CheckRetry
    \/ ComputeTimeLeft
    \/ Backoff1

Spec == Init /\ [][Next]_vars

-----------------------------------------------------------------------------
(* retry_on_block keeps the caller's deadline up to one backoff: when the *)
(* loop returns, at most Timeout + Backoff seconds have passed since      *)
(* start, however many times the node timed out, dropped the connection   *)
(* or answered with a body that does not parse, because every retry is    *)
(* sent with the time left rather than with self.timeout.                  *)
ReturnsWithinBackoffOfDeadline ==
    pc = "done" => Elapsed <= Timeout + Backoff

(* The caller's deadline is honoured exactly (§4.4, §5 of the spec: the   *)
(* loop sleeps, then computes the time left, and exceeding the timeout    *)
(* surfaces as an error).  retry_on_block computes time_left before the   *)
(* one-second delay_for, so the last attempt may end a second late.        *)
ReturnsByDeadline ==
    pc = "done" => Elapsed <= Timeout

(* The Duration subtraction self.timeout - (Instant::now() - start) never *)
(* underflows: the elapsed time it reads is the one just checked.  The    *)
(* code reads the clock a second time, after the check.                   *)
NoDurationUnderflow ==
    pc # "panicked"

(* NoToken is reported only for an account with no info on chain: the    *)
(* doc comment of get_account_info says an Ok(None) result indicates an   *)
(* account that has no tokens or was never seen.  Any BadStruct answer,   *)
(* also one for a funded account whose body has another layout, is read   *)
(* again as a Blank and becomes Ok(None).                                  *)
NoTokenMeansUnfunded ==
    pc = "done" /\ res = "NoToken" => ~accountExists

(* Once the elapsed time meets or exceeds the timeout, the last error is  *)
(* returned and no further attempt is made (§4.4).  retry_on_block tests  *)
(* Instant::now() - start > self.timeout, and at exactly the timeout      *)
(* sends one more request with a zero budget.                             *)
NoAttemptAtDeadline ==
    [][pc = "check" /\ Elapsed >= Timeout => pc' = "done"]_vars

(* An explicit application-level error from the node (a                   *)
(* TxSendErrorResponse, such as a transaction already in the mempool or a *)
(* wrong sequence) is returned without retrying (§4.4, §8 of the spec).   *)
(* request_method maps it to BadStruct, which retry_on_block retries.     *)
AppErrorNotRetried ==
    [][pc = "check" /\ res = "AppError" => pc' = "done"]_vars
=============================================================================
