------------------------------ MODULE Blockchain ------------------------------
(***************************************************************************)
(* The BlockchainTestEnvironment of src/testing/blockchain/mod.rs: the     *)
(* accounts (balance and nonce), the block list with its current_block     *)
(* index, and the clock, under deploy_contract, call_contract,             *)
(* advance_blocks, advance_time and set_balance.                           *)
(*                                                                         *)
(* generate_contract_address hashes the sender with its nonce; Keccak256  *)
(* is taken as collision-free, so an address is the pair <<sender, nonce>>.*)
(* A transaction's data is never read by the environment, and vm.execute  *)
(* succeeds or returns an error, a choice.  call_contract starts with      *)
(* encode_contract_call, whose body is unimplemented!(): it panics before *)
(* anything changes.  setup_default_accounts gives the Default addresses  *)
(* InitBalance each; gas_price is 1, so a transaction costs GasLimit.     *)
(***************************************************************************)
EXTENDS Integers, Sequences, TLC

CONSTANTS
  Addrs,        \* 20-byte addresses the host uses as senders and targets
  Default,      \* the addresses setup_default_accounts funds
  InitBalance,  \* their balance
  GasLimit,     \* config.gas_limit
  Balances,     \* balances the host passes to set_balance
  MaxNonce,     \* the host stops deploying from an account at this nonce
  MaxBlocks,    \* ... and advancing blocks at this many blocks
  MaxTime       \* ... and advancing time at this timestamp

VARIABLES
  accounts,      \* self.accounts: address -> [balance, nonce]
  blocks,        \* self.blocks: [number, timestamp] each
  currentBlock,  \* self.current_block
  timestamp,     \* self.timestamp
  result,        \* what the last call returned
  deployed       \* ghost: the addresses deploy_contract returned, in order

vars == <<accounts, blocks, currentBlock, timestamp, result, deployed>>

\* setup_genesis_block: block 0 at the clock, which new starts at 0.
Genesis == [number |-> 0, timestamp |-> 0]

\* setup_default_accounts: set_balance of each default address.
DefaultAccounts == [a \in Default |-> [balance |-> InitBalance, nonce |-> 0]]

\* new: the genesis block at the clock, then the default accounts.
Init ==
  /\ accounts = DefaultAccounts
  /\ timestamp = 0
  /\ blocks = << Genesis >>
  /\ currentBlock = 0
  /\ result = "Ok" /\ deployed = <<>>

\* get_nonce: 0 for an address with no account.
GetNonce(a) == IF a \in DOMAIN accounts THEN accounts[a].nonce ELSE 0

\* generate_contract_address(sender, nonce)
GenerateContractAddress(s, n) == <<s, n>>

\* validate_transaction: the first failing check, or "Ok".
ValidateTransaction(tx) ==
  CASE tx.from \notin DOMAIN accounts -> "AccountNotFound"
    [] accounts[tx.from].balance < tx.value + tx.gasLimit * tx.gasPrice -> "InsufficientFunds"
    [] tx.nonce /= accounts[tx.from].nonce -> "InvalidNonce"
    [] OTHER -> "Ok"

\* Mutation: the sender's nonce is not bumped.
UpdateStateKeepNonce(accs, tx) ==
  LET paid == [accs EXCEPT ![tx.from].balance = @ - (tx.value + tx.gasLimit * tx.gasPrice)]
  IN  IF tx.to /= "None" /\ tx.to \in DOMAIN paid
      THEN [paid EXCEPT ![tx.to].balance = @ + tx.value] ELSE paid

\* update_state: the sender's nonce is bumped and it pays value and gas; a
\* recipient with an account is credited the value.
UpdateState(accs, tx) ==
  LET paid == [accs EXCEPT ![tx.from] = [nonce |-> @.nonce + 1,
                                         balance |-> @.balance - (tx.value + tx.gasLimit * tx.gasPrice)]]
  IN  IF tx.to /= "None" /\ tx.to \in DOMAIN paid
      THEN [paid EXCEPT ![tx.to].balance = @ + tx.value] ELSE paid

\* execute_transaction: validate, run in the VM, update the state; an error
\* of either of the first two returns before update_state.
ExecuteTransaction(tx) ==
  LET err == ValidateTransaction(tx) IN
  IF err /= "Ok" THEN {[res |-> err, accs |-> accounts]}
  ELSE {[res |-> "VmError", accs |-> accounts], [res |-> "Ok", accs |-> UpdateState(accounts, tx)]}

\* deploy_contract(contract, sender): the address from the sender's nonce,
\* and a creation transaction of value 0 at that nonce.
DeployContract(s) ==
  /\ GetNonce(s) < MaxNonce
  /\ LET n == GetNonce(s)
         tx == [from |-> s, to |-> "None", value |-> 0, gasLimit |-> GasLimit,
                gasPrice |-> 1, nonce |-> n]
     IN  \E out \in ExecuteTransaction(tx) :
           /\ accounts' = out.accs /\ result' = out.res
           /\ deployed' = IF out.res = "Ok"
                          THEN Append(deployed, GenerateContractAddress(s, n)) ELSE deployed
  /\ UNCHANGED <<blocks, currentBlock, timestamp>>

\* call_contract: encode_contract_call panics first.
CallContract(a, s) ==
  /\ result' = "Panic"
  /\ UNCHANGED <<accounts, blocks, currentBlock, timestamp, deployed>>

\* get_current_block: blocks[current_block], numbered from 0.
GetCurrentBlock(bs, cur) == bs[cur + 1]

\* Mutation: current_block is not advanced.
CreateNewBlockStale(bs, cur) ==
  [blocks |-> Append(bs, [number |-> GetCurrentBlock(bs, cur).number + 1, timestamp |-> timestamp]),
   current |-> cur]

\* create_new_block: a child of get_current_block, blocks[current_block],
\* at the clock; then current_block is advanced.
CreateNewBlock(bs, cur) ==
  [blocks |-> Append(bs, [number |-> GetCurrentBlock(bs, cur).number + 1, timestamp |-> timestamp]),
   current |-> cur + 1]

\* advance_blocks(n): create_new_block n times.
AdvanceBlocks(n) ==
  /\ Len(blocks) + n <= MaxBlocks
  /\ LET RECURSIVE Create(_, _)
         Create(st, k) == IF k = 0 THEN st ELSE Create(CreateNewBlock(st.blocks, st.current), k - 1)
         out == Create([blocks |-> blocks, current |-> currentBlock], n)
     IN  blocks' = out.blocks /\ currentBlock' = out.current
  /\ result' = "Ok"
  /\ UNCHANGED <<accounts, timestamp, deployed>>

\* advance_time(seconds)
AdvanceTime(sec) ==
  /\ timestamp + sec <= MaxTime
  /\ timestamp' = timestamp + sec /\ result' = "Ok"
  /\ UNCHANGED <<accounts, blocks, currentBlock, deployed>>

\* set_balance: an existing account keeps its nonce; a new one starts at 0.
SetBalance(a, b) ==
  /\ accounts' = IF a \in DOMAIN accounts THEN [accounts EXCEPT ![a].balance = b]
                 ELSE accounts @@ (a :> [balance |-> b, nonce |-> 0])
  /\ result' = "Ok"
  /\ UNCHANGED <<blocks, currentBlock, timestamp, deployed>>

Next ==
  \/ \E s \in Addrs : DeployContract(s)
  \/ \E a, s \in Addrs : CallContract(a, s)
  \/ \E n \in 1..2 : AdvanceBlocks(n)
  \/ \E sec \in {1} : AdvanceTime(sec)
  \/ \E a \in Addrs, b \in Balances : SetBalance(a, b)

Spec == Init /\ [][Next]_vars

-----------------------------------------------------------------------------
TypeOK ==
  /\ DOMAIN accounts \subseteq Addrs
  /\ \A a \in DOMAIN accounts : accounts[a].balance >= 0 /\ accounts[a].nonce \in 0..MaxNonce
  /\ currentBlock \in 0..MaxBlocks - 1

\* deploy_contract never hands out the same contract address twice: the
\* nonce it derives the address from is bumped by update_state on every
\* success and never reset, set_balance included.
DeployedAddressesUnique ==
  \A i, j \in 1..Len(deployed) : i < j => deployed[i] /= deployed[j]

\* get_current_block, blocks[current_block], is the newest block, and each
\* block's number, parent.number + 1, is its position: advance_blocks keeps
\* the index and the list in step.
CurrentBlockIsNewest ==
  /\ currentBlock = Len(blocks) - 1
  /\ \A i \in 1..Len(blocks) : blocks[i].number = i - 1
=============================================================================
