----------------------------- MODULE EarnNetwork -----------------------------
(* One script of src/src against the two chains it drives: a Stacks node with *)
(* its mempool, and a Bitcoin node whose blocks anchor the blocks of the      *)
(* Stacks chain.  The scripts read, send and poll; nothing but the order of   *)
(* their awaits keeps a call behind the one it depends on.                    *)
(*                                                                            *)
(* A behaviour is calm when the network does what the scripts count on: every *)
(* transaction is in the next block, every burn block anchors a Stacks block, *)
(* no request fails and a payment has the place in its block that getProof    *)
(* works for.                                                                 *)
EXTENDS EarnScripts, EarnContracts, FiniteSets

Merkle == INSTANCE MerkleProof

CONSTANTS Scripts,        \* the scripts that may run, a subset of DOMAIN Program
          SlowScripts,    \* those that also run on a network that is not calm
          BlockSizes,     \* numbers of transactions in a block with a payment
          Dues            \* amounts that the contracts tell the script to pay

ASSUME ScriptsAssumption ==
    /\ Scripts \subseteq DOMAIN Program /\ SlowScripts \subseteq Scripts
    /\ BlockSizes \subseteq Nat \ {0, 1} /\ Dues \subseteq Nat \ {0}

VARIABLES script, calm, ported,            \* which script, chosen once
          pc, outcome, held, draft, noted, due,
          nextNonce, pending, block, executed, aborted, rejected, swappers,
          btc, place, outputs, spent, age, tipAnchored

choices == <<script, calm, ported>>
run     == <<pc, outcome, held, draft, noted, due>>
stacks  == <<nextNonce, pending, block, executed, aborted, rejected, swappers>>
bitcoin == <<btc, place, outputs, spent, age, tipAnchored>>
vars    == <<choices, run, stacks, bitcoin>>

-----------------------------------------------------------------------------
Accounts == {"deployer", "lp", "delegate", "borrower"}
Payments == {"funding", "deposit", "drawdown", "payment", "rewards", "redeem", "refund"}
Coinbases == {"coinbase5", "coinbase6", "unspent"}

Instruction(p) == Program[script][p]
Running == outcome = "running" /\ pc <= Len(Program[script])
At(op)  == Running /\ Instruction(pc).op = op
Ended   == ~Running

(* Transactions are known by the instruction that made them.                  *)
CallAt(p) == Instruction(p).call
ByOf(t)   == CallAt(t.at).by

(* What getNonce answers: the nonce of the account at the tip of the chain,   *)
(* which counts neither pending transactions nor those of the open block.     *)
TipNonce(by) == nextNonce[by] - Cardinality({t \in block : ByOf(t) = by})

(* What earlier scripts have left on the chain, in the order of index.ts.     *)
SetUp == {"Transfer", "RegisterSupplier", "CreatePool", "UpdateLiquidity", "FinalizePool"}
Prior ==
    CASE script = "sendFunds" -> SetUp
      [] script = "drawdown"  -> SetUp \cup {"InitializeSwapper", "SendFunds", "SendFundsFinalize"}
      [] OTHER                -> {}

Done == Prior \cup {CallAt(p).fn : p \in executed}

Init ==
    /\ script \in Scripts /\ calm \in BOOLEAN /\ ported \in BOOLEAN
    /\ ~calm => script \in SlowScripts
    /\ ~ported => Program[script][1].op = "load"
    /\ pc = 1 /\ outcome = "running" /\ held = 0 /\ due = 0 /\ noted = "no"
    /\ draft = [at |-> 0, nonce |-> 0]
    /\ nextNonce = [by \in Accounts |-> IF by = "deployer" THEN 54 ELSE 0]
    /\ pending = {} /\ block = {} /\ executed = {} /\ aborted = {} /\ rejected = {}
    /\ swappers = IF script = "drawdown" THEN <<"lp">> ELSE <<>>
    /\ btc = [tx \in Payments |-> "none"]
    /\ place = [tx \in Payments |-> [size |-> 2, index |-> 1]]
    /\ outputs = [tx \in Payments \cup Coinbases |->
                     IF tx \in Coinbases THEN <<50000 * MilliBtc>> ELSE <<0, 0>>]
    /\ spent = {} /\ age = 0 /\ tipAnchored = TRUE

-----------------------------------------------------------------------------
(* The Stacks node.                                                           *)

(* What the calls need of each other, read off the order in which the scripts *)
(* and their comments put them: the contracts are not in the repository.      *)
Needs ==
    [UpdateLiquidity |-> {"RegisterSupplier"}, FinalizePool |-> {"CreatePool"},
     SendFunds |-> {"RegisterSupplier"}, SendFundsFinalize |-> {"SendFunds", "FinalizePool"},
     CreateLoan |-> {"FinalizePool"}, FundLoan |-> {"CreateLoan", "SendFundsFinalize"},
     Drawdown |-> {"FundLoan", "OnboardUserAddress"}, FinalizeDrawdown |-> {"Drawdown"},
     MakePayment |-> {"FinalizeDrawdown"}, WithdrawRewards |-> {"MakePayment"},
     FinalizeOutbound |-> {"WithdrawRewards"}]

Sent(tx) == CHOOSE i \in Range(Program[script]) : i.op = "send" /\ i.tx = tx

(* The proof of a call about Bitcoin holds, and the output it names is locked *)
(* by the htlc that its arguments describe.                                   *)
Proven(call) ==
    LET at == place[call.proves]
    IN  /\ btc[call.proves] = "anchored"
        /\ Merkle!Verifies(at.size, at.index, Merkle!GetProof(at.size, at.index))
        /\ call.output = 0 /\ Sent(call.proves).pays = call.htlc

Swaps(call) ==
    /\ call.htlc.sender = call.by
    /\ call.htlc.swapper + 1 \in DOMAIN swappers /\ swappers[call.htlc.swapper + 1] = call.by

Escrowed(call) ==
    \E p \in executed : CallAt(p).htlc.hash = call.preimage /\ CallAt(p).by = call.by

Succeeds(call) ==
    /\ Offers(Interface, call.contract, call.fn, call.args) /\ call.names \subseteq Deployed
    /\ call.fn \in DOMAIN Needs => Needs[call.fn] \subseteq Done
    /\ call.proves # "none" => Proven(call)
    /\ call.fn = "SendFunds" => Swaps(call)
    /\ call.preimage # "none" => Escrowed(call)

(* A miner adds the next transaction of an account to the open block; a call  *)
(* that fails consumes its nonce like one that succeeds.                      *)
MineTx(by) ==
    \E t \in pending :
        /\ ByOf(t) = by /\ t.nonce = nextNonce[by]
        /\ pending' = pending \ {t} /\ block' = block \cup {t}
        /\ nextNonce' = [nextNonce EXCEPT ![by] = @ + 1]
        /\ IF Succeeds(CallAt(t.at))
           THEN /\ executed' = executed \cup {t.at} /\ aborted' = aborted
                /\ swappers' = IF CallAt(t.at).fn = "InitializeSwapper"
                               THEN Append(swappers, by) ELSE swappers
           ELSE aborted' = aborted \cup {t.at} /\ UNCHANGED <<executed, swappers>>
        /\ UNCHANGED <<choices, run, bitcoin, rejected>>

Minable == \E t \in pending : t.nonce = nextNonce[ByOf(t)]

(* The block of the latest burn block; a poll for a new tip succeeds.         *)
StacksBlock ==
    /\ ~tipAnchored /\ (calm => ~Minable)
    /\ tipAnchored' = TRUE /\ block' = {}
    /\ btc' = [tx \in Payments |-> IF btc[tx] = "open" THEN "anchored" ELSE btc[tx]]
    /\ noted' = IF noted = "stacks" THEN "fresh" ELSE noted
    /\ UNCHANGED <<choices, pc, outcome, held, draft, due, nextNonce, pending, executed, aborted,
                   rejected, swappers, place, outputs, spent, age>>

-----------------------------------------------------------------------------
(* The Bitcoin node.                                                          *)

Places ==
    {at \in [size : BlockSizes, index : 1 .. 8] :
        at.index < at.size /\ (calm => at.index = Merkle!Depth(at.size))}

(* Blocks until the htlc of the deposit can be refunded; more make no         *)
(* difference, and only one script waits for it.                              *)
MaxAge == 4
Older == IF script = "refundHtlc" /\ btc["deposit"] \notin {"none", "pool"} /\ age < MaxAge
         THEN age + 1 ELSE age

(* A block with the payments of the mempool, or without them.  A payment of   *)
(* a burn block that no Stacks block was anchored to has no Stacks height.    *)
BtcBlock(full) ==
    LET mined == IF full THEN {tx \in Payments : btc[tx] = "pool"} ELSE {}
    IN  /\ calm => tipAnchored /\ full
        /\ btc' = [tx \in Payments |-> IF tx \in mined THEN "open"
                                       ELSE IF btc[tx] = "open" THEN "missed" ELSE btc[tx]]
        /\ \E at \in Places : place' = [tx \in Payments |-> IF tx \in mined THEN at ELSE place[tx]]
        /\ age' = Older
        /\ tipAnchored' = FALSE
        /\ noted' = IF noted = "bitcoin" THEN "fresh" ELSE noted
        /\ UNCHANGED <<choices, pc, outcome, held, draft, due, stacks, outputs, spent>>

-----------------------------------------------------------------------------
(* The script.                                                                *)
Advance == pc' = pc + 1 /\ UNCHANGED <<choices, outcome>>
Throw ==
    /\ outcome' = IF script \in Catching THEN "caught" ELSE "threw"
    /\ UNCHANGED <<choices, pc, held, draft, noted, due, stacks, bitcoin>>

(* Three scripts import the bindings from a directory that does not exist,    *)
(* and call setupContracts with one argument too many; makePayment also names *)
(* a binding BridgeContract, which the generated ones no longer have.         *)
(* `ported` tells whether all of this has been put right.                     *)
LoadModule ==
    /\ At("load")
    /\ IF ported THEN Advance /\ UNCHANGED <<held, draft, noted, due, stacks, bitcoin>> ELSE Throw

FetchNonce ==
    /\ At("getNonce")
    /\ held' = TipNonce(Instruction(pc).by)
    /\ Advance /\ UNCHANGED <<draft, noted, due, stacks, bitcoin>>

MakeContractCall ==
    /\ At("make")
    /\ draft' = [at |-> pc,
                 nonce |-> NonceOf(Instruction(pc).nonce, held, TipNonce(Instruction(pc).call.by))]
    /\ Advance /\ UNCHANGED <<held, noted, due, stacks, bitcoin>>

(* The node refuses a nonce that is used up or taken; the script only logs    *)
(* the answer.                                                                *)
Accepted(t) ==
    /\ t.nonce >= nextNonce[ByOf(t)]
    /\ \A u \in pending : ByOf(u) = ByOf(t) => u.nonce # t.nonce

BroadcastTransaction ==
    /\ At("broadcast")
    /\ IF Accepted(draft)
       THEN pending' = pending \cup {draft} /\ rejected' = rejected
       ELSE rejected' = rejected \cup {draft.at} /\ pending' = pending
    /\ Advance
    /\ UNCHANGED <<held, draft, noted, due, bitcoin, nextNonce, block, executed, aborted, swappers>>

NoteTip ==
    /\ At("note") /\ noted' = Instruction(pc).chain
    /\ Advance /\ UNCHANGED <<held, draft, due, stacks, bitcoin>>

AwaitBlock ==
    /\ At("awaitBlock") /\ noted = "fresh" /\ noted' = "no"
    /\ Advance /\ UNCHANGED <<held, draft, due, stacks, bitcoin>>

(* The poll ends when the transaction is in a block, and when the API has no  *)
(* answer for it.                                                             *)
AwaitTransaction ==
    /\ At("awaitTransaction")
    /\ draft \notin pending \cup block \/ ~calm
    /\ Advance /\ UNCHANGED <<held, draft, noted, due, stacks, bitcoin>>

(* gettxout has no answer when output 0 has been spent.                       *)
AwaitConfirmation ==
    /\ At("awaitConfirmation")
    /\ LET tx == Instruction(pc).tx
       IN  \/ /\ btc[tx] \in {"open", "anchored", "missed"} /\ <<tx, 0>> \notin spent
              /\ Advance /\ UNCHANGED <<held, draft, noted, due, stacks, bitcoin>>
           \/ <<tx, 0>> \in spent /\ Throw

ReadProof ==
    /\ At("getProof")
    /\ IF btc[Instruction(pc).tx] = "anchored"
       THEN Advance /\ UNCHANGED <<held, draft, noted, due, stacks, bitcoin>>
       ELSE Throw

CallReadOnly ==
    LET i == Instruction(pc)
    IN  /\ At("read")
        /\ IF Offers(ReadInterface, i.contract, i.fn, i.args)
           THEN /\ due' \in IF i.into = "due" THEN Dues ELSE {due}
                /\ Advance /\ UNCHANGED <<held, draft, noted, stacks, bitcoin>>
           ELSE Throw

Amount(i) == IF i.amount = 0 THEN due ELSE i.amount
Change(i) == i.worth - (Amount(i) + TxFee)

(* The amounts that the node takes: no output below zero, and no more than    *)
(* the input is worth, which it knows and the script states.                  *)
Spendable(i) ==
    /\ Change(i) >= 0 /\ <<i.from, i.index>> \notin spent
    /\ Amount(i) + Change(i) <= outputs[i.from][i.index + 1]

SendPayment ==
    LET i == Instruction(pc)
    IN  /\ At("send")
        /\ IF Spendable(i)
           THEN /\ btc' = [btc EXCEPT ![i.tx] = "pool"]
                /\ outputs' = [outputs EXCEPT ![i.tx] = <<Amount(i), Change(i)>>]
                /\ spent' = spent \cup {<<i.from, i.index>>}
                /\ Advance /\ UNCHANGED <<held, draft, noted, due, stacks, place, age, tipAnchored>>
           ELSE Throw

(* The two branches of the script of an htlc.                                 *)
Unlocks(i, htlc) ==
    \/ i.by = htlc.recipient /\ i.preimage = htlc.hash
    \/ /\ i.by = htlc.sender /\ i.preimage = "none"
       /\ i.sequence >= htlc.expiration /\ age + 1 >= i.sequence

SpendHtlcOutput ==
    LET i == Instruction(pc)
    IN  /\ At("spend")
        /\ IF Unlocks(i, Sent(i.from).pays) /\ <<i.from, 0>> \notin spent
           THEN /\ btc' = [btc EXCEPT ![i.tx] = "pool"] /\ spent' = spent \cup {<<i.from, 0>>}
                /\ Advance
                /\ UNCHANGED <<held, draft, noted, due, stacks, place, outputs, age, tipAnchored>>
           ELSE Throw

(* A request that fails; the polls of waitForStacksTransaction catch it.      *)
RequestFails == ~calm /\ Running /\ ~At("awaitTransaction") /\ ~At("load") /\ Throw

Progress ==
    \/ LoadModule \/ FetchNonce \/ MakeContractCall \/ BroadcastTransaction
    \/ NoteTip \/ AwaitBlock \/ AwaitTransaction \/ AwaitConfirmation
    \/ ReadProof \/ CallReadOnly \/ SendPayment \/ SpendHtlcOutput

Next ==
    \/ Progress
    \/ RequestFails
    \/ \E by \in Accounts : MineTx(by)
    \/ StacksBlock
    \/ \E full \in BOOLEAN : BtcBlock(full)

(* The event loop runs the script whenever an answer is there; the nodes of   *)
(* the local chain produce blocks for ever.                                   *)
Fairness ==
    /\ WF_vars(Progress) /\ WF_vars(StacksBlock) /\ WF_vars(BtcBlock(TRUE))
    /\ \A by \in Accounts : WF_vars(MineTx(by))

Spec == Init /\ [][Next]_vars /\ Fairness

-----------------------------------------------------------------------------
TypeOK ==
    /\ outcome \in {"running", "caught", "threw"} /\ pc \in 1 .. Len(Program[script]) + 1
    /\ held \in Nat /\ draft \in [at : Nat, nonce : Nat] /\ due \in Dues \cup {0}
    /\ noted \in {"no", "stacks", "bitcoin", "fresh"}
    /\ nextNonce \in [Accounts -> Nat] /\ block \cap pending = {}
    /\ \A t \in pending \cup block : t.at \in 1 .. pc - 1 /\ t.nonce \in Nat
    /\ executed \cup aborted \cup rejected \subseteq 1 .. pc - 1
    /\ executed \cap aborted = {} /\ rejected \cap (executed \cup aborted) = {}
    /\ \A tx \in Payments : btc[tx] \in {"none", "pool", "open", "anchored", "missed"}
    /\ age \in 0 .. MaxAge

(* Every call waits in the mempool for calls that are there too: no nonce is  *)
(* left out between the account and a pending call, which would keep it       *)
(* pending for ever.  setupContracts and its callers count nonces by hand.    *)
NoNonceGap ==
    \A t \in pending : \A n \in nextNonce[ByOf(t)] .. t.nonce :
        \E u \in pending : ByOf(u) = ByOf(t) /\ u.nonce = n

(* On a calm network the node refuses no call but one that repeats the call   *)
(* before it, and no call fails on the chain, the repeated one apart: what    *)
(* each call needs has been executed by then.                                 *)
Repeats(p) == \E q \in 1 .. p - 1 : "call" \in DOMAIN Instruction(q) /\ CallAt(q) = CallAt(p)
NothingRefused ==
    calm => /\ \A p \in rejected : Repeats(p)
            /\ aborted = {}

(* The preimage that lets the supplier take the htlc leaves the script only   *)
(* when the chain has recorded the escrow, on a calm network: the wait for a  *)
(* block between the two calls is all that ensures it.                        *)
RevealAfterEscrow ==
    calm => \A t \in pending \cup block :
        CallAt(t.at).preimage # "none" =>
            \E p \in executed : /\ CallAt(p).htlc.hash = CallAt(t.at).preimage
                                /\ p \notin {u.at : u \in block}

(* No bitcoin goes to the miners but the fee that sendToAddress states: the   *)
(* value of the input that a script writes down is the value of the output it *)
(* spends, several payments later.                                            *)
FeesAsStated ==
    \A tx \in Payments :
        btc[tx] # "none" /\ tx \notin {"redeem", "refund"} =>
            outputs[tx][1] + outputs[tx][2] + TxFee = outputs[Sent(tx).from][Sent(tx).index + 1]

(* getProof is right for the transactions whose index in the block is the     *)
(* depth of the tree, the last of two or of three for one, and wrong for all  *)
(* others: a payment elsewhere is escrowed on Bitcoin and refused on Stacks.  *)
ProofFitsAtDepth ==
    \A tx \in Payments :
        LET at == place[tx]
        IN  btc[tx] = "anchored" =>
                (Merkle!Verifies(at.size, at.index, Merkle!GetProof(at.size, at.index))
                    <=> at.index = Merkle!Depth(at.size))

(* Every script ends, on any network that keeps producing blocks.             *)
ScriptsEnd == <>Ended

(* On a calm network every script, ported where it has to be, reaches what it *)
(* is run for.                                                                *)
GoalDone ==
    IF Goal[script] \in Payments THEN btc[Goal[script]] \in {"open", "anchored", "missed"}
    ELSE Goal[script] \in Done
GoalReached == calm /\ ported => <>GoalDone
=============================================================================
