----------------------------- MODULE RelayQuote -----------------------------
(***************************************************************************)
(* check_quote: a route Relay has quoted is shown to a payer only if what  *)
(* the wallet would sign stays within the quote.  The check reads the      *)
(* signed order and then the route's transactions one by one, nested calls *)
(* included, and keeps a tab of what they may take (Spend, Flow).          *)
(*                                                                         *)
(* Beside it the module runs the transactions the way the contracts do     *)
(* (external: ERC-20 allowances, Relay's depository, approval proxy and    *)
(* router), each of them or not at all, so that the tab can be compared    *)
(* with what would leave the wallet.  Addresses are roles, "stranger" any  *)
(* other; whatever the check cannot decode is refused.                     *)
(***************************************************************************)
EXTENDS Integers, Sequences, SequencesExt

CONSTANTS
    MAX,        \* U256::MAX
    Input,      \* the quoted input, base units of the origin currency
    Amount,     \* what the payment address must receive
    Amounts,    \* amounts the quote's calls and order carry
    Values,     \* wei its transactions and calls carry
    Targets,    \* addresses they name: a subset of Address
    Prior,      \* allowances the wallet may have given before
    MaxItems,   \* bound: transactions of the route
    MaxCalls    \* bound: pulls and nested calls of one transaction

VARIABLES
    native,     \* the origin currency is the chain's own
    phase,      \* what check_quote is at; "accepted" and "refused" end it
    order,      \* the signed order: what it pays and takes in all
    spend,      \* the check's tab on the wallet: Spend
    value,      \* wei the transactions attach
    funded,     \* a transaction that is no approval has been read
    tx,         \* the multicall being read: Flow, and its execution
    wallet,     \* the payer's wallet, after the transactions that were sent
    router,     \* tokens of the payer left in Relay's router
    items       \* transactions read

vars == <<native, phase, order, spend, value, funded, tx, wallet, router, items>>

-----------------------------------------------------------------------------
(* RelayRoles                                                              *)

\* may_hold_allowance: the depository and the approval proxies.
Holder == {"depository", "proxy", "proxy_v3"}
Proxy == {"proxy", "proxy_v3"}
Relay == Holder \cup {"router", "receiver"}
Address == Relay \cup {"stranger"}

Allowances == [Holder -> Nat]
None == [h \in Holder |-> 0]
ASSUME RelayQuoteAssumption ==
    /\ MAX \in Nat /\ Input \in 0..MAX /\ Amount \in 1..MAX
    /\ Amounts \subseteq 0..MAX /\ Values \subseteq 0..MAX
    /\ Targets \subseteq Address /\ Prior \subseteq Allowances
    /\ MaxItems \in Nat /\ MaxCalls \in Nat

Total(a) == a["depository"] + a["proxy"] + a["proxy_v3"]

-----------------------------------------------------------------------------
(* Spend: what the route may take from the wallet                          *)

\* Mutant: approvals of one spender add up.
grant_adds(s, h, n) ==
    [pulled |-> s.pulled, allowances |-> [s.allowances EXCEPT ![h] = @ + n]]

\* approve replaces, so the largest approval wins.
grant(s, h, n) ==
    [pulled |-> s.pulled,
     allowances |-> [s.allowances EXCEPT ![h] = IF n > @ THEN n ELSE @]]

\* Mutant: what an earlier allowance covers is not counted.
pull_covered(s, h, n) ==
    [pulled |-> s.pulled + (IF n < s.allowances[h] THEN n ELSE s.allowances[h]),
     allowances |-> [s.allowances EXCEPT ![h] = IF n < @ THEN @ - n ELSE 0]]

pull(s, h, n) ==
    [pulled |-> s.pulled + n,
     allowances |-> [s.allowances EXCEPT ![h] = IF n < @ THEN @ - n ELSE 0]]

transfer(s, n) == [pulled |-> s.pulled + n, allowances |-> s.allowances]

exposure(s) == s.pulled + Total(s.allowances)

NewSpend == [pulled |-> 0, allowances |-> None]

\* checked_add: a sum of naturals fits, or the quote is refused.
Fits(n) == n <= MAX

-----------------------------------------------------------------------------
(* The contracts                                                           *)

NewWallet(allow) == [taken |-> 0, sent |-> 0, moves |-> 0, allow |-> allow, granted |-> {}]

\* approve replaces the allowance.
Approved(w, h, n) ==
    [w EXCEPT !.allow = [w.allow EXCEPT ![h] = n], !.granted = w.granted \cup {h}]

CanDraw(w, h, n) == n <= w.allow[h]
Drawn(w, h, n) ==
    [w EXCEPT !.taken = w.taken + n, !.allow = [w.allow EXCEPT ![h] = w.allow[h] - n]]

Transferred(w, n) == [w EXCEPT !.taken = w.taken + n]

\* A transaction that may move tokens, sent with v wei.
Paid(w, v) == [w EXCEPT !.sent = w.sent + v, !.moves = w.moves + 1]

\* What has left the wallet and what the route's approvals still let out.
Risk(w) ==
    w.taken + Total([h \in Holder |-> IF h \in w.granted THEN w.allow[h] ELSE 0])

NoTx == [to |-> "router", value |-> 0, pulls |-> 0, calls |-> 0,
         moved |-> 0, entries |-> {}, granted |-> None, consumed |-> 0, nested |-> 0,
         wallet |-> NewWallet(None), router |-> 0, allow |-> None, reverted |-> FALSE]

-----------------------------------------------------------------------------
WalletType ==
    [taken: Nat, sent: Nat, moves: Nat, allow: Allowances, granted: SUBSET Holder]
TxType ==
    [to: Proxy \cup {"router"}, value: Nat, pulls: Nat, calls: Nat,
     moved: Nat, entries: SUBSET Holder, granted: Allowances, consumed: Nat, nested: Nat,
     wallet: WalletType, router: Nat, allow: Allowances, reverted: BOOLEAN]

TypeOK ==
    /\ native \in BOOLEAN /\ funded \in BOOLEAN
    /\ phase \in {"details", "order", "steps", "tx", "accepted", "refused"}
    /\ order \in [pays: Nat, takes: Nat]
    /\ spend \in [pulled: 0..MAX, allowances: [Holder -> 0..Input]]
    /\ value \in Nat /\ router \in Nat /\ items \in Nat
    /\ wallet \in WalletType /\ tx \in TxType

Init ==
    /\ native \in BOOLEAN
    /\ phase = "details"
    /\ order = [pays |-> 0, takes |-> 0]
    /\ spend = NewSpend
    /\ value = 0 /\ funded = FALSE /\ tx = NoTx /\ router = 0 /\ items = 0
    /\ \E allow \in Prior : wallet = NewWallet(IF native THEN None ELSE allow)

\* Nothing is kept of a quote that is refused, and nothing of it is sent.
Refuse ==
    /\ phase' = "refused"
    /\ order' = [pays |-> 0, takes |-> 0]
    /\ spend' = NewSpend /\ value' = 0 /\ funded' = FALSE /\ tx' = NoTx
    /\ wallet' = NewWallet(None) /\ router' = 0 /\ items' = 0
    /\ UNCHANGED native

-----------------------------------------------------------------------------
(* The quote's details and its signed order                                *)

\* The parties, currencies, chains and decimals are the expected ones or not.
CheckDetails ==
    /\ phase = "details"
    /\ \/ Refuse
       \/ \E guaranteed \in Amounts :
            /\ guaranteed >= Amount
            /\ phase' = "order"
            /\ UNCHANGED <<native, order, spend, value, funded, tx, wallet, router, items>>

Sum(s) == FoldSeq(LAMBDA a, b : a + b, 0, s)

\* Mutant: sums wrap around.
checked_sum_wrapping(s) == IF s = <<>> THEN {} ELSE {Sum(s) % (MAX + 1)}

\* The sum of at least one amount, if it fits.
checked_sum(s) == IF s = <<>> THEN {} ELSE {Sum(s)} \cap 0..MAX

\* Every payment goes to the payment address in the deposit's token, every
\* input is of the origin currency with refunds to the payer or the deposit;
\* anything else is Refuse.
CheckOrder ==
    /\ phase = "order"
    /\ \/ Refuse
       \/ \E payments, inputs \in BoundedSeq(Amounts, 2) :
            IF (\E n \in checked_sum(payments) : n >= Amount) /\ Input \in checked_sum(inputs)
            THEN /\ phase' = "steps"
                 /\ order' = [pays |-> Sum(payments), takes |-> Sum(inputs)]
                 /\ UNCHANGED <<native, spend, value, funded, tx, wallet, router, items>>
            ELSE Refuse

-----------------------------------------------------------------------------
(* The route's transactions: check_step                                    *)

\* An item that passes its checks and, if it is sent and does not revert,
\* leaves the wallet as w.
Item(ok, s, v, funds, w) ==
    IF ok /\ ~funded /\ Fits(s.pulled)
    THEN /\ spend' = s
         /\ value' = value + v
         /\ funded' = funds
         /\ wallet' \in {wallet, w}
         /\ items' = items + 1
         /\ UNCHANGED <<native, phase, order, tx, router>>
    ELSE Refuse

Reading == phase = "steps" /\ items < MaxItems

\* Another kind of step, chain, sender or target, or calldata that is not
\* decoded.
RefuseItem == Reading /\ Refuse

Approve(h, n, v) ==
    /\ Reading
    /\ Item(~native /\ n <= Input /\ h \in Holder,
            IF h \in Holder THEN grant(spend, h, n) ELSE spend, v, FALSE,
            IF h \in Holder THEN Approved(wallet, h, n) ELSE wallet)

Transfer(h, n, v) ==
    /\ Reading
    /\ Item(~native /\ n <= Input /\ h = "depository", transfer(spend, n), v, TRUE,
            Transferred(Paid(wallet, v), n))

\* depositErc20, at the depository: drawn from the wallet's allowance to it.
DepositErc20(to, n, v) ==
    /\ Reading
    /\ Item(n <= Input /\ to = "depository", pull(spend, "depository", n), v, TRUE,
            IF CanDraw(wallet, "depository", n)
            THEN Drawn(Paid(wallet, v), "depository", n) ELSE wallet)

\* depositNative, at the depository; forward, at the receiver.
SendValue(to, v) ==
    /\ Reading
    /\ Item(to \in {"depository", "receiver"}, spend, v, TRUE, Paid(wallet, v))

-----------------------------------------------------------------------------
(* multicall and transferAndMulticall: check_relay_call, check_nested_call *)

Pulls == tx.to \in Proxy

StartMulticall(to, v) ==
    /\ Reading
    /\ IF ~funded /\ to \in Proxy \cup {"router"}
       THEN /\ phase' = "tx"
            /\ tx' = [NoTx EXCEPT !.to = to, !.value = v, !.wallet = Paid(wallet, v)]
            /\ UNCHANGED <<native, order, spend, value, funded, wallet, router, items>>
       ELSE Refuse

InTx == phase = "tx" /\ tx.pulls + tx.calls < MaxCalls

\* The next nested call of the transaction.
Nested(ok, t) ==
    IF ok
    THEN /\ tx' = [t EXCEPT !.calls = tx.calls + 1]
         /\ UNCHANGED <<native, phase, order, spend, value, funded, wallet, router, items>>
    ELSE Refuse

\* A failure the call does not allow, a target that is neither Relay's nor the
\* token, a nested multicall, a refund to someone else.
RefuseNested == InTx /\ Refuse

\* The proxy moves n from the wallet to the router, on the allowance to it.
PullToken(n) ==
    LET w == tx.wallet
        drawn == CanDraw(w, tx.to, n)
        s == pull(spend, tx.to, n)
    IN  /\ InTx /\ Pulls /\ tx.calls = 0
        /\ IF ~native /\ n <= Input /\ Fits(s.pulled)
           THEN /\ spend' = s
                /\ tx' = [tx EXCEPT !.pulls = tx.pulls + 1,
                                    !.moved = tx.moved + n,
                                    !.wallet = IF drawn THEN Drawn(w, tx.to, n) ELSE w,
                                    !.router = IF drawn THEN tx.router + n ELSE tx.router,
                                    !.reverted = tx.reverted \/ ~drawn]
                /\ UNCHANGED <<native, phase, order, value, funded, wallet, router, items>>
           ELSE Refuse

\* The router approves a holder; the check adds up, the token replaces.
NestedApprove(h, n) ==
    /\ InTx
    /\ IF h \in Holder
       THEN LET sum == tx.granted[h] + n
            IN  Nested(~native /\ n <= Input /\ (Pulls => Fits(sum)),
                       [tx EXCEPT !.entries = tx.entries \cup {h},
                                  !.granted = [tx.granted EXCEPT ![h] = IF Pulls THEN sum ELSE @],
                                  !.allow = [tx.allow EXCEPT ![h] = n]])
       ELSE Refuse

\* A token may silently not make a transfer.
NestedMove(ok, n) ==
    \E moved \in {0, n} :
        Nested(ok, [tx EXCEPT !.router = IF moved <= tx.router THEN tx.router - moved
                                         ELSE tx.router,
                              !.consumed = tx.consumed + n])

\* Mutant: a transfer to the depository is a way out for pulled tokens.
NestedTransfer_way_out(h, n) ==
    /\ InTx
    /\ NestedMove(~native /\ n <= Input /\ h = "depository", n)

NestedTransfer(h, n) ==
    /\ InTx
    /\ NestedMove(~native /\ n <= Input /\ ~Pulls /\ h = "depository", n)

\* The depository draws n from the router's allowance to it.
NestedDeposit(n) ==
    LET drawn == n <= tx.allow["depository"] /\ n <= tx.router
        covered == "depository" \in tx.entries /\ n <= tx.granted["depository"]
                   /\ Fits(tx.consumed + n)
    IN  /\ InTx
        /\ Nested(n <= Input /\ (Pulls => covered),
                  [tx EXCEPT !.consumed = tx.consumed + n,
                             !.granted = [tx.granted EXCEPT !["depository"] = IF Pulls THEN @ - n ELSE @],
                             !.router = IF drawn THEN tx.router - n ELSE tx.router,
                             !.allow = IF drawn THEN [tx.allow EXCEPT !["depository"] = @ - n]
                                       ELSE tx.allow,
                             !.reverted = tx.reverted \/ ~drawn])

\* depositNative, forward or an empty multicall, with some of the value.
NestedValue(to, v) ==
    /\ InTx
    /\ Nested(to \in {"depository", "receiver", "router"} /\ tx.nested + v <= tx.value,
              [tx EXCEPT !.nested = tx.nested + v])

\* Mutant: a multicall is taken for an approval.
EndTransaction_approves ==
    /\ phase = "tx"
    /\ IF Pulls => tx.calls > 0 /\ tx.consumed = tx.moved
       THEN /\ phase' = "steps" /\ value' = value + tx.value
            /\ funded' = FALSE /\ items' = items + 1
            /\ \/ UNCHANGED <<wallet, router>>
               \/ ~tx.reverted /\ wallet' = tx.wallet /\ router' = router + tx.router
            /\ tx' = NoTx
            /\ UNCHANGED <<native, order, spend>>
       ELSE Refuse

\* Nothing pulled may stay in the router.  The transaction is sent or not; it
\* reverts as a whole.
EndTransaction ==
    /\ phase = "tx"
    /\ IF Pulls => tx.calls > 0 /\ tx.consumed = tx.moved
       THEN /\ phase' = "steps" /\ value' = value + tx.value
            /\ funded' = TRUE /\ items' = items + 1
            /\ \/ UNCHANGED <<wallet, router>>
               \/ ~tx.reverted /\ wallet' = tx.wallet /\ router' = router + tx.router
            /\ tx' = NoTx
            /\ UNCHANGED <<native, order, spend>>
       ELSE Refuse

-----------------------------------------------------------------------------
limit == IF native THEN Input ELSE 0

Finish ==
    /\ phase = "steps"
    /\ IF /\ funded
          /\ Fits(value) /\ value <= limit
          /\ Fits(exposure(spend)) /\ exposure(spend) <= Input
       THEN /\ phase' = "accepted"
            /\ UNCHANGED <<native, order, spend, value, funded, tx, wallet, router, items>>
       ELSE Refuse

Next ==
    \/ CheckDetails \/ CheckOrder \/ RefuseItem \/ RefuseNested \/ EndTransaction \/ Finish
    \/ \E n \in Amounts : PullToken(n) \/ NestedDeposit(n)
    \/ \E to \in Targets, n \in Amounts : NestedApprove(to, n) \/ NestedTransfer(to, n)
    \/ \E to \in Targets, v \in Values :
        \/ SendValue(to, v) \/ StartMulticall(to, v) \/ NestedValue(to, v)
        \/ \E n \in Amounts : Approve(to, n, v) \/ Transfer(to, n, v) \/ DepositErc20(to, n, v)

Spec == Init /\ [][Next]_vars

-----------------------------------------------------------------------------
(* Properties                                                              *)

\* Whichever of an accepted route's transactions are sent, the wallet never
\* pays, or leaves approved, more than the quote's input, allowances it had
\* given before included; and no value with a token (check_quote, Spend).
WithinQuote ==
    phase = "accepted" => Risk(wallet) <= Input /\ wallet.sent <= limit

\* An accepted route leaves none of the payer's tokens in the router, whatever
\* its nested calls do (Flow).
NothingStranded == phase = "accepted" => router = 0

\* An accepted route has at most one transaction that pays (is_approval, funded).
OnePayment == phase = "accepted" => wallet.moves <= 1

\* The order of an accepted route really guarantees the amount and takes
\* exactly the quoted input (check_order).
OrderMatches == phase = "accepted" => order.pays >= Amount /\ order.takes = Input
=============================================================================
