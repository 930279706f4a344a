---------------------------- MODULE RelayProofs -----------------------------
(***************************************************************************)
(* Two independent specifications, each with its own variables.            *)
(*                                                                         *)
(* The check of a route, for every quote: whatever amounts and addresses   *)
(* its transactions carry, however many there are, and whatever allowances *)
(* the wallet has given before.                                            *)
(*                                                                         *)
(* The invariant compares the check's tab with the wallet it never sees.   *)
(* Before the funding transaction the tab is ahead of the wallet holder by *)
(* holder (Behind); a pull settles the tab at once although its            *)
(* transaction may not be sent, so afterwards only the totals compare.     *)
(***************************************************************************)
EXTENDS RelayQuote, RelayRoutes, TLAPS

\* The tab s is ahead of the wallet w, in what was taken and holder by holder.
Behind(w, s) ==
    /\ w.taken <= s.pulled
    /\ \A h \in w.granted : w.allow[h] <= s.allowances[h]

SpendType == [pulled: Nat, allowances: [Holder -> 0..Input]]

Reads == phase \in {"details", "order", "steps", "tx"}

TabCovers == Risk(wallet) <= exposure(spend)
TabAhead == phase \in {"details", "order", "steps"} /\ ~funded => Behind(wallet, spend)
TxAhead == phase = "tx" /\ ~tx.reverted => Behind(tx.wallet, spend)
Funding ==
    /\ phase = "tx" => ~funded /\ tx.wallet.moves <= 1
    /\ Reads /\ ~funded => wallet.moves = 0
    /\ wallet.moves <= 1
Value ==
    /\ wallet.sent <= value
    /\ phase = "tx" => tx.wallet.sent <= value + tx.value
Stranded ==
    /\ router = 0
    /\ phase = "tx" /\ tx.to = "router" => tx.router = 0
    /\ phase = "tx" /\ tx.to \in Proxy /\ ~tx.reverted => tx.router + tx.consumed = tx.moved
Ordered ==
    phase \in {"steps", "tx", "accepted"} => order.pays >= Amount /\ order.takes = Input
Accepted ==
    phase = "accepted" => exposure(spend) <= Input /\ value <= limit

IInv ==
    /\ TypeOK /\ TabCovers /\ TabAhead /\ TxAhead /\ Funding /\ Value /\ Stranded
    /\ Ordered /\ Accepted

USE RelayQuoteAssumption

-----------------------------------------------------------------------------
(* What the operators do, field by field                                   *)

LEMMA NewWalletFacts ==
    ASSUME NEW a \in Allowances
    PROVE  /\ NewWallet(a) \in WalletType
           /\ NewWallet(a).taken = 0 /\ NewWallet(a).sent = 0 /\ NewWallet(a).moves = 0
           /\ NewWallet(a).granted = {}
  BY DEF NewWallet, WalletType

LEMMA NoneFacts == None \in Allowances /\ None \in [Holder -> 0..Input]
  BY DEF None, Allowances

LEMMA ApprovedFacts ==
    ASSUME NEW w \in WalletType, NEW h \in Holder, NEW n \in Nat
    PROVE  /\ Approved(w, h, n) \in WalletType
           /\ Approved(w, h, n).taken = w.taken /\ Approved(w, h, n).sent = w.sent
           /\ Approved(w, h, n).moves = w.moves
           /\ Approved(w, h, n).granted = w.granted \cup {h}
           /\ Approved(w, h, n).allow = [w.allow EXCEPT ![h] = n]
  <1> DEFINE a == [w.allow EXCEPT ![h] = n]
  <1>1. a \in Allowances  BY DEF WalletType, Allowances
  <1>2. Approved(w, h, n) = [w EXCEPT !.allow = a, !.granted = w.granted \cup {h}]
    BY Zenon DEF Approved
  <1>3. a = [w.allow EXCEPT ![h] = n]  OBVIOUS
  <1> HIDE DEF a
  <1>4. QED  BY <1>1, <1>2, <1>3 DEF WalletType

LEMMA DrawnFacts ==
    ASSUME NEW w \in WalletType, NEW h \in Holder, NEW n \in Nat, CanDraw(w, h, n)
    PROVE  /\ Drawn(w, h, n) \in WalletType
           /\ Drawn(w, h, n).taken = w.taken + n /\ Drawn(w, h, n).sent = w.sent
           /\ Drawn(w, h, n).moves = w.moves /\ Drawn(w, h, n).granted = w.granted
           /\ Drawn(w, h, n).allow = [w.allow EXCEPT ![h] = w.allow[h] - n]
  <1> DEFINE a == [w.allow EXCEPT ![h] = w.allow[h] - n]
             t == w.taken + n
  <1>1. a \in Allowances /\ t \in Nat  BY DEF WalletType, Allowances, CanDraw
  <1>2. Drawn(w, h, n) = [w EXCEPT !.taken = t, !.allow = a]
    BY Zenon DEF Drawn
  <1>3. a = [w.allow EXCEPT ![h] = w.allow[h] - n] /\ t = w.taken + n  OBVIOUS
  <1> HIDE DEF a, t
  <1>4. QED  BY <1>1, <1>2, <1>3 DEF WalletType

LEMMA PaidFacts ==
    ASSUME NEW w \in WalletType, NEW v \in Nat
    PROVE  /\ Paid(w, v) \in WalletType
           /\ Paid(w, v).taken = w.taken /\ Paid(w, v).sent = w.sent + v
           /\ Paid(w, v).moves = w.moves + 1
           /\ Paid(w, v).allow = w.allow /\ Paid(w, v).granted = w.granted
  <1> DEFINE s == w.sent + v
             m == w.moves + 1
  <1>1. s \in Nat /\ m \in Nat  BY DEF WalletType
  <1>2. Paid(w, v) = [w EXCEPT !.sent = s, !.moves = m]  BY Zenon DEF Paid
  <1>3. s = w.sent + v /\ m = w.moves + 1  OBVIOUS
  <1> HIDE DEF s, m
  <1>4. QED  BY <1>1, <1>2, <1>3 DEF WalletType

LEMMA TransferredFacts ==
    ASSUME NEW w \in WalletType, NEW n \in Nat
    PROVE  /\ Transferred(w, n) \in WalletType
           /\ Transferred(w, n).taken = w.taken + n /\ Transferred(w, n).sent = w.sent
           /\ Transferred(w, n).moves = w.moves
           /\ Transferred(w, n).allow = w.allow /\ Transferred(w, n).granted = w.granted
  BY DEF Transferred, WalletType

LEMMA NoTxFacts == NoTx \in TxType
  BY NoneFacts, NewWalletFacts DEF NoTx, TxType, Proxy
-----------------------------------------------------------------------------
(* The tab                                                                 *)

LEMMA GrantFacts ==
    ASSUME NEW s \in SpendType, NEW h \in Holder, NEW n \in 0..Input
    PROVE  /\ grant(s, h, n) \in SpendType
           /\ grant(s, h, n).pulled = s.pulled
           /\ n <= grant(s, h, n).allowances[h]
           /\ \A k \in Holder : s.allowances[k] <= grant(s, h, n).allowances[k]
           /\ exposure(s) <= exposure(grant(s, h, n))
  <1> DEFINE a == [s.allowances EXCEPT ![h] = IF n > @ THEN n ELSE @]
  <1>1. a \in [Holder -> 0..Input] /\ n <= a[h] /\ \A k \in Holder : s.allowances[k] <= a[k]
    BY DEF SpendType
  <1>2. grant(s, h, n) = [pulled |-> s.pulled, allowances |-> a]  BY Zenon DEF grant
  <1> HIDE DEF a
  <1>3. QED  BY <1>1, <1>2 DEF SpendType, exposure, Total, Holder

LEMMA PullFacts ==
    ASSUME NEW s \in SpendType, NEW h \in Holder, NEW n \in Nat
    PROVE  /\ pull(s, h, n) \in SpendType
           /\ pull(s, h, n).pulled = s.pulled + n
           /\ pull(s, h, n).allowances[h] = IF n < s.allowances[h] THEN s.allowances[h] - n ELSE 0
           /\ \A k \in Holder \ {h} : pull(s, h, n).allowances[k] = s.allowances[k]
           /\ exposure(s) <= exposure(pull(s, h, n))
  <1> DEFINE a == [s.allowances EXCEPT ![h] = IF n < @ THEN @ - n ELSE 0]
             p == s.pulled + n
  <1>1. /\ a \in [Holder -> 0..Input] /\ p \in Nat
        /\ a[h] = IF n < s.allowances[h] THEN s.allowances[h] - n ELSE 0
        /\ \A k \in Holder \ {h} : a[k] = s.allowances[k]
    BY DEF SpendType
  <1>2. pull(s, h, n) = [pulled |-> p, allowances |-> a]  BY Zenon DEF pull
  <1>3. p = s.pulled + n  OBVIOUS
  <1>4. s.allowances \in [Holder -> 0..Input] /\ s.pulled \in Nat  BY DEF SpendType
  <1> HIDE DEF a, p
  <1>5. pull(s, h, n).pulled = p /\ pull(s, h, n).allowances = a /\ pull(s, h, n) \in SpendType
    BY <1>1, <1>2 DEF SpendType
  <1>6. s.pulled + Total(s.allowances) <= p + Total(a)
    <2>1. CASE h = "depository"  BY <2>1, <1>1, <1>3, <1>4 DEF Total, Holder
    <2>2. CASE h = "proxy"       BY <2>2, <1>1, <1>3, <1>4 DEF Total, Holder
    <2>3. CASE h = "proxy_v3"    BY <2>3, <1>1, <1>3, <1>4 DEF Total, Holder
    <2>4. QED  BY <2>1, <2>2, <2>3 DEF Holder
  <1>7. QED  BY <1>1, <1>3, <1>5, <1>6 DEF exposure

LEMMA TransferFacts ==
    ASSUME NEW s \in SpendType, NEW n \in Nat
    PROVE  /\ transfer(s, n) \in SpendType
           /\ transfer(s, n).pulled = s.pulled + n
           /\ transfer(s, n).allowances = s.allowances
           /\ exposure(s) <= exposure(transfer(s, n))
  BY DEF transfer, SpendType, exposure, Total, Holder

\* A tab that is ahead of a wallet covers what the route puts at risk.
LEMMA BehindIsCovered ==
    ASSUME NEW w \in WalletType, NEW s \in SpendType, Behind(w, s)
    PROVE  Risk(w) <= exposure(s)
  <1> DEFINE r == [h \in Holder |-> IF h \in w.granted THEN w.allow[h] ELSE 0]
  <1>1. /\ s.allowances \in [Holder -> Nat] /\ s.pulled \in Nat /\ w.taken \in Nat
        /\ w.allow \in [Holder -> Nat]
    BY DEF SpendType, WalletType, Allowances
  <1>2. \A h \in Holder : r[h] \in Nat /\ r[h] <= s.allowances[h]
    BY <1>1 DEF Behind
  <1> HIDE DEF r
  <1>3. Total(r) <= Total(s.allowances) /\ Total(r) \in Nat /\ Total(s.allowances) \in Nat
    BY <1>1, <1>2 DEF Total, Holder
  <1>4. w.taken + Total(r) <= s.pulled + Total(s.allowances)
    BY <1>1, <1>3 DEF Behind
  <1>5. QED  BY <1>4 DEF Risk, exposure, r

LEMMA RiskType ==
    ASSUME NEW w \in WalletType PROVE Risk(w) \in Nat
  BY DEF Risk, WalletType, Allowances, Total, Holder

LEMMA ExposureType ==
    ASSUME NEW s \in SpendType PROVE exposure(s) \in Nat
  BY DEF exposure, SpendType, Total, Holder

\* A draw the tab has charged keeps it ahead.
LEMMA DrawKeepsAhead ==
    ASSUME NEW w \in WalletType, NEW s \in SpendType, Behind(w, s),
           NEW h \in Holder, NEW n \in Nat, CanDraw(w, h, n)
    PROVE  Behind(Drawn(w, h, n), pull(s, h, n))
  <1>1. /\ Drawn(w, h, n).taken = w.taken + n /\ Drawn(w, h, n).granted = w.granted
        /\ Drawn(w, h, n).allow = [w.allow EXCEPT ![h] = w.allow[h] - n]
    BY DrawnFacts
  <1>2. /\ pull(s, h, n).pulled = s.pulled + n
        /\ pull(s, h, n).allowances[h] = IF n < s.allowances[h] THEN s.allowances[h] - n ELSE 0
        /\ \A k \in Holder \ {h} : pull(s, h, n).allowances[k] = s.allowances[k]
    BY PullFacts
  <1>3. /\ s.allowances \in [Holder -> Nat] /\ s.pulled \in Nat /\ w.taken \in Nat
        /\ w.allow \in [Holder -> Nat] /\ w.granted \subseteq Holder
    BY DEF SpendType, WalletType, Allowances
  <1>4. w.taken + n <= s.pulled + n  BY <1>3 DEF Behind
  <1>5. ASSUME NEW k \in w.granted
        PROVE  Drawn(w, h, n).allow[k] <= pull(s, h, n).allowances[k]
    <2>1. w.allow[k] <= s.allowances[k] /\ k \in Holder  BY <1>3 DEF Behind
    <2>2. CASE k = h   BY <1>1, <1>2, <1>3, <2>1, <2>2 DEF CanDraw
    <2>3. CASE k # h   BY <1>1, <1>2, <1>3, <2>1, <2>3
    <2>4. QED  BY <2>2, <2>3
  <1>6. QED  BY <1>1, <1>2, <1>4, <1>5 DEF Behind
-----------------------------------------------------------------------------
(* Steps                                                                   *)

LEMMA RefusePreserves ==
    ASSUME IInv, Refuse PROVE IInv'
  <1>1. NewWallet(None) \in WalletType /\ NoTx \in TxType /\ Behind(NewWallet(None), NewSpend)
    BY NoneFacts, NewWalletFacts, NoTxFacts DEF Behind, NewSpend
  <1>2. NewSpend \in SpendType /\ NewSpend \in [pulled: 0..MAX, allowances: [Holder -> 0..Input]]
    BY NoneFacts DEF SpendType, NewSpend
  <1>3. Risk(NewWallet(None)) <= exposure(NewSpend)  BY <1>1, <1>2, BehindIsCovered
  <1>4. TypeOK'  BY <1>1, <1>2 DEF IInv, TypeOK, Refuse
  <1>5. TabCovers'  BY <1>3 DEF Refuse, TabCovers
  <1>6. (TabAhead /\ TxAhead /\ Ordered /\ Accepted)'
    BY DEF Refuse, TabAhead, TxAhead, Ordered, Accepted
  <1>7. (Funding /\ Value /\ Stranded)'
    BY NoneFacts, NewWalletFacts DEF Refuse, Funding, Value, Stranded, Reads
  <1>8. QED  BY <1>4, <1>5, <1>6, <1>7 DEF IInv

\* A transaction that is no multicall: the tab s it leaves must be ahead of
\* the wallet, sent or not, as long as it is an approval, and must cover it.
LEMMA ItemPreserves ==
    ASSUME IInv, phase = "steps",
           NEW ok, NEW s \in SpendType, NEW v \in Nat, NEW funds \in BOOLEAN,
           NEW w \in WalletType,
           exposure(spend) <= exposure(s),
           ok /\ ~funded =>
              /\ Risk(w) <= exposure(s)
              /\ ~funds => Behind(wallet, s) /\ Behind(w, s) /\ w.moves = 0
              /\ w.moves <= 1 /\ w.sent <= value + v,
           Item(ok, s, v, funds, w)
    PROVE  IInv'
  <1>1. CASE ~(ok /\ ~funded /\ Fits(s.pulled))
    <2>1. Refuse  BY <1>1 DEF Item
    <2>2. QED  BY <2>1, RefusePreserves
  <1>2. CASE ok /\ ~funded /\ Fits(s.pulled)
    <2>1. /\ spend' = s /\ value' = value + v /\ funded' = funds
          /\ wallet' \in {wallet, w} /\ items' = items + 1
          /\ UNCHANGED <<native, phase, order, tx, router>>
      BY <1>2 DEF Item
    <2>2. s \in [pulled: 0..MAX, allowances: [Holder -> 0..Input]]
      BY <1>2 DEF SpendType, Fits
    <2>3. TypeOK'  BY <2>1, <2>2 DEF IInv, TypeOK
    <2>4. TabCovers'
      <3>1. spend \in SpendType /\ wallet \in WalletType  BY DEF IInv, TypeOK, SpendType
      <3>2. Risk(w) <= exposure(s)  BY <1>2
      <3>3. Risk(wallet) <= exposure(s)
        BY <3>1, RiskType, ExposureType DEF IInv, TabCovers
      <3>4. QED  BY <2>1, <3>2, <3>3 DEF TabCovers
    <2>5. TabAhead'  BY <1>2, <2>1 DEF TabAhead
    <2>6. Funding'
      BY <1>2, <2>1 DEF IInv, Funding, Reads
    <2>7. Value'
      <3>1. wallet.sent \in Nat /\ value \in Nat /\ wallet.sent <= value
        BY DEF IInv, TypeOK, WalletType, Value
      <3>2. QED  BY <1>2, <2>1, <3>1 DEF Value
    <2>8. (TxAhead /\ Stranded /\ Ordered /\ Accepted)'
      BY <2>1 DEF IInv, TxAhead, Stranded, Ordered, Accepted
    <2>9. QED  BY <2>3, <2>4, <2>5, <2>6, <2>7, <2>8 DEF IInv
  <1>3. QED  BY <1>1, <1>2

LEMMA ApprovePreserves ==
    ASSUME IInv, NEW h \in Targets, NEW n \in Amounts, NEW v \in Values, Approve(h, n, v)
    PROVE  IInv'
  <1> DEFINE s == IF h \in Holder THEN grant(spend, h, n) ELSE spend
             w == IF h \in Holder THEN Approved(wallet, h, n) ELSE wallet
             ok == ~native /\ n <= Input /\ h \in Holder
  <1>1. n \in Nat /\ v \in Nat /\ spend \in SpendType /\ wallet \in WalletType
    BY DEF IInv, TypeOK, SpendType
  <1>2. phase = "steps" /\ Item(ok, s, v, FALSE, w)  BY Zenon DEF Approve, Reading
  <1>3. CASE ~ok
    <2>1. Refuse  BY <1>2, <1>3 DEF Item
    <2>2. QED  BY <2>1, RefusePreserves
  <1>4. CASE ok
    <2>1. n \in 0..Input /\ h \in Holder  BY <1>1, <1>4
    <2>2. s = grant(spend, h, n) /\ w = Approved(wallet, h, n)  BY <2>1
    <2>3. /\ s \in SpendType /\ exposure(spend) <= exposure(s)
          /\ s.pulled = spend.pulled /\ n <= s.allowances[h]
          /\ \A k \in Holder : spend.allowances[k] <= s.allowances[k]
      BY <1>1, <2>1, <2>2, GrantFacts
    <2>4. /\ w \in WalletType
          /\ w.taken = wallet.taken /\ w.sent = wallet.sent /\ w.moves = wallet.moves
          /\ w.granted = wallet.granted \cup {h} /\ w.allow = [wallet.allow EXCEPT ![h] = n]
      BY <1>1, <2>1, <2>2, ApprovedFacts
    <2> HIDE DEF s, w
    <2>5. ~funded => Behind(wallet, s) /\ Behind(w, s) /\ w.moves = 0 /\ w.sent <= value + v
      <3> SUFFICES ASSUME ~funded
                   PROVE  Behind(wallet, s) /\ Behind(w, s) /\ w.moves = 0 /\ w.sent <= value + v
        OBVIOUS
      <3>1. Behind(wallet, spend) /\ wallet.moves = 0 /\ wallet.sent <= value
        BY <1>2 DEF IInv, TabAhead, Funding, Reads, Value
      <3>2. /\ wallet.allow \in [Holder -> Nat] /\ wallet.granted \subseteq Holder
            /\ s.allowances \in [Holder -> Nat] /\ spend.allowances \in [Holder -> Nat]
            /\ wallet.sent \in Nat /\ value \in Nat
        BY <1>1, <2>3 DEF WalletType, Allowances, SpendType, IInv, TypeOK
      <3>3. Behind(wallet, s)  BY <2>3, <3>1, <3>2 DEF Behind
      <3>4. Behind(w, s)  BY <1>1, <2>1, <2>3, <2>4, <3>2, <3>3 DEF Behind
      <3>5. QED  BY <1>1, <2>4, <3>1, <3>2, <3>3, <3>4
    <2>6. (w.moves = 0 => w.moves <= 1) /\ (Behind(w, s) => Risk(w) <= exposure(s))
      BY <2>3, <2>4, BehindIsCovered
    <2> HIDE DEF ok
    <2>7. QED  BY <1>1, <1>2, <2>3, <2>4, <2>5, <2>6, ItemPreserves, Zenon
  <1>5. QED  BY <1>3, <1>4
LEMMA TransferPreserves ==
    ASSUME IInv, NEW h \in Targets, NEW n \in Amounts, NEW v \in Values, Transfer(h, n, v)
    PROVE  IInv'
  <1> DEFINE s == transfer(spend, n)
             w == Transferred(Paid(wallet, v), n)
             ok == ~native /\ n <= Input /\ h = "depository"
  <1>1. n \in Nat /\ v \in Nat /\ spend \in SpendType /\ wallet \in WalletType
    BY DEF IInv, TypeOK, SpendType
  <1>2. phase = "steps" /\ Item(ok, s, v, TRUE, w)  BY Zenon DEF Transfer, Reading
  <1>3. /\ s \in SpendType /\ exposure(spend) <= exposure(s)
        /\ s.pulled = spend.pulled + n /\ s.allowances = spend.allowances
    BY <1>1, TransferFacts
  <1>4. /\ Paid(wallet, v) \in WalletType
        /\ Paid(wallet, v).taken = wallet.taken /\ Paid(wallet, v).sent = wallet.sent + v
        /\ Paid(wallet, v).moves = wallet.moves + 1
        /\ Paid(wallet, v).allow = wallet.allow /\ Paid(wallet, v).granted = wallet.granted
    BY <1>1, PaidFacts
  <1>5. /\ w \in WalletType
        /\ w.taken = wallet.taken + n /\ w.sent = wallet.sent + v /\ w.moves = wallet.moves + 1
        /\ w.allow = wallet.allow /\ w.granted = wallet.granted
    BY <1>1, <1>4, TransferredFacts
  <1> HIDE DEF s, w, ok
  <1>6. ~funded => Risk(w) <= exposure(s) /\ w.moves <= 1 /\ w.sent <= value + v
    <2> SUFFICES ASSUME ~funded
                 PROVE  Risk(w) <= exposure(s) /\ w.moves <= 1 /\ w.sent <= value + v
      OBVIOUS
    <2>1. Behind(wallet, spend) /\ wallet.moves = 0 /\ wallet.sent <= value
      BY <1>2 DEF IInv, TabAhead, Funding, Reads, Value
    <2>2. /\ wallet.taken \in Nat /\ spend.pulled \in Nat
          /\ wallet.sent \in Nat /\ value \in Nat
      BY <1>1 DEF WalletType, SpendType, IInv, TypeOK
    <2>3. Behind(w, s)  BY <1>1, <1>3, <1>5, <2>1, <2>2 DEF Behind
    <2>4. QED  BY <1>1, <1>3, <1>5, <2>1, <2>2, <2>3, BehindIsCovered
  <1>7. QED  BY <1>1, <1>2, <1>3, <1>5, <1>6, ItemPreserves, Zenon

LEMMA DepositPreserves ==
    ASSUME IInv, NEW to \in Targets, NEW n \in Amounts, NEW v \in Values,
           DepositErc20(to, n, v)
    PROVE  IInv'
  <1> DEFINE s == pull(spend, "depository", n)
             p == Paid(wallet, v)
             d == Drawn(p, "depository", n)
             w == IF CanDraw(wallet, "depository", n) THEN d ELSE wallet
             ok == n <= Input /\ to = "depository"
  <1>1. /\ n \in Nat /\ v \in Nat /\ spend \in SpendType /\ wallet \in WalletType
        /\ "depository" \in Holder
    BY DEF IInv, TypeOK, SpendType, Holder
  <1>2. phase = "steps" /\ Item(ok, s, v, TRUE, w)  BY Zenon DEF DepositErc20, Reading
  <1>3. s \in SpendType /\ exposure(spend) <= exposure(s)  BY <1>1, PullFacts
  <1>4. /\ p \in WalletType
        /\ p.taken = wallet.taken /\ p.sent = wallet.sent + v /\ p.moves = wallet.moves + 1
        /\ p.allow = wallet.allow /\ p.granted = wallet.granted
    BY <1>1, PaidFacts
  <1>5. CanDraw(wallet, "depository", n) =>
            CanDraw(p, "depository", n) /\ d \in WalletType /\ d.sent = p.sent /\ d.moves = p.moves
    <2>1. CanDraw(wallet, "depository", n) => CanDraw(p, "depository", n)
      BY <1>4 DEF CanDraw
    <2> HIDE DEF p
    <2>2. QED  BY <1>1, <1>4, <2>1, DrawnFacts
  <1>6. w \in WalletType  BY <1>1, <1>5
  <1>7. /\ value \in Nat /\ wallet.sent \in Nat /\ wallet.sent <= value
        /\ wallet.moves \in Nat /\ wallet.moves <= 1
        /\ ~funded => wallet.moves = 0 /\ Behind(wallet, spend)
    BY <1>2 DEF IInv, TypeOK, WalletType, Value, Funding, Reads, TabAhead
  <1>8. ~funded => Risk(w) <= exposure(s) /\ w.moves <= 1 /\ w.sent <= value + v
    <2>1. CASE CanDraw(wallet, "depository", n)
      <3>1. w = d  BY <2>1
      <3>2. ~funded => Behind(p, spend)  BY <1>4, <1>7 DEF Behind
      <3> HIDE DEF p
      <3>3. ~funded => Behind(d, s)  BY <1>1, <1>4, <1>5, <2>1, <3>2, DrawKeepsAhead
      <3> HIDE DEF s, d, w
      <3>4. ~funded => Risk(d) <= exposure(s)  BY <1>3, <1>5, <2>1, <3>3, BehindIsCovered
      <3>5. QED  BY <1>1, <1>4, <1>5, <1>7, <2>1, <3>1, <3>4
    <2>2. CASE ~CanDraw(wallet, "depository", n)
      <3>1. w = wallet  BY <2>2
      <3> HIDE DEF s, w
      <3>2. Risk(wallet) <= exposure(s)
        BY <1>1, <1>3, RiskType, ExposureType DEF IInv, TabCovers
      <3>3. QED  BY <1>1, <1>7, <3>1, <3>2
    <2>3. QED  BY <2>1, <2>2
  <1> HIDE DEF s, w, ok
  <1>9. QED  BY <1>1, <1>2, <1>3, <1>6, <1>8, ItemPreserves, Zenon

LEMMA SendPreserves ==
    ASSUME IInv, NEW to \in Targets, NEW v \in Values, SendValue(to, v)
    PROVE  IInv'
  <1> DEFINE w == Paid(wallet, v)
             ok == to \in {"depository", "receiver"}
  <1>1. v \in Nat /\ spend \in SpendType /\ wallet \in WalletType
    BY DEF IInv, TypeOK, SpendType
  <1>2. phase = "steps" /\ Item(ok, spend, v, TRUE, w)  BY Zenon DEF SendValue, Reading
  <1>3. /\ w \in WalletType
        /\ w.taken = wallet.taken /\ w.sent = wallet.sent + v /\ w.moves = wallet.moves + 1
        /\ w.allow = wallet.allow /\ w.granted = wallet.granted
    BY <1>1, PaidFacts
  <1> HIDE DEF w, ok
  <1>4. /\ value \in Nat /\ wallet.sent \in Nat /\ wallet.sent <= value
        /\ ~funded => wallet.moves = 0 /\ Behind(wallet, spend)
    BY <1>2 DEF IInv, TypeOK, WalletType, Value, Funding, Reads, TabAhead
  <1>5. ~funded => Behind(w, spend)  BY <1>3, <1>4 DEF Behind
  <1>6. ~funded => Risk(w) <= exposure(spend) /\ w.moves <= 1 /\ w.sent <= value + v
    BY <1>1, <1>3, <1>4, <1>5, BehindIsCovered
  <1>7. exposure(spend) <= exposure(spend)  BY <1>1, ExposureType
  <1>8. QED  BY <1>1, <1>2, <1>3, <1>6, <1>7, ItemPreserves, Zenon
LEMMA StartPreserves ==
    ASSUME IInv, NEW to \in Targets, NEW v \in Values, StartMulticall(to, v)
    PROVE  IInv'
  <1> DEFINE w == Paid(wallet, v)
             t == [NoTx EXCEPT !.to = to, !.value = v, !.wallet = w]
  <1>1. v \in Nat /\ spend \in SpendType /\ wallet \in WalletType /\ phase = "steps"
    BY DEF IInv, TypeOK, SpendType, StartMulticall, Reading
  <1>2. CASE ~(~funded /\ to \in Proxy \cup {"router"})
    BY <1>2, RefusePreserves DEF StartMulticall
  <1>3. CASE ~funded /\ to \in Proxy \cup {"router"}
    <2>1. /\ phase' = "tx" /\ tx' = t
          /\ UNCHANGED <<native, order, spend, value, funded, wallet, router, items>>
      BY <1>3, Zenon DEF StartMulticall
    <2>2. /\ w \in WalletType
          /\ w.taken = wallet.taken /\ w.sent = wallet.sent + v /\ w.moves = wallet.moves + 1
          /\ w.allow = wallet.allow /\ w.granted = wallet.granted
      BY <1>1, PaidFacts
    <2> HIDE DEF w
    <2>3. /\ t \in TxType /\ t.to = to /\ t.value = v /\ t.wallet = w
          /\ t.router = 0 /\ t.consumed = 0 /\ t.moved = 0
      BY <1>1, <1>3, <2>2, NoneFacts, NewWalletFacts DEF NoTx, TxType
    <2> HIDE DEF t
    <2>4. /\ value \in Nat /\ wallet.sent \in Nat /\ wallet.sent <= value
          /\ wallet.moves = 0 /\ Behind(wallet, spend)
      BY <1>1, <1>3 DEF IInv, TypeOK, WalletType, Value, Funding, Reads, TabAhead
    <2>5. TypeOK'  BY <2>1, <2>3 DEF IInv, TypeOK
    <2>6. TxAhead'  BY <2>1, <2>2, <2>3, <2>4 DEF TxAhead, Behind
    <2>7. (Funding /\ Value)'
      BY <1>1, <1>3, <2>1, <2>2, <2>3, <2>4 DEF Funding, Value, Reads
    <2>8. Stranded'  BY <2>1, <2>3 DEF IInv, Stranded
    <2>9. (TabCovers /\ TabAhead /\ Ordered /\ Accepted)'
      BY <1>1, <2>1 DEF IInv, TabCovers, TabAhead, Ordered, Accepted
    <2>10. QED  BY <2>5, <2>6, <2>7, <2>8, <2>9 DEF IInv
  <1>4. QED  BY <1>2, <1>3

\* A nested call: it touches neither the wallet nor what the transaction is.
LEMMA NestedPreserves ==
    ASSUME IInv, phase = "tx",
           NEW ok, NEW t \in TxType,
           ok => /\ t.to = tx.to /\ t.value = tx.value /\ t.wallet = tx.wallet
                 /\ ~t.reverted => ~tx.reverted
                 /\ t.to = "router" => t.router = 0
                 /\ t.to \in Proxy /\ ~t.reverted => t.router + t.consumed = t.moved,
           Nested(ok, t)
    PROVE  IInv'
  <1>1. CASE ~ok  BY <1>1, RefusePreserves DEF Nested
  <1>2. CASE ok
    <2> DEFINE u == [t EXCEPT !.calls = tx.calls + 1]
    <2>1. /\ tx' = u
          /\ UNCHANGED <<native, phase, order, spend, value, funded, wallet, router, items>>
      BY <1>2 DEF Nested
    <2>2. /\ u \in TxType
          /\ u.to = t.to /\ u.value = t.value /\ u.wallet = t.wallet /\ u.reverted = t.reverted
          /\ u.router = t.router /\ u.consumed = t.consumed /\ u.moved = t.moved
      <3>1. tx.calls + 1 \in Nat  BY DEF IInv, TypeOK, TxType
      <3>2. QED  BY <3>1 DEF TxType
    <2> HIDE DEF u
    <2>3. TypeOK'  BY <2>1, <2>2 DEF IInv, TypeOK
    <2>4. TxAhead'  BY <1>2, <2>1, <2>2 DEF IInv, TxAhead
    <2>5. Funding'  BY <1>2, <2>1, <2>2 DEF IInv, Funding, Reads
    <2>6. Value'  BY <1>2, <2>1, <2>2 DEF IInv, Value
    <2>7. Stranded'  BY <1>2, <2>1, <2>2 DEF IInv, Stranded
    <2>8. (TabCovers /\ TabAhead /\ Ordered /\ Accepted)'
      BY <2>1 DEF IInv, TabCovers, TabAhead, Ordered, Accepted, limit
    <2>9. QED  BY <2>3, <2>4, <2>5, <2>6, <2>7, <2>8 DEF IInv
  <1>3. QED  BY <1>1, <1>2

\* What the invariant says of the transaction being read.
LEMMA TxFacts ==
    ASSUME IInv, phase = "tx"
    PROVE  /\ tx \in TxType
           /\ tx.router \in Nat /\ tx.consumed \in Nat /\ tx.moved \in Nat /\ tx.nested \in Nat
           /\ tx.allow \in [Holder -> Nat] /\ tx.granted \in [Holder -> Nat]
           /\ tx.entries \subseteq Holder /\ tx.wallet \in WalletType
           /\ tx.to \in Holder \cup {"router"} /\ tx.reverted \in BOOLEAN
           /\ tx.to = "router" => tx.router = 0
           /\ tx.to \in Proxy /\ ~tx.reverted => tx.router + tx.consumed = tx.moved
           /\ "router" \notin Proxy /\ (tx.to \in Proxy \/ tx.to = "router")
  BY DEF IInv, TypeOK, TxType, Stranded, Allowances, Proxy, Holder

LEMMA NestedApprovePreserves ==
    ASSUME IInv, NEW h \in Targets, NEW n \in Amounts, NestedApprove(h, n)
    PROVE  IInv'
  <1>1. CASE h \notin Holder  BY <1>1, RefusePreserves DEF NestedApprove
  <1>2. CASE h \in Holder
    <2> DEFINE e == tx.entries \cup {h}
               g == [tx.granted EXCEPT ![h] = IF Pulls THEN tx.granted[h] + n ELSE @]
               a == [tx.allow EXCEPT ![h] = n]
               t == [tx EXCEPT !.entries = e, !.granted = g, !.allow = a]
               ok == ~native /\ n <= Input /\ (Pulls => Fits(tx.granted[h] + n))
    <2>1. phase = "tx" /\ Nested(ok, t)  BY <1>2, Zenon DEF NestedApprove, InTx
    <2>2. n \in Nat /\ e \subseteq Holder /\ g \in Allowances /\ a \in Allowances
      BY <1>2, <2>1, TxFacts DEF Allowances
    <2> HIDE DEF e, g, a
    <2>3. /\ t \in TxType /\ t.to = tx.to /\ t.value = tx.value /\ t.wallet = tx.wallet
          /\ t.reverted = tx.reverted
          /\ t.router = tx.router /\ t.consumed = tx.consumed /\ t.moved = tx.moved
      BY <2>1, <2>2, TxFacts DEF TxType
    <2> HIDE DEF t, ok
    <2>4. QED  BY <2>1, <2>3, TxFacts, NestedPreserves
  <1>3. QED  BY <1>1, <1>2

LEMMA NestedTransferPreserves ==
    ASSUME IInv, NEW h \in Targets, NEW n \in Amounts, NestedTransfer(h, n)
    PROVE  IInv'
  <1> DEFINE ok == ~native /\ n <= Input /\ ~Pulls /\ h = "depository"
  <1>1. phase = "tx"  BY DEF NestedTransfer, InTx
  <1>2. PICK m \in {0, n} :
            Nested(ok, [tx EXCEPT !.router = IF m <= tx.router THEN tx.router - m ELSE tx.router,
                                  !.consumed = tx.consumed + n])
    BY Zenon DEF NestedTransfer, NestedMove
  <1> DEFINE r == IF m <= tx.router THEN tx.router - m ELSE tx.router
             c == tx.consumed + n
             t == [tx EXCEPT !.router = r, !.consumed = c]
  <1>3. n \in Nat /\ m \in Nat /\ r \in Nat /\ c \in Nat /\ (tx.router = 0 => r = 0)
    BY <1>1, TxFacts
  <1>4. Nested(ok, t)  BY <1>2, Zenon
  <1> HIDE DEF r, c
  <1>5. /\ t \in TxType /\ t.to = tx.to /\ t.value = tx.value /\ t.wallet = tx.wallet
        /\ t.reverted = tx.reverted /\ t.router = r
    BY <1>1, <1>3, TxFacts DEF TxType
  <1>6. ok => tx.to \notin Proxy  BY DEF Pulls
  <1> HIDE DEF t, ok
  <1>7. QED  BY <1>1, <1>3, <1>4, <1>5, <1>6, TxFacts, NestedPreserves

LEMMA NestedDepositPreserves ==
    ASSUME IInv, NEW n \in Amounts, NestedDeposit(n)
    PROVE  IInv'
  <1> DEFINE drawn == n <= tx.allow["depository"] /\ n <= tx.router
             covered == /\ "depository" \in tx.entries /\ n <= tx.granted["depository"]
                        /\ Fits(tx.consumed + n)
             c == tx.consumed + n
             g == [tx.granted EXCEPT !["depository"] = IF Pulls THEN @ - n ELSE @]
             r == IF drawn THEN tx.router - n ELSE tx.router
             a == IF drawn THEN [tx.allow EXCEPT !["depository"] = @ - n] ELSE tx.allow
             v == tx.reverted \/ ~drawn
             t == [tx EXCEPT !.consumed = c, !.granted = g, !.router = r, !.allow = a, !.reverted = v]
             ok == n <= Input /\ (Pulls => covered)
  <1>1. phase = "tx" /\ Nested(ok, t)  BY Zenon DEF NestedDeposit, InTx
  <1>2. n \in Nat /\ "depository" \in Holder  BY DEF Holder
  <1>3. CASE ~ok  BY <1>1, <1>3, RefusePreserves DEF Nested
  <1>4. CASE ok
    <2>1. /\ c \in Nat /\ g \in Allowances /\ r \in Nat /\ a \in Allowances /\ v \in BOOLEAN
          /\ (~v => ~tx.reverted /\ r + c = tx.router + tx.consumed) /\ (tx.router = 0 => r = 0)
      BY <1>1, <1>2, <1>4, TxFacts DEF Allowances, Pulls
    <2> HIDE DEF c, g, r, a, v
    <2>2. /\ t \in TxType /\ t.to = tx.to /\ t.value = tx.value /\ t.wallet = tx.wallet
          /\ t.reverted = v /\ t.router = r /\ t.consumed = c /\ t.moved = tx.moved
      BY <1>1, <2>1, TxFacts DEF TxType
    <2> HIDE DEF t, ok
    <2>3. QED  BY <1>1, <2>1, <2>2, TxFacts, NestedPreserves
  <1>5. QED  BY <1>3, <1>4

LEMMA NestedValuePreserves ==
    ASSUME IInv, NEW to \in Targets, NEW v \in Values, NestedValue(to, v)
    PROVE  IInv'
  <1> DEFINE m == tx.nested + v
             t == [tx EXCEPT !.nested = m]
             ok == to \in {"depository", "receiver", "router"} /\ tx.nested + v <= tx.value
  <1>1. phase = "tx" /\ Nested(ok, t)  BY Zenon DEF NestedValue, InTx
  <1>2. m \in Nat  BY <1>1, TxFacts
  <1> HIDE DEF m
  <1>3. /\ t \in TxType /\ t.to = tx.to /\ t.value = tx.value /\ t.wallet = tx.wallet
        /\ t.reverted = tx.reverted
        /\ t.router = tx.router /\ t.consumed = tx.consumed /\ t.moved = tx.moved
    BY <1>1, <1>2, TxFacts DEF TxType
  <1> HIDE DEF t, ok
  <1>4. QED  BY <1>1, <1>3, TxFacts, NestedPreserves
\* The one nested step that changes the tab: it is charged whether or not the
\* wallet's allowance covers it, and the transaction reverts if it does not.
LEMMA PullPreserves ==
    ASSUME IInv, NEW n \in Amounts, PullToken(n)
    PROVE  IInv'
  <1> DEFINE w == tx.wallet
             drawn == CanDraw(w, tx.to, n)
             s == pull(spend, tx.to, n)
             d == Drawn(w, tx.to, n)
             k == tx.pulls + 1
             m == tx.moved + n
             x == IF drawn THEN d ELSE w
             r == IF drawn THEN tx.router + n ELSE tx.router
             v == tx.reverted \/ ~drawn
             t == [tx EXCEPT !.pulls = k, !.moved = m, !.wallet = x, !.router = r, !.reverted = v]
  <1>1. phase = "tx" /\ tx.to \in Proxy  BY Zenon DEF PullToken, InTx, Pulls
  <1>2. /\ n \in Nat /\ tx.to \in Holder /\ spend \in SpendType /\ w \in WalletType
        /\ wallet \in WalletType
    BY <1>1, TxFacts DEF IInv, TypeOK, SpendType, Proxy, Holder
  <1>3. CASE ~(~native /\ n <= Input /\ Fits(s.pulled))
    BY <1>3, RefusePreserves, Zenon DEF PullToken
  <1>4. CASE ~native /\ n <= Input /\ Fits(s.pulled)
    <2>1. /\ spend' = s /\ tx' = t
          /\ UNCHANGED <<native, phase, order, value, funded, wallet, router, items>>
      BY <1>4, Zenon DEF PullToken
    <2>2. s \in SpendType /\ exposure(spend) <= exposure(s)  BY <1>2, PullFacts
    <2>3. s \in [pulled: 0..MAX, allowances: [Holder -> 0..Input]]
      <3> HIDE DEF s
      <3>1. QED  BY <1>4, <2>2 DEF SpendType, Fits
    <2>4. drawn => d \in WalletType /\ d.sent = w.sent /\ d.moves = w.moves
      <3>1. ASSUME CanDraw(w, tx.to, n) PROVE d \in WalletType /\ d.sent = w.sent /\ d.moves = w.moves
        BY ONLY <1>2, <3>1, DrawnFacts
      <3>2. QED  BY <3>1, Zenon
    <2>5. x \in WalletType /\ x.sent = w.sent /\ x.moves = w.moves
      BY <1>2, <2>4
    <2>6. drawn /\ Behind(w, spend) => Behind(x, s)
      <3>1. drawn /\ Behind(w, spend) => Behind(d, s)  BY <1>2, DrawKeepsAhead
      <3>2. QED  BY <3>1
    <2>7. ~v => drawn /\ ~tx.reverted /\ r = tx.router + n  OBVIOUS
    <2>8. /\ k \in Nat /\ m \in Nat /\ r \in Nat /\ v \in BOOLEAN /\ m = tx.moved + n
      BY <1>1, <1>2, TxFacts DEF TxType
    <2> HIDE DEF k, m, x, r, v, s, drawn, d
    <2>9. /\ t \in TxType /\ t.to = tx.to /\ t.value = tx.value /\ t.wallet = x
          /\ t.reverted = v /\ t.router = r /\ t.consumed = tx.consumed /\ t.moved = m
      BY <1>1, <2>5, <2>8, TxFacts DEF TxType
    <2> HIDE DEF t
    <2>10. TypeOK'  BY <2>1, <2>3, <2>9 DEF IInv, TypeOK
    <2>11. TabCovers'
      BY <1>2, <2>1, <2>2, RiskType, ExposureType DEF IInv, TabCovers
    <2>12. TxAhead'
      <3>1. ~v => Behind(x, s)  BY <1>1, <2>6, <2>7 DEF IInv, TxAhead
      <3>2. QED  BY <2>1, <2>9, <3>1 DEF TxAhead
    <2>13. Funding'  BY <1>1, <2>1, <2>5, <2>9 DEF IInv, Funding, Reads
    <2>14. Value'  BY <1>1, <2>1, <2>5, <2>9 DEF IInv, Value
    <2>15. Stranded'
      BY <1>1, <1>2, <2>1, <2>7, <2>8, <2>9, TxFacts DEF IInv, Stranded
    <2>16. (TabAhead /\ Ordered /\ Accepted)'
      BY <1>1, <2>1 DEF IInv, TabAhead, Ordered, Accepted
    <2>17. QED
      BY <2>10, <2>11, <2>12, <2>13, <2>14, <2>15, <2>16 DEF IInv
  <1>5. QED  BY <1>3, <1>4

LEMMA EndPreserves ==
    ASSUME IInv, EndTransaction PROVE IInv'
  <1>1. phase = "tx"  BY DEF EndTransaction
  <1>2. CASE ~(Pulls => tx.calls > 0 /\ tx.consumed = tx.moved)
    BY <1>2, RefusePreserves DEF EndTransaction
  <1>3. CASE Pulls => tx.calls > 0 /\ tx.consumed = tx.moved
    <2>1. /\ phase' = "steps" /\ value' = value + tx.value /\ funded' = TRUE /\ items' = items + 1
          /\ \/ UNCHANGED <<wallet, router>>
             \/ ~tx.reverted /\ wallet' = tx.wallet /\ router' = router + tx.router
          /\ tx' = NoTx /\ UNCHANGED <<native, order, spend>>
      BY <1>3 DEF EndTransaction
    <2>2. /\ tx.value \in Nat /\ value \in Nat /\ spend \in SpendType
          /\ wallet.sent \in Nat /\ wallet \in WalletType /\ tx.wallet \in WalletType
      BY <1>1, TxFacts DEF IInv, TypeOK, TxType, WalletType, SpendType
    <2>3. ~tx.reverted => tx.router = 0
      BY <1>1, <1>3, TxFacts DEF Pulls
    <2>4. ~tx.reverted => Risk(tx.wallet) <= exposure(spend)
      BY <1>1, <2>2, BehindIsCovered DEF IInv, TxAhead
    <2>5. TypeOK'  BY <2>1, <2>2, <2>3, NoTxFacts DEF IInv, TypeOK
    <2>6. TabCovers'  BY <2>1, <2>4 DEF IInv, TabCovers
    <2>7. Funding'  BY <1>1, <2>1 DEF IInv, Funding, Reads
    <2>8. Value'  BY <1>1, <2>1, <2>2 DEF IInv, Value
    <2>9. Stranded'  BY <1>1, <2>1, <2>3 DEF IInv, Stranded
    <2>10. (TabAhead /\ TxAhead /\ Ordered /\ Accepted)'
      BY <1>1, <2>1 DEF IInv, TabAhead, TxAhead, Ordered, Accepted
    <2>11. QED  BY <2>5, <2>6, <2>7, <2>8, <2>9, <2>10 DEF IInv
  <1>4. QED  BY <1>2, <1>3

LEMMA FinishPreserves ==
    ASSUME IInv, Finish PROVE IInv'
  <1> DEFINE ok == /\ funded
                   /\ Fits(value) /\ value <= limit
                   /\ Fits(exposure(spend)) /\ exposure(spend) <= Input
  <1>1. CASE ~ok  BY <1>1, RefusePreserves, Zenon DEF Finish
  <1>2. CASE ok
    <2>1. /\ phase = "steps" /\ phase' = "accepted"
          /\ UNCHANGED <<native, order, spend, value, funded, tx, wallet, router, items>>
      BY <1>2, Zenon DEF Finish
    <2>2. TypeOK'  BY <2>1 DEF IInv, TypeOK
    <2>3. Accepted'  BY <1>2, <2>1 DEF Accepted, limit
    <2>4. (TabCovers /\ TabAhead /\ TxAhead /\ Funding /\ Value /\ Stranded /\ Ordered)'
      BY <2>1 DEF IInv, TabCovers, TabAhead, TxAhead, Funding, Reads, Value, Stranded, Ordered
    <2>5. QED  BY <2>2, <2>3, <2>4 DEF IInv
  <1>3. QED  BY <1>1, <1>2

LEMMA DetailsPreserves ==
    ASSUME IInv, CheckDetails PROVE IInv'
  <1>1. CASE Refuse  BY <1>1, RefusePreserves
  <1>2. CASE /\ phase = "details" /\ phase' = "order"
             /\ UNCHANGED <<native, order, spend, value, funded, tx, wallet, router, items>>
    BY <1>2 DEF IInv, TypeOK, TabCovers, TabAhead, TxAhead, Funding, Reads, Value, Stranded,
                Ordered, Accepted
  <1>3. QED  BY <1>1, <1>2 DEF CheckDetails
LEMMA OrderPreserves ==
    ASSUME IInv, CheckOrder PROVE IInv'
  <1>1. CASE Refuse  BY <1>1, RefusePreserves
  <1>2. CASE ~Refuse
    <2>1. PICK payments, inputs \in BoundedSeq(Amounts, 2) :
            /\ phase = "order" /\ phase' = "steps"
            /\ (\E n \in checked_sum(payments) : n >= Amount) /\ Input \in checked_sum(inputs)
            /\ order' = [pays |-> Sum(payments), takes |-> Sum(inputs)]
            /\ UNCHANGED <<native, spend, value, funded, tx, wallet, router, items>>
      BY <1>2, Zenon DEF CheckOrder
    <2>2. Sum(payments) \in Nat /\ Sum(payments) >= Amount
      BY <2>1 DEF checked_sum
    <2>3. Sum(inputs) = Input  BY <2>1 DEF checked_sum
    <2>4. (TypeOK /\ Ordered)'
      BY <2>1, <2>2, <2>3 DEF IInv, TypeOK, Ordered
    <2>5. (TabCovers /\ TabAhead /\ TxAhead /\ Funding /\ Value /\ Stranded /\ Accepted)'
      BY <2>1 DEF IInv, TabCovers, TabAhead, TxAhead, Funding, Reads, Value, Stranded, Accepted
    <2>6. QED  BY <2>4, <2>5 DEF IInv
  <1>3. QED  BY <1>1, <1>2

LEMMA InitInv == Init => IInv
  <1> SUFFICES ASSUME Init PROVE IInv
    OBVIOUS
  <1>1. PICK a \in Allowances : wallet = NewWallet(a)
    BY NoneFacts DEF Init
  <1>2. NewSpend \in SpendType /\ NewSpend \in [pulled: 0..MAX, allowances: [Holder -> 0..Input]]
    BY NoneFacts DEF SpendType, NewSpend
  <1>3. /\ wallet \in WalletType /\ wallet.taken = 0 /\ wallet.sent = 0 /\ wallet.moves = 0
        /\ wallet.granted = {}
    BY <1>1, NewWalletFacts
  <1>4. TypeOK  BY <1>2, <1>3, NoTxFacts DEF Init, TypeOK
  <1>5. spend = NewSpend /\ Behind(wallet, spend)
    BY <1>3 DEF Init, Behind, NewSpend
  <1>6. TabCovers  BY <1>2, <1>3, <1>5, BehindIsCovered DEF TabCovers
  <1>7. TabAhead /\ TxAhead /\ Funding /\ Value /\ Stranded /\ Ordered /\ Accepted
    BY <1>3, <1>5 DEF Init, TabAhead, TxAhead, Funding, Reads, Value, Stranded, Ordered, Accepted
  <1>8. QED  BY <1>4, <1>6, <1>7 DEF IInv

LEMMA NextInv == IInv /\ [Next]_vars => IInv'
  <1> SUFFICES ASSUME IInv, [Next]_vars PROVE IInv'
    OBVIOUS
  <1>1. CASE UNCHANGED vars
    BY <1>1 DEF vars, IInv, TypeOK, TabCovers, TabAhead, TxAhead, Funding, Reads, Value,
                Stranded, Ordered, Accepted, limit
  <1>2. CASE CheckDetails   BY <1>2, DetailsPreserves
  <1>3. CASE CheckOrder     BY <1>3, OrderPreserves
  <1>4. CASE RefuseItem     BY <1>4, RefusePreserves DEF RefuseItem
  <1>5. CASE RefuseNested   BY <1>5, RefusePreserves DEF RefuseNested
  <1>6. CASE EndTransaction BY <1>6, EndPreserves
  <1>7. CASE Finish         BY <1>7, FinishPreserves
  <1>8. ASSUME NEW n \in Amounts, PullToken(n) \/ NestedDeposit(n) PROVE IInv'
    BY <1>8, PullPreserves, NestedDepositPreserves
  <1>9. ASSUME NEW to \in Targets, NEW n \in Amounts,
               NestedApprove(to, n) \/ NestedTransfer(to, n)
        PROVE  IInv'
    BY <1>9, NestedApprovePreserves, NestedTransferPreserves
  <1>10. ASSUME NEW to \in Targets, NEW v \in Values,
                SendValue(to, v) \/ StartMulticall(to, v) \/ NestedValue(to, v)
         PROVE  IInv'
    BY <1>10, SendPreserves, StartPreserves, NestedValuePreserves
  <1>11. ASSUME NEW to \in Targets, NEW v \in Values, NEW n \in Amounts,
                Approve(to, n, v) \/ Transfer(to, n, v) \/ DepositErc20(to, n, v)
         PROVE  IInv'
    BY <1>11, ApprovePreserves, TransferPreserves, DepositPreserves
  <1>12. QED
    BY <1>1, <1>2, <1>3, <1>4, <1>5, <1>6, <1>7, <1>8, <1>9, <1>10, <1>11 DEF Next

-----------------------------------------------------------------------------
(* Theorems                                                                *)

LEMMA Inductive == Spec => []IInv
  BY InitInv, NextInv, PTL DEF Spec

\* The check's state is well-typed: its tab never leaves U256, and an
\* allowance on it never exceeds the quoted input.
THEOREM RouteTypeCorrect == Spec => []TypeOK
  <1>1. IInv => TypeOK  BY DEF IInv
  <1>2. QED  BY <1>1, Inductive, PTL

\* Whatever a quote carries, a route that check_quote accepts costs the wallet
\* at most the quoted input, in tokens taken and left approved, and no value
\* beyond it.
THEOREM RouteWithinQuote == Spec => []WithinQuote
  <1>1. IInv => WithinQuote
    <2> SUFFICES ASSUME IInv, phase = "accepted"
                 PROVE  Risk(wallet) <= Input /\ wallet.sent <= limit
      BY DEF WithinQuote
    <2>1. wallet \in WalletType /\ spend \in SpendType /\ wallet.sent \in Nat /\ value \in Nat
      BY DEF IInv, TypeOK, SpendType, WalletType
    <2>2. Risk(wallet) <= exposure(spend) /\ exposure(spend) <= Input
      BY DEF IInv, TabCovers, Accepted
    <2>3. wallet.sent <= value /\ value <= limit  BY DEF IInv, Value, Accepted
    <2>4. Risk(wallet) <= Input  BY <2>1, <2>2, RiskType, ExposureType
    <2>5. limit \in Nat  BY DEF limit
    <2>6. QED  BY <2>1, <2>3, <2>4, <2>5
  <1>2. QED  BY <1>1, Inductive, PTL

\* An accepted route leaves nothing in the router: what the proxy pulls, the
\* nested calls have deposited (Flow).
THEOREM RouteStrandsNothing == Spec => []NothingStranded
  <1>1. IInv => NothingStranded  BY DEF IInv, Stranded, NothingStranded
  <1>2. QED  BY <1>1, Inductive, PTL

\* An accepted route pays in one transaction (is_approval, funded).
THEOREM RoutePaysOnce == Spec => []OnePayment
  <1>1. IInv => OnePayment  BY DEF IInv, Funding, OnePayment
  <1>2. QED  BY <1>1, Inductive, PTL

\* The signed order of an accepted route pays the amount and takes the input,
\* in unbounded arithmetic (check_order).
THEOREM RouteOrderMatches == Spec => []OrderMatches
  <1>1. IInv => OrderMatches  BY DEF IInv, Ordered, OrderMatches
  <1>2. QED  BY <1>1, Inductive, PTL

-----------------------------------------------------------------------------
(* The endpoints around the check: RelayRoutes, for any number of payers,  *)
(* lists, tokens and statuses and any times to live and budgets            *)

RequestType ==
    [step: Step, endpoint: Endpoint, read: 0..Len(Lists) + Final,
     token: Tokens, decimals: Nat \cup {Unknown}]

\* Whoever holds the list's lock is alone, and has read a list that was published.
OneFetch ==
    \A p, q \in Payers : request[p].step = "fetch" /\ request[q].step = "fetch" => p = q
FetchReads == \A p \in Payers : request[p].step = "fetch" => request[p].read >= 1

\* NoHerd is not inductive: a call that has ended must also be remembered, by its
\* list or by its failure, and nobody may be in a call that began before it.
EndedIsKept ==
    \/ chains.ended = 0
    \/ chains.ended = 1 /\ (Fresh \/ BackingOff) /\ ~Locked

RoutesInv ==
    /\ RoutesTypeOK /\ RightDecimals
    /\ OneFetch /\ FetchReads /\ EndedIsKept

Checked(e) == e.step \in {"limit", "relay"} => e.decimals = decimals[e.token]

StatusType == [is: {Unknown} \cup (0..relay.route), age: 0..STATUS_TTL - 1]
LimitsType == [all: 0..Quotes, of: [Payers -> 0..Slice]]

\* A payer goes on, with the list left alone.
LEMMA RequestMoves ==
    ASSUME RoutesInv, UNCHANGED <<relay, chains>>, status' \in StatusType, limits' \in LimitsType,
           NEW p \in Payers, NEW e \in RequestType, request' = [request EXCEPT ![p] = e],
           Checked(e), e.step # "fetch"
    PROVE  RoutesInv'
<1>1. RoutesTypeOK /\ request \in [Payers -> RequestType]
  BY DEF RoutesInv, RoutesTypeOK, RequestType
<1>2. RoutesTypeOK'
  BY <1>1 DEF RoutesTypeOK, RequestType, StatusType, LimitsType
<1>3. RightDecimals'
  BY <1>1 DEF RoutesInv, RightDecimals, Checked
<1>4. OneFetch' /\ FetchReads'
  BY <1>1 DEF RoutesInv, OneFetch, FetchReads
<1>5. EndedIsKept'
  BY <1>1 DEF RoutesInv, EndedIsKept, Fresh, BackingOff, Locked
<1>. QED
  BY <1>2, <1>3, <1>4, <1>5 DEF RoutesInv

\* What a step finds.
LEMMA RoutesTypes ==
    ASSUME RoutesInv
    PROVE  /\ RoutesTypeOK
           /\ request \in [Payers -> RequestType]
           /\ status \in StatusType /\ limits \in LimitsType
           /\ relay \in [list: 1..Len(Lists), route: 0..Final]
           /\ chains \in [list: 0..relay.list, age: 0..ChainsTtl, failed: 0..CHAINS_BACKOFF, ended: Nat]
           /\ Len(Lists) \in Nat /\ Final \in Nat \ {0} /\ ChainsTtl \in Nat \ {0}
           /\ CHAINS_BACKOFF \in Nat \ {0} /\ STATUS_TTL \in Nat \ {0}
           /\ Quotes \in Nat \ {0} /\ Slice \in Nat \ {0}
           /\ decimals \in [Tokens -> Nat] /\ NATIVE \in Tokens
           /\ IdleRequest \in RequestType /\ IdleRequest.step = "idle"
<1>1. RoutesTypeOK
  BY DEF RoutesInv
<1>3. /\ Final \in Nat \ {0} /\ ChainsTtl \in Nat \ {0}
      /\ CHAINS_BACKOFF \in Nat \ {0} /\ STATUS_TTL \in Nat \ {0}
      /\ Quotes \in Nat \ {0} /\ Slice \in Nat \ {0}
      /\ decimals \in [Tokens -> Nat] /\ NATIVE \in Tokens
  BY RoutesAssumption
<1>4. /\ request \in [Payers -> RequestType]
      /\ status \in StatusType /\ limits \in LimitsType
      /\ relay \in [list: 1..Len(Lists), route: 0..Final]
      /\ chains \in [list: 0..relay.list, age: 0..ChainsTtl, failed: 0..CHAINS_BACKOFF, ended: Nat]
  BY <1>1 DEF RoutesTypeOK, RequestType, StatusType, LimitsType
<1>5. Len(Lists) \in Nat
  BY RoutesAssumption
<1>6. IdleRequest \in RequestType /\ IdleRequest.step = "idle"
  BY <1>3, <1>5 DEF IdleRequest, RequestType, Step, Endpoint
<1>. QED
  BY <1>1, <1>3, <1>4, <1>5, <1>6
\* A request that is over.
LEMMA RequestEnds ==
    ASSUME RoutesInv, UNCHANGED <<relay, chains>>, status' \in StatusType, limits' \in LimitsType,
           NEW p \in Payers, Done(p)
    PROVE  RoutesInv'
<1>. DEFINE e == IdleRequest
<1>1. request' = [request EXCEPT ![p] = e]
  BY DEF Done
<1>2. e \in RequestType /\ e.step = "idle"
  BY RoutesTypes
<1>3. Checked(e) /\ e.step # "fetch"
  BY <1>2 DEF Checked
<1>. HIDE DEF e
<1>. QED
  BY <1>1, <1>2, <1>3, RequestMoves

\* A request at another step, with what it has read and chosen.
LEMMA RequestGoes ==
    ASSUME RoutesInv, UNCHANGED <<relay, chains>>, status' \in StatusType, limits' \in LimitsType,
           NEW p \in Payers, NEW step \in Step, Goto(p, step),
           step # "fetch", step # "limit",
           step = "relay" => request[p].step = "limit"
    PROVE  RoutesInv'
<1>. DEFINE e == [request[p] EXCEPT !.step = step]
<1>1. request \in [Payers -> RequestType] /\ request[p] \in RequestType
  BY RoutesTypes
<1>2. request' = [request EXCEPT ![p] = e]
  BY DEF Goto
<1>3. /\ e \in RequestType /\ e.step = step /\ e.token = request[p].token
      /\ e.decimals = request[p].decimals
  BY <1>1 DEF RequestType
<1>. HIDE DEF e
<1>4. Checked(e)
  BY <1>3 DEF Checked, RoutesInv, RightDecimals
<1>. QED
  BY <1>2, <1>3, <1>4, RequestMoves

LEMMA ArriveKeeps ==
    ASSUME RoutesInv, NEW p \in Payers, Arrive(p)
    PROVE  RoutesInv'
<1>1. /\ request \in [Payers -> RequestType] /\ request[p] \in RequestType
      /\ status \in StatusType /\ limits \in LimitsType
  BY RoutesTypes
<1>2. PICK step \in {"chains", "lookup", "status"}, endpoint \in Endpoint :
          request' = [request EXCEPT ![p].step = step, ![p].endpoint = endpoint]
  BY DEF Arrive, Sources, SearchTokens, Quote, Prices,
         RouteTransaction, RouteStatus, Endpoint
<1>3. UNCHANGED <<relay, chains, status, limits>>
  BY DEF Arrive, Sources, SearchTokens, Quote, Prices,
         RouteTransaction, RouteStatus
<1>. DEFINE e == [request[p] EXCEPT !.step = step, !.endpoint = endpoint]
<1>4. request' = [request EXCEPT ![p] = e]
  BY <1>1, <1>2
<1>5. e \in RequestType /\ e.step = step
  BY <1>1, <1>2 DEF RequestType, Step
<1>. HIDE DEF e
<1>6. Checked(e) /\ e.step # "fetch"
  BY <1>5 DEF Checked
<1>. QED
  BY <1>1, <1>3, <1>4, <1>5, <1>6, RequestMoves

-----------------------------------------------------------------------------
(* The chain list                                                          *)

\* A list is handed to the payer.
LEMMA ServedFacts ==
    ASSUME RoutesInv, NEW p \in Payers, NEW v \in 0..Len(Lists), Served(p, v)
    PROVE  \E e \in RequestType :
              e.step = "listed" /\ e.read = v /\ request' = [request EXCEPT ![p] = e]
<1>. DEFINE e == [request[p] EXCEPT !.step = "listed", !.read = v]
<1>1. /\ request \in [Payers -> RequestType] /\ request[p] \in RequestType
      /\ Len(Lists) \in Nat /\ Final \in Nat
  BY RoutesTypes
<1>2. request' = [request EXCEPT ![p] = e]
  BY <1>1 DEF Served
<1>3. e \in RequestType /\ e.step = "listed" /\ e.read = v
  <2>1. v \in 0..Len(Lists) + Final
    BY <1>1
  <2>. QED
    BY <1>1, <2>1 DEF RequestType, Step
<1>. HIDE DEF e
<1>. QED
  BY <1>2, <1>3

\* A call for the list ends: the payer no longer holds the lock, and nobody else
\* does.
LEMMA CallEnds ==
    ASSUME RoutesInv, NEW p \in Payers, request[p].step = "fetch", UNCHANGED <<relay, status, limits>>,
           NEW e \in RequestType, request' = [request EXCEPT ![p] = e],
           e.step \in {"listed", "idle"},
           chains' \in [list: 0..relay.list, age: 0..ChainsTtl, failed: 0..CHAINS_BACKOFF, ended: Nat],
           chains'.ended = chains.ended + 1,
           Fresh' \/ BackingOff'
    PROVE  RoutesInv'
<1>1. /\ request \in [Payers -> RequestType]
      /\ relay \in [list: 1..Len(Lists), route: 0..Final] /\ status \in StatusType
      /\ limits \in LimitsType /\ chains.ended \in Nat
  BY RoutesTypes
<1>2. RoutesTypeOK'
  BY <1>1 DEF RoutesTypeOK, RequestType, StatusType, LimitsType
<1>3. RightDecimals'
  BY <1>1 DEF RoutesInv, RightDecimals
<1>4. OneFetch' /\ FetchReads' /\ ~Locked'
  BY <1>1 DEF RoutesInv, OneFetch, FetchReads, Locked
<1>5. chains.ended = 0
  BY DEF RoutesInv, EndedIsKept, Locked
<1>6. EndedIsKept'
  BY <1>4, <1>5 DEF EndedIsKept
<1>. QED
  BY <1>1, <1>2, <1>3, <1>4, <1>6 DEF RoutesInv

LEMMA ListKeeps ==
    ASSUME RoutesInv, NEW p \in Payers,
           \/ ServeCached(p) \/ BackOff(p) \/ StartFetch(p)
           \/ Fetched(p) \/ FetchFails(p)
    PROVE  RoutesInv'
<1>1. /\ request \in [Payers -> RequestType] /\ request[p] \in RequestType
      /\ relay \in [list: 1..Len(Lists), route: 0..Final] /\ status \in StatusType
      /\ limits \in LimitsType /\ Len(Lists) \in Nat /\ Final \in Nat \ {0}
      /\ ChainsTtl \in Nat \ {0} /\ CHAINS_BACKOFF \in Nat \ {0}
      /\ chains \in [list: 0..relay.list, age: 0..ChainsTtl, failed: 0..CHAINS_BACKOFF, ended: Nat]
      /\ IdleRequest \in RequestType
      /\ IdleRequest.step = "idle"
  BY RoutesTypes
<1>2. chains.list \in 0..Len(Lists)
  BY <1>1
<1>3. CASE ServeCached(p)
  <2>1. PICK e \in RequestType : e.step = "listed" /\ request' = [request EXCEPT ![p] = e]
    BY <1>2, <1>3, ServedFacts DEF ServeCached
  <2>2. Checked(e)
    BY <2>1 DEF Checked
  <2>. QED
    BY <1>1, <1>3, <2>1, <2>2, RequestMoves DEF ServeCached
<1>4. CASE BackOff(p)
  BY <1>1, <1>4, RequestEnds DEF BackOff
<1>5. CASE StartFetch(p)
  <2>. DEFINE e == [request[p] EXCEPT !.step = "fetch", !.read = relay.list]
  <2>1. /\ request' = [request EXCEPT ![p] = e] /\ UNCHANGED <<relay, chains, status, limits>>
        /\ ~Locked /\ ~Fresh /\ ~BackingOff
    BY <1>1, <1>5 DEF StartFetch
  <2>2. relay.list \in 1..Len(Lists) /\ relay.list \in 0..Len(Lists) + Final
    BY <1>1
  <2>3. e \in RequestType /\ e.step = "fetch" /\ e.read = relay.list
    BY <1>1, <2>2 DEF RequestType, Step
  <2>. HIDE DEF e
  <2>4. RoutesTypeOK'
    BY <1>1, <2>1, <2>3 DEF RoutesTypeOK, RequestType, StatusType, LimitsType
  <2>5. RightDecimals'
    BY <1>1, <2>1, <2>3 DEF RoutesInv, RightDecimals
  <2>6. OneFetch' /\ FetchReads'
    BY <1>1, <2>1, <2>2, <2>3 DEF RoutesInv, OneFetch, FetchReads, Locked
  <2>7. chains'.ended = 0
    BY <2>1 DEF RoutesInv, EndedIsKept
  <2>. QED
    BY <1>1, <2>4, <2>5, <2>6, <2>7 DEF RoutesInv, EndedIsKept
<1>6. CASE Fetched(p)
  <2>1. PICK v \in request[p].read..relay.list :
            /\ chains' = [list |-> v, age |-> 0, failed |-> CHAINS_BACKOFF, ended |-> chains.ended + 1]
            /\ Served(p, v)
    BY <1>6 DEF Fetched
  <2>2. request[p].step = "fetch" /\ request[p].read >= 1 /\ UNCHANGED <<relay, status, limits>>
    BY <1>6 DEF Fetched, RoutesInv, FetchReads
  <2>3. request[p].read \in Nat /\ v \in 1..relay.list /\ v \in 0..Len(Lists)
    <3>1. request[p].read \in Nat /\ relay.list \in 1..Len(Lists)
      BY <1>1 DEF RequestType
    <3>. QED
      BY <1>1, <2>2, <3>1
  <2>4. PICK e \in RequestType : e.step = "listed" /\ request' = [request EXCEPT ![p] = e]
    BY <2>1, <2>3, ServedFacts
  <2>5. /\ chains' \in [list: 0..relay.list, age: 0..ChainsTtl, failed: 0..CHAINS_BACKOFF, ended: Nat]
        /\ chains'.ended = chains.ended + 1 /\ chains'.list # 0 /\ chains'.age = 0
    <3>. DEFINE n == chains.ended + 1
    <3>1. chains.ended \in Nat
      BY <1>1
    <3>2. v \in 0..relay.list /\ v # 0 /\ 0 \in 0..ChainsTtl /\ CHAINS_BACKOFF \in 0..CHAINS_BACKOFF
      <4>1. relay.list \in Nat
        BY <1>1
      <4>. QED
        BY <1>1, <2>3, <4>1
    <3>3. n \in Nat /\ n = chains.ended + 1
      BY <3>1
    <3>4. chains' = [list |-> v, age |-> 0, failed |-> CHAINS_BACKOFF, ended |-> n]
      BY <2>1
    <3>. HIDE DEF n
    <3>. QED
      BY <3>2, <3>3, <3>4
  <2>6. Fresh'
    BY <1>1, <2>5 DEF Fresh
  <2>. QED
    BY <2>2, <2>4, <2>5, <2>6, CallEnds
<1>7. CASE FetchFails(p)
  <2>1. /\ request[p].step = "fetch" /\ UNCHANGED <<relay, status, limits>>
        /\ chains' = [chains EXCEPT !.failed = 0, !.ended = @ + 1]
    BY <1>7 DEF FetchFails
  <2>2. /\ chains' \in [list: 0..relay.list, age: 0..ChainsTtl, failed: 0..CHAINS_BACKOFF, ended: Nat]
        /\ chains'.ended = chains.ended + 1 /\ chains'.failed = 0
    <3>. DEFINE n == chains.ended + 1
    <3>1. chains.ended \in Nat /\ 0 \in 0..CHAINS_BACKOFF
      BY <1>1
    <3>2. n \in Nat /\ n = chains.ended + 1
      BY <3>1
    <3>3. chains' = [[chains EXCEPT !.failed = 0] EXCEPT !.ended = n]
      BY <1>1, <2>1
    <3>. HIDE DEF n
    <3>. QED
      BY <1>1, <3>1, <3>2, <3>3
  <2>3. BackingOff'
    BY <1>1, <2>2 DEF BackingOff
  <2>4. PICK e \in RequestType : e.step \in {"listed", "idle"} /\ request' = [request EXCEPT ![p] = e]
    <3>1. CASE chains.list # 0
      <4>1. Served(p, chains.list)
        BY <1>7, <3>1 DEF FetchFails
      <4>. QED
        BY <1>2, <4>1, ServedFacts
    <3>2. CASE chains.list = 0
      <4>1. request' = [request EXCEPT ![p] = IdleRequest]
        BY <1>7, <3>2 DEF FetchFails, Done
      <4>. QED
        BY <1>1, <4>1
    <3>. QED
      BY <3>1, <3>2
  <2>. QED
    BY <2>1, <2>2, <2>3, <2>4, CallEnds
<1>. QED
  BY <1>3, <1>4, <1>5, <1>6, <1>7

-----------------------------------------------------------------------------
(* Quotes, lookups and statuses                                            *)

LEMMA QuotingKeeps ==
    ASSUME RoutesInv, UNCHANGED <<relay, chains, status, limits>>, NEW p \in Payers,
           NEW t \in Tokens, Quoting(p, t, decimals[t])
    PROVE  RoutesInv'
<1>1. /\ request \in [Payers -> RequestType] /\ request[p] \in RequestType
      /\ status \in StatusType /\ limits \in LimitsType /\ decimals[t] \in Nat
  BY RoutesTypes
<1>. DEFINE d == decimals[t]
            e == [[[request[p] EXCEPT !.step = "limit"] EXCEPT !.token = t] EXCEPT !.decimals = d]
<1>2. request' = [request EXCEPT ![p] = e]
  BY <1>1 DEF Quoting
<1>3. e \in RequestType /\ e.step = "limit" /\ e.token = t /\ e.decimals = decimals[t]
  BY <1>1 DEF RequestType, Step
<1>. HIDE DEF e
<1>4. Checked(e)
  BY <1>3 DEF Checked
<1>. QED
  BY <1>1, <1>2, <1>3, <1>4, RequestMoves

LEMMA QuoteKeeps ==
    ASSUME RoutesInv, NEW p \in Payers,
           \/ \E t \in Tokens : ChooseToken(p, t)
           \/ FindDecimals(p) \/ Limit(p)
    PROVE  RoutesInv'
<1>1. /\ request \in [Payers -> RequestType] /\ request[p] \in RequestType
      /\ status \in StatusType /\ limits \in LimitsType /\ decimals \in [Tokens -> Nat]
      /\ Quotes \in Nat /\ Slice \in Nat
  BY RoutesTypes
<1>2. ASSUME NEW t \in Tokens, ChooseToken(p, t) PROVE RoutesInv'
  <2>. DEFINE list == Lists[request[p].read]
              d == chain_token_decimals(list, t)
  <2>1. /\ UNCHANGED <<relay, chains, status, limits>>
        /\ \/ Done(p)
           \/ request' = [request EXCEPT ![p].step = "decimals", ![p].token = t]
           \/ d # Unknown /\ Quoting(p, t, d)
    BY <1>2, Zenon DEF ChooseToken
  <2>2. d \in {Unknown, decimals[t]}
    BY DEF chain_token_decimals
  <2>3. CASE request' = [request EXCEPT ![p].step = "decimals", ![p].token = t]
    <3>. DEFINE e == [request[p] EXCEPT !.step = "decimals", !.token = t]
    <3>1. request' = [request EXCEPT ![p] = e]
      BY <1>1, <2>3
    <3>2. e \in RequestType /\ e.step = "decimals"
      BY <1>1 DEF RequestType, Step
    <3>. HIDE DEF e
    <3>3. Checked(e)
      BY <3>2 DEF Checked
    <3>. QED
      BY <1>1, <2>1, <3>1, <3>2, <3>3, RequestMoves
  <2>. HIDE DEF d
  <2>. QED
    BY <1>1, <2>1, <2>2, <2>3, RequestEnds, QuotingKeeps
<1>3. CASE FindDecimals(p)
  <2>. DEFINE t == request[p].token
              results == [here: {TRUE}, decimals: {decimals[t]}]
                             \cup [here: {FALSE}, decimals: {Foreign[t]}]
  <2>1. t \in Tokens
    BY <1>1 DEF RequestType
  <2>2. PICK found \in SUBSET results :
            \/ Done(p)
            \/ \E d \in Match(found) : Quoting(p, t, d)
    BY <1>3, Zenon DEF FindDecimals
  <2>3. \A d \in Match(found) : d = decimals[t]
    BY DEF Match
  <2>4. UNCHANGED <<relay, chains, status, limits>>
    BY <1>3, Zenon DEF FindDecimals
  <2>. QED
    BY <1>1, <2>1, <2>2, <2>3, <2>4, RequestEnds, QuotingKeeps
<1>4. CASE Limit(p)
  <2>. DEFINE quoted == limits.of[p] > 0 /\ limits.all > 0
  <2>1. /\ limits' = [all |-> IF quoted THEN limits.all - 1 ELSE limits.all,
                      of  |-> [limits.of EXCEPT ![p] = IF @ > 0 THEN @ - 1 ELSE @]]
        /\ request[p].step = "limit" /\ UNCHANGED <<relay, chains, status>>
        /\ Goto(p, "relay") \/ Done(p)
    BY <1>4 DEF Limit
  <2>2. limits.all \in 0..Quotes /\ limits.of \in [Payers -> 0..Slice] /\ limits.of[p] \in 0..Slice
    BY <1>1 DEF LimitsType
  <2>3. /\ (IF quoted THEN limits.all - 1 ELSE limits.all) \in 0..Quotes
        /\ (IF limits.of[p] > 0 THEN limits.of[p] - 1 ELSE limits.of[p]) \in 0..Slice
    BY <1>1, <2>2
  <2>4. limits' \in LimitsType
    BY <2>1, <2>2, <2>3 DEF LimitsType
  <2>5. "relay" \in Step
    BY DEF Step
  <2>. QED
    BY <1>1, <2>1, <2>4, <2>5, RequestEnds, RequestGoes
<1>. QED
  BY <1>2, <1>3, <1>4

LEMMA LookupKeeps ==
    ASSUME RoutesInv, NEW p \in Payers,
           \/ AnswerSources(p) \/ ScopeSearch(p) \/ LookupEnds(p)
           \/ Quoted(p) \/ StatusHit(p) \/ AskStatus(p)
           \/ KeepStatus(p) \/ StatusFails(p) \/ Leave(p)
    PROVE  RoutesInv'
<1>1. /\ request \in [Payers -> RequestType] /\ request[p] \in RequestType
      /\ status \in StatusType /\ limits \in LimitsType /\ STATUS_TTL \in Nat \ {0}
      /\ relay \in [list: 1..Len(Lists), route: 0..Final]
      /\ Len(Lists) \in Nat /\ Final \in Nat \ {0}
  BY RoutesTypes
<1>2. "lookup" \in Step
  BY DEF Step
<1>3. CASE AnswerSources(p) \/ ScopeSearch(p)
  BY <1>1, <1>2, <1>3, RequestEnds, RequestGoes DEF AnswerSources, ScopeSearch
<1>4. CASE \/ LookupEnds(p) \/ Quoted(p) \/ StatusHit(p)
           \/ StatusFails(p) \/ Leave(p)
  BY <1>1, <1>4, RequestEnds DEF LookupEnds, Quoted, StatusHit,
     StatusFails, Leave
<1>5. CASE AskStatus(p)
  <2>. DEFINE e == [request[p] EXCEPT !.step = "asked", !.read = relay.route]
  <2>1. request' = [request EXCEPT ![p] = e] /\ UNCHANGED <<relay, chains, status, limits>>
    BY <1>1, <1>5 DEF AskStatus
  <2>2. relay.route \in 0..Len(Lists) + Final
    BY <1>1
  <2>3. e \in RequestType /\ e.step = "asked"
    BY <1>1, <2>2 DEF RequestType, Step
  <2>. HIDE DEF e
  <2>4. Checked(e)
    BY <2>3 DEF Checked
  <2>. QED
    BY <1>1, <2>1, <2>3, <2>4, RequestMoves
<1>6. CASE KeepStatus(p)
  <2>1. PICK s \in request[p].read..relay.route : status' = [is |-> s, age |-> 0]
    BY <1>6 DEF KeepStatus
  <2>2. s \in 0..relay.route /\ 0 \in 0..STATUS_TTL - 1
    <3>1. request[p].read \in Nat /\ relay.route \in Nat
      BY <1>1 DEF RequestType
    <3>. QED
      BY <1>1, <3>1
  <2>3. status' \in StatusType
    BY <2>1, <2>2 DEF StatusType
  <2>. QED
    BY <1>1, <1>6, <2>3, RequestEnds DEF KeepStatus
<1>. QED
  BY <1>3, <1>4, <1>5, <1>6

-----------------------------------------------------------------------------
(* Time and Relay                                                          *)

LEMMA TickKeeps ==
    ASSUME RoutesInv, Tick
    PROVE  RoutesInv'
<1>1. /\ request \in [Payers -> RequestType]
      /\ relay \in [list: 1..Len(Lists), route: 0..Final] /\ status \in StatusType
      /\ limits \in LimitsType /\ RoutesTypeOK
      /\ ChainsTtl \in Nat \ {0} /\ CHAINS_BACKOFF \in Nat \ {0} /\ STATUS_TTL \in Nat \ {0}
      /\ Quotes \in Nat \ {0} /\ Slice \in Nat \ {0}
      /\ chains \in [list: 0..relay.list, age: 0..ChainsTtl, failed: 0..CHAINS_BACKOFF, ended: Nat]
  BY RoutesTypes
<1>2. ASSUME NEW a \in Nat, NEW b \in Nat PROVE Least(a, b) \in 0..b
  BY DEF Least
<1>3. UNCHANGED <<relay, request>>
  BY DEF Tick
<1>4. /\ chains' \in [list: 0..relay.list, age: 0..ChainsTtl, failed: 0..CHAINS_BACKOFF, ended: Nat]
      /\ chains'.ended = 0
  <2>. DEFINE age == Least(chains.age + 1, ChainsTtl)
              failed == Least(chains.failed + 1, CHAINS_BACKOFF)
  <2>1. chains.age + 1 \in Nat /\ chains.failed + 1 \in Nat
    BY <1>1
  <2>2. age \in 0..ChainsTtl /\ failed \in 0..CHAINS_BACKOFF
    BY <1>1, <1>2, <2>1
  <2>3. chains' = [[[chains EXCEPT !.age = age] EXCEPT !.failed = failed] EXCEPT !.ended = 0]
    BY <1>1 DEF Tick
  <2>. HIDE DEF age, failed
  <2>. QED
    BY <1>1, <2>2, <2>3
<1>5. status' \in StatusType
  <2>1. NoStatus \in StatusType
    BY <1>1 DEF NoStatus, StatusType
  <2>2. CASE status.is = Unknown \/ status.age + 1 = STATUS_TTL
    BY <2>1, <2>2 DEF Tick
  <2>3. CASE ~(status.is = Unknown \/ status.age + 1 = STATUS_TTL)
    <3>1. status' = [status EXCEPT !.age = @ + 1]
      BY <2>3 DEF Tick
    <3>2. status.age + 1 \in 0..STATUS_TTL - 1
      BY <1>1, <2>3 DEF StatusType
    <3>. QED
      BY <1>1, <3>1, <3>2 DEF StatusType
  <2>. QED
    BY <2>2, <2>3
<1>6. limits' \in LimitsType
  <2>1. Quotes \div Slice \in Nat
    <3>1. Quotes \in Nat /\ Slice \in Nat /\ Slice > 0
      BY <1>1
    <3>. QED
      BY ONLY <3>1
  <2>2. /\ limits.all \in Nat /\ limits.all + Quotes \div Slice \in Nat
        /\ \A p \in Payers : limits.of[p] + 1 \in Nat
    BY <1>1, <2>1 DEF LimitsType
  <2>3. /\ Least(limits.all + Quotes \div Slice, Quotes) \in 0..Quotes
        /\ \A p \in Payers : Least(limits.of[p] + 1, Slice) \in 0..Slice
    BY <1>1, <1>2, <2>2
  <2>4. limits' = [all |-> Least(limits.all + Quotes \div Slice, Quotes),
                   of  |-> [p \in Payers |-> Least(limits.of[p] + 1, Slice)]]
    BY DEF Tick
  <2>. QED
    BY <2>3, <2>4 DEF LimitsType
<1>7. RoutesTypeOK'
  BY <1>1, <1>3, <1>4, <1>5, <1>6 DEF RoutesTypeOK, RequestType, StatusType, LimitsType
<1>8. RightDecimals' /\ OneFetch' /\ FetchReads'
  BY <1>3 DEF RoutesInv, RightDecimals, OneFetch, FetchReads
<1>9. EndedIsKept'
  BY <1>4 DEF EndedIsKept
<1>. QED
  BY <1>1, <1>7, <1>8, <1>9 DEF RoutesInv

LEMMA RelayKeeps ==
    ASSUME RoutesInv, Publish \/ Advance
    PROVE  RoutesInv'
<1>1. /\ request \in [Payers -> RequestType]
      /\ relay \in [list: 1..Len(Lists), route: 0..Final] /\ status \in StatusType
      /\ limits \in LimitsType /\ Len(Lists) \in Nat /\ Final \in Nat \ {0}
      /\ chains \in [list: 0..relay.list, age: 0..ChainsTtl, failed: 0..CHAINS_BACKOFF, ended: Nat]
  BY RoutesTypes
<1>2. UNCHANGED <<chains, status, limits, request>>
  BY DEF Publish, Advance
<1>3. /\ relay' \in [list: 1..Len(Lists), route: 0..Final]
      /\ relay'.list >= relay.list /\ relay'.route >= relay.route
  <2>1. /\ relay.list \in 1..Len(Lists) /\ relay.route \in 0..Final
        /\ Len(Lists) \in Nat /\ Final \in Nat
    BY <1>1
  <2>2. CASE Publish
    <3>1. relay' = [relay EXCEPT !.list = relay.list + 1] /\ relay.list < Len(Lists)
      BY <2>2 DEF Publish
    <3>2. relay.list + 1 \in 1..Len(Lists) /\ relay.list + 1 >= relay.list /\ relay.route >= relay.route
      BY ONLY <2>1, <3>1
    <3>. QED
      BY <1>1, <3>1, <3>2
  <2>3. CASE Advance
    <3>1. relay' = [relay EXCEPT !.route = relay.route + 1] /\ relay.route < Final
      BY <2>3 DEF Advance
    <3>2. relay.route + 1 \in 0..Final /\ relay.route + 1 >= relay.route /\ relay.list >= relay.list
      BY ONLY <2>1, <3>1
    <3>. QED
      BY <1>1, <3>1, <3>2
  <2>. QED
    BY <2>2, <2>3
<1>4. chains' \in [list: 0..relay'.list, age: 0..ChainsTtl, failed: 0..CHAINS_BACKOFF, ended: Nat]
  BY <1>1, <1>2, <1>3
<1>5. status' \in [is: {Unknown} \cup (0..relay'.route), age: 0..STATUS_TTL - 1]
  BY <1>1, <1>2, <1>3 DEF StatusType
<1>6. RoutesTypeOK'
  BY <1>1, <1>2, <1>3, <1>4, <1>5 DEF RoutesTypeOK, RequestType, LimitsType
<1>7. RightDecimals' /\ OneFetch' /\ FetchReads' /\ EndedIsKept'
  BY <1>2 DEF RoutesInv, RightDecimals, OneFetch, FetchReads, EndedIsKept, Fresh,
     BackingOff, Locked
<1>. QED
  BY <1>1, <1>6, <1>7 DEF RoutesInv

-----------------------------------------------------------------------------
\* The list's lock and its memory of the last call hold the payers together,
\* and no quote is checked with another token's decimals (RelayClient::chains,
\* RelayClient::status, RouteLimits, quote).
THEOREM RoutesCorrect == RoutesSpec => []RoutesInv
<1>1. RoutesInit => RoutesInv
  <2>. SUFFICES ASSUME RoutesInit PROVE RoutesInv
    OBVIOUS
  <2>1. /\ Final \in Nat \ {0} /\ ChainsTtl \in Nat \ {0} /\ CHAINS_BACKOFF \in Nat \ {0}
        /\ STATUS_TTL \in Nat \ {0} /\ Quotes \in Nat \ {0} /\ Slice \in Nat \ {0}
        /\ NATIVE \in Tokens /\ Len(Lists) \in Nat
    BY RoutesAssumption
  <2>2. /\ relay \in [list: 1..Len(Lists), route: 0..Final] /\ chains = NoChains
        /\ status = NoStatus /\ limits = FullLimits
        /\ request = [p \in Payers |-> IdleRequest]
    BY DEF RoutesInit
  <2>3. IdleRequest \in RequestType /\ IdleRequest.step = "idle"
    BY <2>1 DEF IdleRequest, RequestType, Step, Endpoint
  <2>4. RoutesTypeOK
    <3>1. chains \in [list: 0..relay.list, age: 0..ChainsTtl, failed: 0..CHAINS_BACKOFF, ended: Nat]
      BY <2>1, <2>2 DEF NoChains
    <3>2. status \in [is: {Unknown} \cup (0..relay.route), age: 0..STATUS_TTL - 1]
      BY <2>1, <2>2 DEF NoStatus
    <3>3. limits \in [all: 0..Quotes, of: [Payers -> 0..Slice]]
      BY <2>1, <2>2 DEF FullLimits
    <3>4. request \in [Payers -> RequestType]
      BY <2>2, <2>3
    <3>. QED
      BY <2>2, <3>1, <3>2, <3>3, <3>4 DEF RoutesTypeOK, RequestType
  <2>5. RightDecimals /\ OneFetch /\ FetchReads
    BY <2>2, <2>3 DEF RightDecimals, OneFetch, FetchReads
  <2>6. EndedIsKept
    BY <2>2 DEF EndedIsKept, NoChains
  <2>. QED
    BY <2>4, <2>5, <2>6 DEF RoutesInv
<1>2. RoutesInv /\ [RoutesNext]_routesVars => RoutesInv'
  <2>1. CASE RoutesInv /\ UNCHANGED routesVars
    BY <2>1 DEF routesVars, RoutesInv, RoutesTypeOK, RightDecimals,
       OneFetch, FetchReads, EndedIsKept, Fresh, BackingOff, Locked
  <2>2. CASE RoutesInv /\ RoutesNext
    BY <2>2, ArriveKeeps, ListKeeps, QuoteKeeps, LookupKeeps, TickKeeps, RelayKeeps
       DEF RoutesNext, Progress
  <2>. QED
    BY <2>1, <2>2
<1>. QED
  BY <1>1, <1>2, PTL DEF RoutesSpec

\* The endpoints keep their types and budgets: no budget is overdrawn, no list
\* or status is kept that Relay has not published (RouteLimits, RelayClient).
THEOREM RoutesTypeCorrect == RoutesSpec => []RoutesTypeOK
<1>1. RoutesInv => RoutesTypeOK
  BY DEF RoutesInv
<1>. QED
  BY <1>1, RoutesCorrect, PTL

\* However many payers wait for the list, at most one call for it ends before
\* time moves on (RelayClient::chains).
THEOREM RoutesDoNotHerd == RoutesSpec => []NoHerd
<1>1. RoutesInv => NoHerd
  BY DEF RoutesInv, EndedIsKept, NoHerd
<1>. QED
  BY <1>1, RoutesCorrect, PTL

\* A quote is checked with its token's own decimals (quote,
\* chain_token_decimals).
THEOREM RoutesKnowDecimals == RoutesSpec => []RightDecimals
<1>1. RoutesInv => RightDecimals
  BY DEF RoutesInv
<1>. QED
  BY <1>1, RoutesCorrect, PTL
=============================================================================
