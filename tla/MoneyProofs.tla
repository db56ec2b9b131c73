----------------------------- MODULE MoneyProofs -----------------------------
(***************************************************************************)
(* Proofs about the components of the platform's money, for any payments,  *)
(* earnings, entries, notices, chains and workers and any value of the     *)
(* bounds: each component on its own, then the scenes of MCMoney.          *)
(***************************************************************************)
EXTENDS MCMoney, SumLemmas, SequenceTheorems, TLAPS

-----------------------------------------------------------------------------
(* WalletLedger: type correctness *)

LEMMA WalletTypeInit == WalletInit => WalletTypeOK
  <1>. SUFFICES ASSUME WalletInit PROVE WalletTypeOK
       OBVIOUS
  <1>1. Rest \in Work
        BY DEF Rest, Work, Op
  <1>2. rows \in Seq(Row) /\ wallet \in [there: BOOLEAN, usd: Nat]
        BY DEF WalletInit, NoWallet
  <1>3. customers \in 0..2
        BY DEF WalletInit
  <1>7. onboarded \in BOOLEAN
        BY DEF WalletInit
  <1>5. pay \in [Pays -> PayState]
        BY DEF WalletInit, PayState
  <1>6. acked \in [Pays -> BOOLEAN]
        BY DEF WalletInit
  <1>4. work \in [WalletWorkers -> Work]
        BY <1>1 DEF WalletInit
  <1>. QED BY <1>2, <1>3, <1>4, <1>5, <1>6, <1>7 DEF WalletTypeOK

LEMMA RestType == Rest \in Work
  BY DEF Rest, Work, Op

LEMMA AppliedType == ASSUME NEW kind \in RowKind, NEW usd \in Nat
                     PROVE  Applied(kind, usd) \in Nat
  BY DEF Applied, RowKind, Minus, TopupAmount, TickAmount

\* What a commit leaves: one row more, of the worker's own payment and reading, and
\* its balance in the wallet.
LEMMA PostsRow ==
    ASSUME WalletTypeOK, NEW w \in WalletWorkers, NEW kind \in RowKind, Posts(w, kind)
    PROVE  /\ wallet' \in [there: BOOLEAN, usd: Nat] /\ rows' \in Seq(Row)
           /\ wallet'.there = wallet.there
           /\ wallet'.usd = Applied(kind, work[w].read)
           /\ Len(rows) \in Nat /\ Len(rows') = Len(rows) + 1
           /\ \A n \in 1..Len(rows) : rows'[n] = rows[n]
           /\ rows'[Len(rows) + 1] = [kind |-> kind, pay |-> work[w].pay,
                                      after |-> wallet'.usd, since |-> work[w].since]
  <1>. DEFINE r == [kind |-> kind, pay |-> work[w].pay,
                    after |-> wallet'.usd, since |-> work[w].since]
  <1>0. Applied(kind, work[w].read) \in Nat
        BY AppliedType DEF WalletTypeOK, Work
  <1>1. /\ wallet' \in [there: BOOLEAN, usd: Nat]
        /\ wallet'.there = wallet.there /\ wallet'.usd = Applied(kind, work[w].read)
        BY <1>0 DEF WalletTypeOK, Posts
  <1>2. r \in Row
        BY <1>1 DEF WalletTypeOK, Work, Row
  <1>3. rows' = Append(rows, r) /\ rows \in Seq(Row)
        BY DEF Posts, WalletTypeOK
  <1>4. /\ rows' \in Seq(Row) /\ Len(rows) \in Nat /\ Len(rows') = Len(rows) + 1
        /\ \A n \in 1..Len(rows) : rows'[n] = rows[n]
        /\ rows'[Len(rows) + 1] = r
    <2>. HIDE DEF r
    <2>. QED BY <1>2, <1>3
  <1>. QED BY <1>1, <1>4

LEMMA ReadsType ==
    ASSUME WalletTypeOK, NEW w \in WalletWorkers, NEW op \in Op,
           NEW p \in Pays \cup {NoPay}, Reads(w, op, p)
    PROVE  work' \in [WalletWorkers -> Work]
  <1>1. [op |-> op, pay |-> p, read |-> wallet.usd, since |-> Len(rows)] \in Work
        BY DEF WalletTypeOK, Work
  <1>. QED BY <1>1 DEF WalletTypeOK, Reads

\* A handler that commits has read, and posts at most one row.
LEMMA CommitPosts ==
    ASSUME NEW w \in WalletWorkers,
           WebhookCommits(w) \/ FallbackCommits(w) \/ UsageCommits(w)
    PROVE  /\ work[w].op \in {"webhook", "fallback", "tick", "refund"}
           /\ work' = [work EXCEPT ![w] = Rest]
           /\ UNCHANGED <<customers, onboarded, pay>>
           /\ \/ UNCHANGED <<wallet, rows, acked>>
              \/ /\ \E kind \in RowKind : Posts(w, kind)
                 /\ \/ UNCHANGED acked
                    \/ /\ work[w].op = "webhook"
                       /\ acked' = [acked EXCEPT ![work[w].pay] = TRUE]
  <1>1. {"topup", "debit", "refund"} \subseteq RowKind
        BY DEF RowKind
  <1>2. CASE WebhookCommits(w)
        BY <1>1, <1>2 DEF WebhookCommits
  <1>3. CASE FallbackCommits(w)
        BY <1>1, <1>3 DEF FallbackCommits
  <1>4. CASE UsageCommits(w)
        BY <1>1, <1>4 DEF UsageCommits
  <1>. QED BY <1>2, <1>3, <1>4

LEMMA WalletTypeStep == ASSUME WalletTypeOK, [WalletNext]_walletVars
                        PROVE  WalletTypeOK'
  <1>1. ASSUME NEW p \in Pays, Topup(p) \/ TopupUpi(p) \/ Succeeds(p) \/ UpiConfirm(p)
        PROVE  WalletTypeOK'
        BY <1>1 DEF Topup, TopupUpi, Intent, Succeeds, UpiConfirm, WalletTypeOK, PayState
  <1>2. CASE AccountUpdated
        BY <1>2 DEF AccountUpdated, WalletTypeOK
  <1>3. ASSUME NEW w \in WalletWorkers, WalletWorker(w) PROVE WalletTypeOK'
    <2>1. work[w] \in Work /\ Rest \in Work /\ work[w].read \in Nat
          BY RestType DEF WalletTypeOK, Work
    <2>2. CASE SignUpEvent(w)
      <3>1. work' \in [WalletWorkers -> Work]
            BY <2>1, <2>2 DEF SignUpEvent, WalletTypeOK, Work, Op
      <3>2. customers' \in 0..2
            BY <2>2 DEF SignUpEvent, WalletTypeOK
      <3>. QED BY <2>2, <3>1, <3>2 DEF SignUpEvent, WalletTypeOK
    <2>3. CASE SignUpCommit(w)
          BY <2>1, <2>3 DEF SignUpCommit, WalletTypeOK
    <2>4. ASSUME NEW p \in StripePays, WebhookReads(w, p) \/ FallbackReads(w, p)
          PROVE  WalletTypeOK'
      <3>1. work' \in [WalletWorkers -> Work]
            BY <2>4, ReadsType DEF WebhookReads, FallbackReads, Pays, Op, WalletTypeOK
      <3>2. acked' \in [Pays -> BOOLEAN]
            BY <2>4 DEF WebhookReads, FallbackReads, WalletTypeOK
      <3>. QED BY <2>4, <3>1, <3>2 DEF WebhookReads, FallbackReads, WalletTypeOK
    <2>5. CASE WebhookCommits(w) \/ FallbackCommits(w) \/ UsageCommits(w)
      <3>1. wallet' \in [there: BOOLEAN, usd: Nat] /\ rows' \in Seq(Row)
            BY <2>5, CommitPosts, PostsRow DEF WalletTypeOK
      <3>2. work' \in [WalletWorkers -> Work] /\ acked' \in [Pays -> BOOLEAN]
            BY <2>1, <2>5, CommitPosts DEF WalletTypeOK
      <3>. QED BY <2>5, <3>1, <3>2, CommitPosts DEF WalletTypeOK
    <2>7. CASE TickReads(w) \/ RefundReads(w)
      <3>1. work' \in [WalletWorkers -> Work]
            BY <2>7, ReadsType DEF TickReads, RefundReads, Op
      <3>. QED BY <2>7, <3>1 DEF TickReads, RefundReads, WalletTypeOK
    <2>9. CASE WalletAborts(w)
          BY <2>1, <2>9 DEF WalletAborts, WalletTypeOK
    <2>. QED BY <1>3, <2>2, <2>3, <2>4, <2>5, <2>7, <2>9 DEF WalletWorker
  <1>4. CASE UNCHANGED walletVars
        BY <1>4 DEF walletVars, WalletTypeOK
  <1>. QED BY <1>1, <1>2, <1>3, <1>4 DEF WalletNext

LEMMA WalletTypeInvariant == WalletSpec => []WalletTypeOK
  BY WalletTypeInit, WalletTypeStep, PTL DEF WalletSpec

-----------------------------------------------------------------------------
(* WalletLedger: the rows, the balance and the credits *)

\* What a worker knows: a payment is credited by one that found no row of it when it
\* read the balance, and the balance it read was that of the last row.
WorkInv(v) ==
    /\ work[v].op \in {"webhook", "fallback"} => work[v].pay \in StripePays
    /\ work[v].op \in {"tick", "refund"} => work[v].pay = NoPay
    /\ work[v].op \notin {"none", "signup"} =>
          /\ wallet.there
          /\ work[v].since <= Len(rows) /\ work[v].read = BalanceAt(work[v].since)
          /\ \A m \in 1..Len(rows) : rows[m].pay = work[v].pay /\ work[v].pay # NoPay
                                        => work[v].since < m

\* There is no balance without a wallet and no payment without one; each worker's
\* knowledge holds until it commits.
WalletInv ==
    /\ ~ wallet.there => wallet.usd = 0
    /\ \A p \in Pays : pay[p] # "none" => wallet.there
    /\ \A v \in WalletWorkers : WorkInv(v)
    /\ AckedIsCredited /\ CreditsOverlap /\ BalanceAddsUp

LEMMA WalletInvInit == WalletInit => WalletInv
  <1>. SUFFICES ASSUME WalletInit PROVE WalletInv
       OBVIOUS
  <1>1. AckedIsCredited /\ CreditsOverlap
        BY DEF WalletInit, AckedIsCredited, CreditsOverlap, RowsOf, Pays
  <1>2. BalanceAddsUp
        BY DEF WalletInit, BalanceAddsUp, BalanceAt, NoWallet
  <1>3. \A v \in WalletWorkers : WorkInv(v)
        BY DEF WalletInit, WorkInv, Rest
  <1>. QED BY <1>1, <1>2, <1>3 DEF WalletInit, WalletInv, NoWallet

\* A step that appends no row and leaves the balance keeps what a worker knew that is
\* still at the same work, or has ended it, or has just read.
LEMMA QuietStep ==
    ASSUME WalletTypeOK, WalletInv, UNCHANGED rows, wallet'.usd = wallet.usd,
           wallet.there => wallet'.there,
           \A v \in WalletWorkers :
              \/ work'[v] = work[v] \/ work'[v] = Rest \/ work'[v].op = "signup"
              \/ /\ work'[v].read = wallet.usd /\ work'[v].since = Len(rows)
                 /\ wallet.there
                 /\ \/ /\ work'[v].op \in {"webhook", "fallback"}
                       /\ work'[v].pay \in StripePays /\ RowsOf(work'[v].pay) = {}
                    \/ work'[v].op \in {"tick", "refund"} /\ work'[v].pay = NoPay,
           \A p \in Pays : pay'[p] # "none" => wallet'.there,
           \A p \in StripePays : acked'[p] => acked[p] \/ RowsOf(p) # {}
    PROVE  WalletInv'
  <1>0. Len(rows) \in Nat
        BY DEF WalletTypeOK
  <1>1. ASSUME NEW v \in WalletWorkers PROVE WorkInv(v)'
    <2>1. WorkInv(v) /\ BalanceAddsUp
          BY DEF WalletInv
    <2>2. CASE work'[v] = work[v]
          BY <2>1, <2>2 DEF WorkInv, BalanceAt
    <2>3. CASE work'[v] = Rest \/ work'[v].op = "signup"
          BY <2>3 DEF WorkInv, Rest
    <2>4. CASE /\ work'[v].read = wallet.usd /\ work'[v].since = Len(rows)
               /\ wallet.there
               /\ \/ /\ work'[v].op \in {"webhook", "fallback"}
                     /\ work'[v].pay \in StripePays /\ RowsOf(work'[v].pay) = {}
                  \/ work'[v].op \in {"tick", "refund"} /\ work'[v].pay = NoPay
      <3>1. work'[v].read = BalanceAt(work'[v].since) /\ work'[v].since <= Len(rows)
            BY <1>0, <2>1, <2>4 DEF BalanceAddsUp
      <3>2. \A m \in 1..Len(rows) : rows[m].pay = work'[v].pay /\ work'[v].pay # NoPay
                                       => work'[v].since < m
            BY <2>4 DEF RowsOf
      <3>. QED BY <2>4, <3>1, <3>2 DEF WorkInv, BalanceAt
    <2>. QED BY <2>2, <2>3, <2>4
  <1>2. AckedIsCredited' /\ CreditsOverlap' /\ BalanceAddsUp'
        BY DEF WalletInv, AckedIsCredited, CreditsOverlap, BalanceAddsUp, BalanceAt, RowsOf
  <1>. QED BY <1>1, <1>2 DEF WalletInv, WalletTypeOK

\* A commit keeps the rows' balances and the credits in order.
LEMMA CommitStep ==
    ASSUME WalletTypeOK, WalletInv, NEW w \in WalletWorkers, NEW kind \in RowKind,
           Posts(w, kind), work' = [work EXCEPT ![w] = Rest], UNCHANGED pay,
           work[w].op \in {"webhook", "fallback", "tick", "refund"},
           \/ UNCHANGED acked
           \/ work[w].op = "webhook" /\ acked' = [acked EXCEPT ![work[w].pay] = TRUE]
    PROVE  WalletInv'
  <1>. DEFINE n == Len(rows) + 1
              r == work[w]
  <1>1. /\ n \in Nat \ {0} /\ Len(rows') = n /\ Len(rows) = n - 1
        /\ \A m \in 1..(n - 1) : rows'[m] = rows[m]
        /\ rows'[n].kind = kind /\ rows'[n].pay = r.pay /\ rows'[n].since = r.since
        /\ rows'[n].after = wallet'.usd /\ wallet'.usd = Applied(kind, r.read)
        /\ wallet'.there = wallet.there
    <2>1. /\ Len(rows) \in Nat /\ Len(rows') = n
          /\ \A m \in 1..Len(rows) : rows'[m] = rows[m]
          BY PostsRow
    <2>2. /\ wallet'.usd = Applied(kind, r.read) /\ wallet'.there = wallet.there
          /\ rows'[n] = [kind |-> kind, pay |-> r.pay, after |-> wallet'.usd,
                         since |-> r.since]
          BY PostsRow
    <2>. HIDE DEF r
    <2>. QED BY <2>1, <2>2
  <1>2. /\ r.since \in Nat /\ r.since < n /\ r.read = BalanceAt(r.since) /\ wallet.there
        /\ \A m \in 1..(n - 1) : rows[m].pay = r.pay /\ r.pay # NoPay => r.since < m
        /\ r.op \in {"webhook", "fallback"} => r.pay \in StripePays
        /\ r.op \in {"tick", "refund"} => r.pay = NoPay
    <2>1. WorkInv(w) /\ r.since \in Nat
          BY DEF WalletInv, WalletTypeOK, Work
    <2>. QED BY <1>1, <2>1 DEF WorkInv
  <1>. HIDE DEF n, r
  <1>. DEFINE After(k) == IF k = 0 THEN 0 ELSE rows'[k].after
  <1>3. \A k \in 0..(n - 1) : After(k) = BalanceAt(k)
        BY <1>1 DEF BalanceAt
  <1>. HIDE DEF After
  <1>4. BalanceAddsUp'
    <2>1. wallet'.usd = After(n)
          BY <1>1 DEF After
    <2>2. ASSUME NEW k \in 1..n
          PROVE  /\ rows'[k].since < k
                 /\ rows'[k].after = Applied(rows'[k].kind, After(rows'[k].since))
      <3>1. CASE k = n
            BY <1>1, <1>2, <1>3, <3>1
      <3>2. CASE k \in 1..(n - 1)
        <4>1. /\ rows[k].since < k /\ rows[k].since \in Nat
              /\ rows[k].after = Applied(rows[k].kind, BalanceAt(rows[k].since))
          <5>1. rows[k] \in Row /\ k \in 1..Len(rows)
                BY <1>1, <3>2 DEF WalletTypeOK
          <5>2. rows[k].since \in Nat
                BY <5>1 DEF Row
          <5>. QED BY <5>1, <5>2 DEF WalletInv, BalanceAddsUp
        <4>2. rows[k].since \in 0..(n - 1)
              BY <1>1, <3>2, <4>1
        <4>3. After(rows[k].since) = BalanceAt(rows[k].since)
              BY <1>3, <4>2
        <4>. QED BY <1>1, <3>2, <4>1, <4>3
      <3>. QED BY <1>1, <3>1, <3>2
    <2>3. wallet'.usd = BalanceAt(Len(rows))'
          BY <1>1, <2>1 DEF BalanceAt, After
    <2>4. \A k \in 1..n :
             /\ rows'[k].since < k
             /\ rows'[k].after = Applied(rows'[k].kind,
                   IF rows'[k].since = 0 THEN 0 ELSE rows'[rows'[k].since].after)
          BY <2>2 DEF After
    <2>. QED BY <1>1, <2>3, <2>4 DEF BalanceAddsUp, BalanceAt
  <1>5. \A p : RowsOf(p)' = IF r.pay = p THEN RowsOf(p) \cup {n} ELSE RowsOf(p)
        BY <1>1 DEF RowsOf
  <1>6. \A p : RowsOf(p) \subseteq 1..(n - 1)
        BY <1>1 DEF RowsOf
  <1>7. CreditsOverlap'
    <2>. SUFFICES ASSUME NEW p \in Pays, NEW m \in RowsOf(p)', NEW k \in RowsOf(p)', m < k
                  PROVE  rows'[k].since < m
         BY DEF CreditsOverlap
    <2>1. CASE k = n /\ r.pay = p
      <3>1. m \in RowsOf(p) /\ m \in 1..(n - 1) /\ rows[m].pay = p
            BY <1>1, <1>5, <1>6, <2>1 DEF RowsOf
      <3>. QED BY <1>1, <1>2, <2>1, <3>1, WalletAssumption DEF WalletAssumption
    <2>2. CASE ~ (k = n /\ r.pay = p)
      <3>1. k \in RowsOf(p) /\ k \in 1..(n - 1) /\ m \in RowsOf(p)
            BY <1>1, <1>5, <1>6, <2>2
      <3>. QED BY <1>1, <3>1 DEF WalletInv, CreditsOverlap
    <2>. QED BY <2>1, <2>2
  <1>8. AckedIsCredited'
    <2>1. ASSUME NEW p \in StripePays, acked'[p]
          PROVE  RowsOf(p)' # {}
      <3>1. acked[p] \/ r.pay = p
            BY <2>1 DEF WalletTypeOK, r, Pays
      <3>. QED BY <1>5, <3>1 DEF WalletInv, AckedIsCredited
    <2>. QED BY <2>1 DEF AckedIsCredited
  <1>9. ASSUME NEW v \in WalletWorkers PROVE WorkInv(v)'
    <2>1. CASE v = w
      <3>1. work'[v] = Rest
            BY <2>1 DEF WalletTypeOK
      <3>. QED BY <3>1 DEF WorkInv, Rest
    <2>2. CASE v # w
      <3>1. work'[v] = work[v] /\ work[v].since \in Nat /\ WorkInv(v)
            BY <2>2 DEF WalletTypeOK, Work, WalletInv
      <3>2. CASE work[v].op \in {"none", "signup"}
            BY <3>1, <3>2 DEF WorkInv
      <3>3. CASE work[v].op \notin {"none", "signup"}
        <4>1. /\ work[v].since <= n - 1 /\ work[v].read = BalanceAt(work[v].since)
              /\ \A m \in 1..(n - 1) : rows[m].pay = work[v].pay /\ work[v].pay # NoPay
                                          => work[v].since < m
              BY <1>1, <3>1, <3>3 DEF WorkInv
        <4>2. /\ work[v].since <= n /\ work[v].read = After(work[v].since)
              BY <1>1, <1>3, <3>1, <4>1
        <4>3. \A m \in 1..n : rows'[m].pay = work[v].pay /\ work[v].pay # NoPay
                                 => work[v].since < m
          <5>. SUFFICES ASSUME NEW m \in 1..n, rows'[m].pay = work[v].pay,
                               work[v].pay # NoPay
                        PROVE  work[v].since < m
               OBVIOUS
          <5>1. CASE m = n
                BY <1>1, <3>1, <4>1, <5>1
          <5>2. CASE m \in 1..(n - 1)
                BY <1>1, <4>1, <5>2
          <5>. QED BY <1>1, <5>1, <5>2
        <4>. QED BY <1>1, <3>1, <4>2, <4>3 DEF WorkInv, BalanceAt, After
      <3>. QED BY <3>2, <3>3
    <2>. QED BY <2>1, <2>2
  <1>. QED BY <1>1, <1>2, <1>4, <1>7, <1>8, <1>9 DEF WalletInv

LEMMA WalletInvStep == ASSUME WalletTypeOK, WalletInv, [WalletNext]_walletVars
                       PROVE  WalletInv'
  <1>1. ASSUME NEW p \in Pays, Topup(p) \/ TopupUpi(p) \/ Succeeds(p) \/ UpiConfirm(p)
        PROVE  WalletInv'
    <2>1. UNCHANGED <<wallet, rows, work>>
          BY <1>1 DEF Topup, TopupUpi, Intent, Succeeds, UpiConfirm
    <2>2. \A q \in Pays : pay'[q] # "none" => wallet.there
          BY <1>1 DEF Topup, TopupUpi, Intent, Succeeds, UpiConfirm, WalletTypeOK, WalletInv
    <2>3. \A q \in StripePays : acked'[q] = acked[q]
          BY <1>1, WalletAssumption
          DEF Topup, TopupUpi, Intent, Succeeds, UpiConfirm, WalletTypeOK, WalletAssumption, Pays
    <2>. QED BY <2>1, <2>2, <2>3, QuietStep
  <1>2. CASE AccountUpdated
    <2>1. UNCHANGED <<wallet, pay, acked, rows, work>>
          BY <1>2 DEF AccountUpdated
    <2>. QED BY <2>1, QuietStep DEF WalletInv
  <1>3. ASSUME NEW w \in WalletWorkers, WalletWorker(w) PROVE WalletInv'
    <2>1. CASE SignUpEvent(w)
      <3>1. UNCHANGED <<wallet, pay, acked, rows>> /\ work' = [work EXCEPT ![w].op = "signup"]
            BY <2>1 DEF SignUpEvent
      <3>2. \A v \in WalletWorkers : work'[v] = work[v] \/ work'[v].op = "signup"
            BY <3>1 DEF WalletTypeOK, Work
      <3>. QED BY <3>1, <3>2, QuietStep DEF WalletInv
    <2>2. CASE SignUpCommit(w) \/ WalletAborts(w)
      <3>1. /\ UNCHANGED <<pay, acked, rows>> /\ work' = [work EXCEPT ![w] = Rest]
            /\ wallet' = wallet \/ (~ wallet.there /\ wallet' = [there |-> TRUE, usd |-> 0])
            BY <2>2 DEF SignUpCommit, WalletAborts
      <3>2. (wallet.there => wallet'.there) /\ wallet'.usd = wallet.usd
            BY <3>1 DEF WalletInv
      <3>3. \A v \in WalletWorkers : work'[v] = Rest \/ work'[v] = work[v]
            BY <3>1 DEF WalletTypeOK
      <3>. QED BY <3>1, <3>2, <3>3, QuietStep DEF WalletInv
    <2>3. ASSUME NEW p \in StripePays, WebhookReads(w, p) \/ FallbackReads(w, p)
          PROVE  WalletInv'
      <3>1. UNCHANGED <<wallet, pay, rows>>
            BY <2>3 DEF WebhookReads, FallbackReads
      <3>2. wallet.there
            BY <2>3 DEF WebhookReads, FallbackReads, Pays, WalletInv
      <3>3. \A v \in WalletWorkers :
               \/ work'[v] = work[v]
               \/ /\ work'[v].read = wallet.usd /\ work'[v].since = Len(rows)
                  /\ work'[v].op \in {"webhook", "fallback"} /\ work'[v].pay = p
                  /\ RowsOf(p) = {}
        <4>1. \/ UNCHANGED work
              \/ /\ RowsOf(p) = {}
                 /\ \E op \in {"webhook", "fallback"} :
                       work' = [work EXCEPT ![w] = [op |-> op, pay |-> p,
                                   read |-> wallet.usd, since |-> Len(rows)]]
              BY <2>3 DEF WebhookReads, FallbackReads, Reads
        <4>. QED BY <4>1 DEF WalletTypeOK
      <3>4. \A q \in StripePays : acked'[q] => acked[q] \/ RowsOf(q) # {}
        <4>1. \/ UNCHANGED acked
              \/ acked' = [acked EXCEPT ![p] = TRUE] /\ Cardinality(RowsOf(p)) = 1
              BY <2>3, <3>2 DEF WebhookReads, FallbackReads
        <4>2. Cardinality(RowsOf(p)) = 1 => RowsOf(p) # {}
              BY FS_EmptySet
        <4>. QED BY <4>1, <4>2 DEF WalletTypeOK, Pays
      <3>. QED BY <3>1, <3>2, <3>3, <3>4, QuietStep DEF WalletInv
    <2>4. CASE TickReads(w) \/ RefundReads(w)
      <3>1. UNCHANGED <<wallet, pay, acked, rows>> /\ wallet.there
            BY <2>4 DEF TickReads, RefundReads
      <3>2. \A v \in WalletWorkers :
               \/ work'[v] = work[v]
               \/ /\ work'[v].read = wallet.usd /\ work'[v].since = Len(rows)
                  /\ work'[v].op \in {"tick", "refund"} /\ work'[v].pay = NoPay
            BY <2>4 DEF TickReads, RefundReads, Reads, WalletTypeOK
      <3>. QED BY <3>1, <3>2, QuietStep DEF WalletInv
    <2>5. CASE WebhookCommits(w) \/ FallbackCommits(w) \/ UsageCommits(w)
      <3>1. CASE UNCHANGED <<wallet, rows, acked>>
        <4>1. \A v \in WalletWorkers : work'[v] = Rest \/ work'[v] = work[v]
              BY <2>5, CommitPosts DEF WalletTypeOK
        <4>. QED BY <2>5, <3>1, <4>1, CommitPosts, QuietStep DEF WalletInv
      <3>. QED BY <2>5, <3>1, CommitPosts, CommitStep
    <2>. QED BY <1>3, <2>1, <2>2, <2>3, <2>4, <2>5 DEF WalletWorker
  <1>4. CASE UNCHANGED walletVars
        BY <1>4, QuietStep DEF walletVars, WalletInv
  <1>. QED BY <1>1, <1>2, <1>3, <1>4 DEF WalletNext

\* What was acknowledged to Stripe was credited, only deliveries that overlap credit
\* twice, and the balance adds up but for rows committed between a read and its write.
LEMMA WalletIsSafe ==
    WalletSpec => [](WalletTypeOK /\ AckedIsCredited /\ CreditsOverlap /\ BalanceAddsUp)
  <1>1. WalletInv => AckedIsCredited /\ CreditsOverlap /\ BalanceAddsUp
        BY DEF WalletInv
  <1>2. WalletSpec => []WalletInv
        BY WalletInvInit, WalletInvStep, WalletTypeInvariant, PTL DEF WalletSpec
  <1>. QED BY <1>1, <1>2, WalletTypeInvariant, PTL

-----------------------------------------------------------------------------
(* FinanceLedger: type correctness *)

LEMMA NoTxType == NoTx \in Tx
  <1>1. 0 \in 0..MaxPayouts
        BY FinanceAssumption DEF FinanceAssumption
  <1>. QED BY <1>1 DEF NoTx, Tx

LEMMA FinanceTypeInit == FinanceInit => FinanceTypeOK
  <1>. SUFFICES ASSUME FinanceInit PROVE FinanceTypeOK
       OBVIOUS
  <1>1. report \in Report
        BY DEF FinanceInit, Report
  <1>2. /\ earning \in [Earnings -> EarningStatus]
        /\ tx \in [FinanceWorkers -> Tx]
        BY NoTxType DEF FinanceInit, EarningStatus
  <1>. QED BY <1>1, <1>2 DEF FinanceInit, FinanceTypeOK

LEMMA DoubleEntryType ==
    ASSUME FinanceTypeOK, NEW d \in Accounts, NEW c \in Accounts, NEW n \in Nat,
           RecordDoubleEntry(d, c, n)
    PROVE  debits' \in [Accounts -> Nat] /\ credits' \in [Accounts -> Nat]
  BY DEF FinanceTypeOK, RecordDoubleEntry

LEMMA OwedType == ASSUME FinanceTypeOK, NEW k \in 1..Len(payouts)
                  PROVE  /\ IsFiniteSet(payouts[k].items) /\ payouts[k].items \subseteq Earnings
                         /\ Owed(k) \in Nat
  <1>1. payouts[k] \in Payout
        BY DEF FinanceTypeOK
  <1>2. payouts[k].items \in SUBSET Earnings
        BY <1>1 DEF Payout
  <1>3. IsFiniteSet(payouts[k].items) /\ Cardinality(payouts[k].items) \in Nat
        BY <1>2, FS_Subset, FS_CardinalityType, FinanceAssumption DEF FinanceAssumption
  <1>. QED BY <1>2, <1>3 DEF Owed, Net

\* A caller's transaction has read a payout that is there, or inserted an event
\* that is not committed.
TxInv ==
    /\ \A w \in FinanceWorkers :
          /\ tx[w].op = "execute" => tx[w].payout \in 1..Len(payouts)
          /\ tx[w].op = "webhook" => tx[w].event \in Events
          /\ tx[w].op = "webhook" /\ tx[w].event \in NamedEvents =>
                /\ webhooks[tx[w].event] = 0
                /\ \A v \in FinanceWorkers :
                      tx[v].op = "webhook" /\ tx[v].event = tx[w].event => v = w
    /\ transferred \subseteq 1..Len(payouts)

\* What an attempt leaves of the payouts: the k-th with another status and number of
\* attempts, and posted m times more.
Attempted(k, m) ==
    /\ payouts' \in Seq(Payout) /\ Len(payouts') = Len(payouts)
    /\ \A j \in 1..Len(payouts) :
          /\ payouts'[j].items = payouts[j].items
          /\ payouts'[j].posted = payouts[j].posted + (IF j = k THEN m ELSE 0)

LEMMA PayoutReplaced ==
    ASSUME FinanceTypeOK, NEW k \in 1..Len(payouts), NEW p \in Payout, NEW m \in Nat,
           payouts' = [payouts EXCEPT ![k] = p],
           p.items = payouts[k].items, p.posted = payouts[k].posted + m
    PROVE  Attempted(k, m)
  <1>1. payouts \in Seq(Payout)
        BY DEF FinanceTypeOK
  <1>2. /\ payouts' \in Seq(Payout) /\ Len(payouts') = Len(payouts)
        /\ \A j \in 1..Len(payouts) : payouts'[j] = IF j = k THEN p ELSE payouts[j]
        BY <1>1, ExceptSeq
  <1>3. ASSUME NEW j \in 1..Len(payouts) PROVE payouts[j].posted \in Nat
    <2>1. payouts[j] \in Payout
          BY <1>1
    <2>. QED BY <2>1 DEF Payout
  <1>. QED BY <1>2, <1>3 DEF Attempted

LEMMA CompletesStep ==
    ASSUME FinanceTypeOK, TxInv, NEW w \in FinanceWorkers, ExecuteCompletes(w)
    PROVE  tx[w].payout \in 1..Len(payouts) /\ Attempted(tx[w].payout, 1)
  <1>. DEFINE k == tx[w].payout
              n == tx[w].attempts + 1
              m == payouts[k].posted + 1
              p == [payouts[k] EXCEPT !.status = "completed", !.attempts = n, !.posted = m]
  <1>1. k \in 1..Len(payouts) /\ n \in Nat
        BY DEF ExecuteCompletes, TxInv, FinanceTypeOK, Tx
  <1>2. payouts[k] \in Payout
        BY <1>1 DEF FinanceTypeOK
  <1>3. m \in Nat
        BY <1>2 DEF Payout
  <1>4. p \in Payout /\ p.items = payouts[k].items /\ p.posted = m
    <2>1. "completed" \in PayoutStatus
          BY DEF PayoutStatus
    <2>. HIDE DEF k, n, m
    <2>. QED BY <1>1, <1>2, <1>3, <2>1 DEF Payout
  <1>5. payouts' = [payouts EXCEPT ![k] = p]
        BY DEF ExecuteCompletes
  <1>. HIDE DEF k, p
  <1>6. Attempted(k, 1)
        BY <1>1, <1>4, <1>5, PayoutReplaced
  <1>. QED BY <1>1, <1>6 DEF k

LEMMA FailsStep ==
    ASSUME FinanceTypeOK, TxInv, NEW w \in FinanceWorkers, ExecuteFails(w)
    PROVE  tx[w].payout \in 1..Len(payouts) /\ Attempted(tx[w].payout, 0)
  <1>. DEFINE k == tx[w].payout
              n == tx[w].attempts + 1
  <1>1. k \in 1..Len(payouts) /\ n \in Nat
        BY DEF ExecuteFails, TxInv, FinanceTypeOK, Tx
  <1>2. payouts[k] \in Payout
        BY <1>1 DEF FinanceTypeOK
  <1>3. PICK s \in {"manual_review", "retrying"} :
           payouts' = [payouts EXCEPT ![k].status = s, ![k].attempts = n]
        BY DEF ExecuteFails
  <1>. DEFINE p == [payouts[k] EXCEPT !.status = s, !.attempts = n]
  <1>4. p \in Payout /\ p.items = payouts[k].items /\ p.posted = payouts[k].posted
    <2>1. s \in PayoutStatus
          BY DEF PayoutStatus
    <2>. HIDE DEF k, n
    <2>. QED BY <1>1, <1>2, <2>1 DEF Payout
  <1>5. p.posted = payouts[k].posted + 0
        BY <1>2, <1>4 DEF Payout
  <1>6. payouts' = [payouts EXCEPT ![k] = p]
        BY <1>3
  <1>. HIDE DEF k, p
  <1>7. Attempted(k, 0)
        BY <1>1, <1>4, <1>5, <1>6, PayoutReplaced
  <1>. QED BY <1>1, <1>7 DEF k

LEMMA FinanceTypeStep == ASSUME FinanceTypeOK, TxInv, [FinanceNext]_financeVars
                         PROVE  FinanceTypeOK'
  <1>. USE NoTxType
  <1>1. CASE MeterUsage
    <2>1. debits' \in [Accounts -> Nat] /\ credits' \in [Accounts -> Nat]
          BY <1>1, DoubleEntryType DEF MeterUsage, Accounts
    <2>. QED BY <1>1, <2>1 DEF MeterUsage, FinanceTypeOK
  <1>2. ASSUME NEW b \in BOOLEAN, Refund(b) PROVE FinanceTypeOK'
    <2>1. debits' \in [Accounts -> Nat] /\ credits' \in [Accounts -> Nat]
          BY <1>2, DoubleEntryType DEF Refund, Accounts
    <2>2. refunded' \in Nat
          BY <1>2 DEF Refund, FinanceTypeOK
    <2>. QED BY <1>2, <2>1, <2>2 DEF Refund, FinanceTypeOK
  <1>3. ASSUME NEW e \in Earnings, FinalizeSession(e) PROVE FinanceTypeOK'
    <2>1. earning' \in [Earnings -> EarningStatus]
          BY <1>3 DEF FinalizeSession, FinanceTypeOK, EarningStatus
    <2>2. debits' \in [Accounts -> Nat]
      <3>1. "platform_revenue" \in Accounts
            BY DEF Accounts
      <3>. QED BY <1>3, <3>1 DEF FinalizeSession, FinanceTypeOK, Commission, Net
    <2>3. credits' \in [Accounts -> Nat]
      <3>1. /\ "platform_revenue_retained" \in Accounts /\ "host_payable" \in Accounts
            /\ "platform_revenue_retained" # "host_payable"
            BY DEF Accounts
      <3>2. credits["platform_revenue_retained"] + Commission \in Nat
            BY <3>1 DEF FinanceTypeOK, Commission
      <3>3. credits["host_payable"] + Net \in Nat
            BY <3>1 DEF FinanceTypeOK, Net
      <3>4. credits' = [credits EXCEPT
               !["platform_revenue_retained"] = credits["platform_revenue_retained"] + Commission,
               !["host_payable"] = credits["host_payable"] + Net]
            BY <1>3, <3>1 DEF FinalizeSession, FinanceTypeOK
      <3>. QED BY <3>1, <3>2, <3>3, <3>4 DEF FinanceTypeOK
    <2>. QED BY <1>3, <2>1, <2>2, <2>3 DEF FinalizeSession, FinanceTypeOK
  <1>4. ASSUME NEW w \in FinanceWorkers, NEW ev \in Events, WebhookInsert(w, ev)
        PROVE  FinanceTypeOK'
    <2>1. [NoTx EXCEPT !.op = "webhook", !.event = ev] \in Tx
          BY DEF Tx
    <2>. QED BY <1>4, <2>1 DEF WebhookInsert, FinanceTypeOK
  <1>5. ASSUME NEW w \in FinanceWorkers, WebhookPosts(w) PROVE FinanceTypeOK'
    <2>1. debits' \in [Accounts -> Nat] /\ credits' \in [Accounts -> Nat]
          BY <1>5, DoubleEntryType DEF WebhookPosts, Accounts
    <2>2. webhooks' \in [Events -> Nat] /\ captured' \in [Events -> Nat]
          BY <1>5 DEF WebhookPosts, FinanceTypeOK, TxInv
    <2>. QED BY <1>5, <2>1, <2>2 DEF WebhookPosts, FinanceTypeOK
  <1>16. ASSUME NEW w \in FinanceWorkers, WebhookRecords(w) PROVE FinanceTypeOK'
    <2>1. webhooks' \in [Events -> Nat]
          BY <1>16 DEF WebhookRecords, FinanceTypeOK, TxInv
    <2>. QED BY <1>16, <2>1 DEF WebhookRecords, FinanceTypeOK
  <1>6. ASSUME NEW w \in FinanceWorkers, TxAborts(w) PROVE FinanceTypeOK'
        BY <1>6 DEF TxAborts, FinanceTypeOK
  <1>7. ASSUME NEW w \in FinanceWorkers, BatchReads(w) PROVE FinanceTypeOK'
    <2>1. [NoTx EXCEPT !.op = "batch", !.items = Having("pending_settlement")] \in Tx
          BY DEF Tx, Having
    <2>. QED BY <1>7, <2>1 DEF BatchReads, FinanceTypeOK
  <1>8. ASSUME NEW w \in FinanceWorkers, BatchCommits(w) PROVE FinanceTypeOK'
    <2>1. [items |-> tx[w].items, status |-> "scheduled", attempts |-> 0, posted |-> 0]
             \in Payout
          BY DEF FinanceTypeOK, Tx, Payout, PayoutStatus
    <2>. QED BY <1>8, <2>1 DEF BatchCommits, FinanceTypeOK
  <1>9. ASSUME NEW w \in FinanceWorkers, NEW k \in 1..MaxPayouts, ExecuteReads(w, k)
        PROVE  FinanceTypeOK'
    <2>1. payouts[k] \in Payout
          BY <1>9 DEF ExecuteReads, FinanceTypeOK
    <2>2. k \in 0..MaxPayouts /\ payouts[k].attempts \in Nat
          BY <2>1, FinanceAssumption DEF Payout, FinanceAssumption
    <2>3. [NoTx EXCEPT !.op = "execute", !.payout = k, !.attempts = payouts[k].attempts]
             \in Tx
          BY <2>2 DEF Tx
    <2>. QED BY <1>9, <2>3 DEF ExecuteReads, FinanceTypeOK
  <1>10. ASSUME NEW w \in FinanceWorkers, ExecuteCompletes(w) PROVE FinanceTypeOK'
    <2>1. /\ payouts' \in Seq(Payout) /\ tx[w].payout \in 1..Len(payouts)
          BY <1>10, CompletesStep DEF Attempted
    <2>2. debits' \in [Accounts -> Nat] /\ credits' \in [Accounts -> Nat]
          BY <1>10, <2>1, OwedType, DoubleEntryType DEF ExecuteCompletes, Accounts
    <2>3. tx[w].payout \in 0..MaxPayouts /\ tx[w].payout # 0
          BY <2>1 DEF FinanceTypeOK, Tx
    <2>4. transferred' \subseteq 1..MaxPayouts
          BY <1>10, <2>3, FinanceAssumption DEF ExecuteCompletes, FinanceTypeOK, FinanceAssumption
    <2>5. earning' \in [Earnings -> EarningStatus]
          BY <1>10 DEF ExecuteCompletes, FinanceTypeOK, EarningStatus
    <2>. QED BY <1>10, <2>1, <2>2, <2>4, <2>5 DEF ExecuteCompletes, FinanceTypeOK
  <1>11. ASSUME NEW w \in FinanceWorkers, ExecuteFails(w) PROVE FinanceTypeOK'
    <2>1. payouts' \in Seq(Payout)
          BY <1>11, FailsStep DEF Attempted
    <2>2. tx[w].payout \in 0..MaxPayouts /\ tx[w].payout \in 1..Len(payouts)
          BY <1>11 DEF ExecuteFails, TxInv, FinanceTypeOK, Tx
    <2>3. transferred' \subseteq 1..MaxPayouts
      <3>1. transferred' \in {transferred, transferred \cup {tx[w].payout}}
            BY <1>11 DEF ExecuteFails
      <3>. QED BY <2>2, <3>1, FinanceAssumption DEF FinanceTypeOK, FinanceAssumption
    <2>. QED BY <1>11, <2>1, <2>3 DEF ExecuteFails, FinanceTypeOK
  <1>12. ASSUME NEW w \in FinanceWorkers, ExecuteCrashes(w) PROVE FinanceTypeOK'
    <2>1. tx[w].payout \in 0..MaxPayouts /\ tx[w].payout \in 1..Len(payouts)
          BY <1>12 DEF ExecuteCrashes, TxInv, FinanceTypeOK, Tx
    <2>2. transferred' \subseteq 1..MaxPayouts
          BY <1>12, <2>1, FinanceAssumption DEF ExecuteCrashes, FinanceTypeOK, FinanceAssumption
    <2>. QED BY <1>12, <2>2 DEF ExecuteCrashes, FinanceTypeOK
  <1>13. CASE DashboardPending
    <2>1. report' \in Report
          BY <1>13 DEF DashboardPending, Report, Having
    <2>. QED BY <1>13, <2>1 DEF DashboardPending, FinanceTypeOK
  <1>14. CASE DashboardSettled
    <2>1. report' \in Report
          BY <1>14 DEF DashboardSettled, FinanceTypeOK, Report, Having
    <2>. QED BY <1>14, <2>1 DEF DashboardSettled, FinanceTypeOK
  <1>15. CASE UNCHANGED financeVars
        BY <1>15 DEF financeVars, FinanceTypeOK
  <1>. QED BY <1>1, <1>2, <1>3, <1>4, <1>5, <1>6, <1>7, <1>8, <1>9, <1>10, <1>11, <1>12,
              <1>13, <1>14, <1>15, <1>16 DEF FinanceNext, ChargesNext, EarningsNext

LEMMA TxInvInit == FinanceInit => TxInv
  BY DEF FinanceInit, TxInv, NoTx

LEMMA TxInvStep == ASSUME FinanceTypeOK, TxInv, [FinanceNext]_financeVars
                   PROVE  TxInv'
  <1>1. ASSUME UNCHANGED <<webhooks, payouts, transferred, tx>> PROVE TxInv'
        BY <1>1 DEF TxInv
  <1>2. ASSUME NEW w \in FinanceWorkers, tx' = [tx EXCEPT ![w] = NoTx],
               UNCHANGED <<webhooks, payouts, transferred>>
        PROVE  TxInv'
        BY <1>2 DEF TxInv, NoTx, FinanceTypeOK
  <1>3. ASSUME NEW w \in FinanceWorkers, NEW ev \in Events, WebhookInsert(w, ev)
        PROVE  TxInv'
        BY <1>3 DEF WebhookInsert, TxInv, NoTx, FinanceTypeOK
  <1>4. ASSUME NEW w \in FinanceWorkers, WebhookPosts(w) \/ WebhookRecords(w) PROVE TxInv'
    <2>1. /\ tx[w].op = "webhook" /\ UNCHANGED <<payouts, transferred>>
          /\ \A v \in FinanceWorkers : tx'[v] = IF v = w THEN NoTx ELSE tx[v]
          /\ \A ev \in Events : ev # tx[w].event => webhooks'[ev] = webhooks[ev]
          BY <1>4 DEF WebhookPosts, WebhookRecords, FinanceTypeOK
    <2>. QED BY <2>1 DEF TxInv, NoTx
  <1>5. ASSUME NEW w \in FinanceWorkers, BatchReads(w) PROVE TxInv'
        BY <1>5 DEF BatchReads, TxInv, NoTx, FinanceTypeOK
  <1>6. ASSUME NEW w \in FinanceWorkers, BatchCommits(w) PROVE TxInv'
    <2>1. Len(payouts') = Len(payouts) + 1 /\ Len(payouts) \in Nat
          BY <1>6 DEF BatchCommits, FinanceTypeOK
    <2>2. \A v \in FinanceWorkers : tx'[v] = IF v = w THEN NoTx ELSE tx[v]
          BY <1>6 DEF BatchCommits, FinanceTypeOK
    <2>3. 1..Len(payouts) \subseteq 1..Len(payouts')
          BY <2>1
    <2>. QED BY <1>6, <2>2, <2>3 DEF BatchCommits, TxInv, NoTx
  <1>7. ASSUME NEW w \in FinanceWorkers, NEW k \in 1..MaxPayouts, ExecuteReads(w, k)
        PROVE  TxInv'
        BY <1>7 DEF ExecuteReads, TxInv, NoTx, FinanceTypeOK
  <1>8. ASSUME NEW w \in FinanceWorkers, ExecuteCompletes(w) PROVE TxInv'
        BY ZenonT(40), <1>8, CompletesStep DEF ExecuteCompletes, Attempted, TxInv, NoTx,
                                               FinanceTypeOK
  <1>9. ASSUME NEW w \in FinanceWorkers, ExecuteFails(w) PROVE TxInv'
    <2>1. /\ transferred' \in {transferred, transferred \cup {tx[w].payout}}
          /\ UNCHANGED webhooks /\ tx' = [tx EXCEPT ![w] = NoTx]
          BY <1>9 DEF ExecuteFails
    <2>2. tx[w].payout \in 1..Len(payouts) /\ Len(payouts') = Len(payouts)
          BY <1>9, FailsStep DEF Attempted
    <2>. QED BY <2>1, <2>2 DEF TxInv, NoTx, FinanceTypeOK
  <1>10. ASSUME NEW w \in FinanceWorkers, ExecuteCrashes(w) PROVE TxInv'
        BY <1>10 DEF ExecuteCrashes, TxInv, NoTx, FinanceTypeOK
  <1>. QED BY <1>1, <1>2, <1>3, <1>4, <1>5, <1>6, <1>7, <1>8, <1>9, <1>10
              DEF FinanceNext, ChargesNext, EarningsNext, financeVars, MeterUsage, Refund,
                  FinalizeSession, TxAborts,
                  DashboardPending, DashboardSettled

LEMMA FinanceTypeInvariant == FinanceSpec => [](FinanceTypeOK /\ TxInv)
  <1>1. FinanceTypeOK /\ TxInv /\ [FinanceNext]_financeVars => FinanceTypeOK' /\ TxInv'
        BY FinanceTypeStep, TxInvStep
  <1>. QED BY <1>1, FinanceTypeInit, TxInvInit, PTL DEF FinanceSpec

-----------------------------------------------------------------------------
(* FinanceLedger: the payable account and the rows *)

\* A payout, and a transaction that is about to create one, lists earnings of
\* finalised sessions; those of a payout that was posted are settled.
ListedInv ==
    /\ \A w \in FinanceWorkers : \A e \in tx[w].items : earning[e] # "none"
    /\ \A k \in 1..Len(payouts) : \A e \in payouts[k].items :
          /\ earning[e] # "none"
          /\ payouts[k].posted > 0 => earning[e] = "settled"

LEMMA ListedInit == FinanceInit => ListedInv
  BY DEF FinanceInit, ListedInv, NoTx

\* No step takes the earnings of a session back, and only a payout that is
\* executed changes what is settled.
LEMMA EarningStep ==
    ASSUME FinanceTypeOK, TxInv, ListedInv, [FinanceNext]_financeVars
    PROVE  \/ UNCHANGED earning
           \/ \E e \in Earnings : FinalizeSession(e)
           \/ \E w \in FinanceWorkers : ExecuteCompletes(w)
  BY DEF FinanceNext, ChargesNext, EarningsNext, financeVars, MeterUsage, Refund,
         WebhookInsert, WebhookPosts,
         WebhookRecords, TxAborts,
         BatchReads, BatchCommits, ExecuteReads, ExecuteFails, ExecuteCrashes,
         DashboardPending, DashboardSettled

LEMMA ListedStep == ASSUME FinanceTypeOK, TxInv, ListedInv, [FinanceNext]_financeVars
                    PROVE  ListedInv'
  <1>1. ASSUME UNCHANGED <<earning, payouts, tx>> PROVE ListedInv'
        BY <1>1 DEF ListedInv
  <1>2. ASSUME NEW w \in FinanceWorkers, NEW r, tx' = [tx EXCEPT ![w] = r], r.items = {},
               UNCHANGED <<earning, payouts>>
        PROVE  ListedInv'
        BY <1>2 DEF ListedInv, FinanceTypeOK
  <1>3. ASSUME NEW e \in Earnings, FinalizeSession(e) PROVE ListedInv'
    <2>1. /\ \A d \in Earnings : earning[d] # "none" => earning'[d] = earning[d]
          /\ UNCHANGED <<payouts, tx>>
          BY <1>3 DEF FinalizeSession, FinanceTypeOK
    <2>2. \A w \in FinanceWorkers : tx[w].items \subseteq Earnings
          BY DEF FinanceTypeOK, Tx
    <2>3. \A k \in 1..Len(payouts) : payouts[k].items \subseteq Earnings
          BY OwedType
    <2>. QED BY <2>1, <2>2, <2>3 DEF ListedInv
  <1>4. ASSUME NEW w \in FinanceWorkers, BatchReads(w) PROVE ListedInv'
        BY <1>4 DEF BatchReads, ListedInv, FinanceTypeOK, Having, NoTx
  <1>5. ASSUME NEW w \in FinanceWorkers, BatchCommits(w) PROVE ListedInv'
    <2>1. /\ \A k \in 1..Len(payouts) : payouts'[k] = payouts[k]
          /\ Len(payouts') = Len(payouts) + 1
          /\ payouts'[Len(payouts) + 1].items = tx[w].items
          /\ payouts'[Len(payouts) + 1].posted = 0
          BY <1>5 DEF BatchCommits, FinanceTypeOK
    <2>2. \A v \in FinanceWorkers : tx'[v] = IF v = w THEN NoTx ELSE tx[v]
          BY <1>5 DEF BatchCommits, FinanceTypeOK
    <2>3. \A k \in 1..Len(payouts') : k \in 1..Len(payouts) \/ k = Len(payouts) + 1
          BY <2>1 DEF FinanceTypeOK
    <2>4. earning' = earning
          BY <1>5 DEF BatchCommits
    <2>. QED BY <2>1, <2>2, <2>3, <2>4 DEF ListedInv, NoTx
  <1>6. ASSUME NEW w \in FinanceWorkers, ExecuteCompletes(w) PROVE ListedInv'
    <2>. DEFINE k == tx[w].payout
    <2>1. k \in 1..Len(payouts) /\ Attempted(k, 1)
          BY <1>6, CompletesStep
    <2>2. /\ earning' = [e \in Earnings |->
                            IF e \in payouts[k].items THEN "settled" ELSE earning[e]]
          /\ tx' = [tx EXCEPT ![w] = NoTx]
          BY <1>6 DEF ExecuteCompletes
    <2>3. \A v \in FinanceWorkers : tx[v].items \subseteq Earnings
          BY DEF FinanceTypeOK, Tx
    <2>4. \A j \in 1..Len(payouts) : payouts[j].items \subseteq Earnings
          BY OwedType
    <2>5. \A j \in 1..Len(payouts) : /\ payouts'[j].items = payouts[j].items
                                     /\ j # k => payouts'[j].posted = payouts[j].posted
      <3>1. ASSUME NEW j \in 1..Len(payouts) PROVE payouts[j].posted \in Nat
        <4>1. payouts[j] \in Payout
              BY DEF FinanceTypeOK
        <4>. QED BY <4>1 DEF Payout
      <3>. QED BY <2>1, <3>1 DEF Attempted
    <2>6. Len(payouts') = Len(payouts)
          BY <2>1 DEF Attempted
    <2>. HIDE DEF k
    <2>7. \A v \in FinanceWorkers : \A e \in tx'[v].items : earning'[e] # "none"
          BY <2>2, <2>3 DEF ListedInv, NoTx, FinanceTypeOK
    <2>8. ASSUME NEW j \in 1..Len(payouts), NEW e \in payouts[j].items
          PROVE  /\ earning'[e] # "none"
                 /\ j = k \/ earning[e] = "settled" => earning'[e] = "settled"
          BY <2>2, <2>4 DEF ListedInv
    <2>. QED BY <2>5, <2>6, <2>7, <2>8 DEF ListedInv
  <1>7. ASSUME NEW w \in FinanceWorkers, ExecuteFails(w) PROVE ListedInv'
    <2>1. ASSUME NEW j \in 1..Len(payouts) PROVE payouts[j].posted \in Nat
      <3>1. payouts[j] \in Payout
            BY DEF FinanceTypeOK
      <3>. QED BY <3>1 DEF Payout
    <2>2. /\ Len(payouts') = Len(payouts)
          /\ \A j \in 1..Len(payouts) : /\ payouts'[j].items = payouts[j].items
                                        /\ payouts'[j].posted = payouts[j].posted
          BY <1>7, <2>1, FailsStep DEF Attempted
    <2>3. earning' = earning /\ tx' = [tx EXCEPT ![w] = NoTx]
          BY <1>7 DEF ExecuteFails
    <2>4. \A v \in FinanceWorkers : tx'[v] = tx[v] \/ tx'[v].items = {}
          BY <2>3 DEF FinanceTypeOK, NoTx
    <2>5. \A v \in FinanceWorkers : \A e \in tx'[v].items : earning'[e] # "none"
          BY <2>3, <2>4 DEF ListedInv
    <2>6. ASSUME NEW k \in 1..Len(payouts'), NEW e \in payouts'[k].items
          PROVE  /\ earning'[e] # "none"
                 /\ payouts'[k].posted > 0 => earning'[e] = "settled"
          BY <2>2, <2>3 DEF ListedInv
    <2>. QED BY <2>5, <2>6 DEF ListedInv
  <1>8. ASSUME NEW w \in FinanceWorkers, NEW ev \in Events, WebhookInsert(w, ev)
        PROVE  ListedInv'
    <2>1. [NoTx EXCEPT !.op = "webhook", !.event = ev].items = {}
          BY DEF NoTx
    <2>. QED BY <1>2, <1>8, <2>1 DEF WebhookInsert
  <1>9. ASSUME NEW w \in FinanceWorkers, WebhookPosts(w) \/ WebhookRecords(w) \/ TxAborts(w)
                                           \/ ExecuteCrashes(w)
        PROVE  ListedInv'
    <2>1. NoTx.items = {}
          BY DEF NoTx
    <2>. QED BY <1>2, <1>9, <2>1 DEF WebhookPosts, WebhookRecords, TxAborts, ExecuteCrashes
  <1>10. ASSUME NEW w \in FinanceWorkers, NEW k \in 1..MaxPayouts, ExecuteReads(w, k)
         PROVE  ListedInv'
    <2>1. [NoTx EXCEPT !.op = "execute", !.payout = k, !.attempts = payouts[k].attempts].items
             = {}
          BY DEF NoTx
    <2>. QED BY <1>2, <1>10, <2>1 DEF ExecuteReads
  <1>. QED BY <1>1, <1>3, <1>4, <1>5, <1>6, <1>7, <1>8, <1>9, <1>10
              DEF FinanceNext, ChargesNext, EarningsNext, financeVars, MeterUsage, Refund,
                  DashboardPending,
                  DashboardSettled

LEMMA PayableInit == FinanceInit => PayableMatchesRows
  <1>. SUFFICES ASSUME FinanceInit PROVE PayableMatchesRows
       OBVIOUS
  <1>1. Earnings \ Having("none") = {} /\ 1..Len(payouts) = {}
        BY DEF FinanceInit, Having
  <1>2. SumFunctionOnSet([k \in 1..Len(payouts) |-> payouts[k].posted * Owed(k)], {}) = 0
        BY SumEmpty
  <1>3. Net * Cardinality({}) = 0
        BY FS_EmptySet DEF Net
  <1>4. credits["host_payable"] = 0 /\ debits["host_payable"] = 0
        BY DEF FinanceInit, Accounts
  <1>. QED BY <1>1, <1>2, <1>3, <1>4 DEF PayableMatchesRows

\* The debits and the credits of the payable account, one at a time.
LEMMA PayableCredited ==
    ASSUME FinanceTypeOK, TxInv, ListedInv, [FinanceNext]_financeVars,
           credits["host_payable"] = Net * Cardinality(Earnings \ Having("none"))
    PROVE  credits'["host_payable"] = Net * Cardinality((Earnings \ Having("none"))')
  <1>. DEFINE owed == Earnings \ Having("none")
  <1>1. ASSUME UNCHANGED earning PROVE owed' = owed
        BY <1>1 DEF Having
  <1>2. ASSUME NEW w \in FinanceWorkers, ExecuteCompletes(w)
        PROVE  owed' = owed /\ credits'["host_payable"] = credits["host_payable"]
    <2>1. /\ tx[w].payout \in 1..Len(payouts)
          /\ earning' = [e \in Earnings |->
                 IF e \in payouts[tx[w].payout].items THEN "settled" ELSE earning[e]]
          BY <1>2, CompletesStep DEF ExecuteCompletes
    <2>2. \A e \in payouts[tx[w].payout].items : earning[e] # "none"
          BY <2>1 DEF ListedInv
    <2>3. \A e \in Earnings : earning'[e] = "none" <=> earning[e] = "none"
          BY <2>1, <2>2
    <2>4. credits'["host_payable"] = credits["host_payable"]
          BY <1>2 DEF ExecuteCompletes, RecordDoubleEntry, FinanceTypeOK, Accounts
    <2>. QED BY <2>3, <2>4 DEF Having
  <1>3. ASSUME NEW e \in Earnings, FinalizeSession(e)
        PROVE  credits'["host_payable"] = Net * Cardinality(owed')
    <2>1. owed' = owed \cup {e} /\ e \notin owed
          BY <1>3 DEF FinalizeSession, Having, FinanceTypeOK
    <2>2. IsFiniteSet(owed)
          BY FinanceAssumption, FS_Subset DEF FinanceAssumption
    <2>3. Cardinality(owed') = Cardinality(owed) + 1 /\ Cardinality(owed) \in Nat
          BY <2>1, <2>2, FS_AddElement, FS_CardinalityType
    <2>4. credits'["host_payable"] = credits["host_payable"] + Net
          BY <1>3 DEF FinalizeSession, FinanceTypeOK, Accounts
    <2>. HIDE DEF owed
    <2>5. credits["host_payable"] = Net * Cardinality(owed)
          BY DEF owed
    <2>. QED BY <2>3, <2>4, <2>5 DEF Net
  <1>4. \/ credits'["host_payable"] = credits["host_payable"]
        \/ \E e \in Earnings : FinalizeSession(e)
    <2>1. ASSUME NEW d \in Accounts, NEW c \in Accounts, NEW n, c # "host_payable",
                 RecordDoubleEntry(d, c, n)
          PROVE  credits'["host_payable"] = credits["host_payable"]
          BY <2>1 DEF RecordDoubleEntry, FinanceTypeOK, Accounts
    <2>2. CASE MeterUsage \/ Refund(TRUE) \/ Refund(FALSE)
          BY <2>1, <2>2 DEF MeterUsage, Refund, Accounts
    <2>3. CASE \E w \in FinanceWorkers : WebhookPosts(w) \/ ExecuteCompletes(w)
          BY <2>1, <2>3 DEF WebhookPosts, ExecuteCompletes, Accounts
    <2>4. CASE UNCHANGED credits
          BY <2>4
    <2>. QED BY <2>2, <2>3, <2>4
             DEF FinanceNext, ChargesNext, EarningsNext, financeVars, WebhookInsert,
                 WebhookRecords,
                 TxAborts, BatchReads,
                 BatchCommits, ExecuteReads, ExecuteFails, ExecuteCrashes,
                 DashboardPending, DashboardSettled
  <1>. QED BY <1>1, <1>2, <1>3, <1>4, EarningStep

\* What a payout contributes to the payable's debits.
PostedOwed(k) == payouts[k].posted * Owed(k)

LEMMA PostedOwedType == ASSUME FinanceTypeOK, NEW k \in 1..Len(payouts)
                        PROVE  payouts[k].posted \in Nat /\ PostedOwed(k) \in Nat
  <1>1. payouts[k] \in Payout
        BY DEF FinanceTypeOK
  <1>2. payouts[k].posted \in Nat /\ Owed(k) \in Nat
        BY <1>1, OwedType DEF Payout
  <1>. QED BY <1>2 DEF PostedOwed

LEMMA ChosenPayout ==
    ASSUME FinanceTypeOK, NEW k \in 1..Len(payouts), NEW m \in {0, 1}, Attempted(k, m)
    PROVE  /\ \A j \in 1..Len(payouts) :
                 j # k => PostedOwed(j)' = PostedOwed(j)
           /\ PostedOwed(k)' = PostedOwed(k) + (IF m = 1 THEN Owed(k) ELSE 0)
  <1>1. ASSUME NEW j \in 1..Len(payouts)
        PROVE  Owed(j)' = Owed(j)
        BY DEF Attempted, Owed
  <1>2. ASSUME NEW j \in 1..Len(payouts), j # k
        PROVE  PostedOwed(j)' = PostedOwed(j)
        BY <1>1, <1>2, PostedOwedType DEF Attempted, PostedOwed
  <1>3. PostedOwed(k)' = PostedOwed(k) + (IF m = 1 THEN Owed(k) ELSE 0)
    <2>1. payouts'[k].posted = payouts[k].posted + m /\ payouts[k].posted \in Nat
          BY PostedOwedType DEF Attempted
    <2>2. Owed(k)' = Owed(k) /\ Owed(k) \in Nat
          BY <1>1, OwedType
    <2>3. \A p, o \in Nat : (p + 1) * o = p * o + o /\ (p + 0) * o = p * o + 0
          OBVIOUS
    <2>4. CASE m = 1
          BY <2>1, <2>2, <2>3, <2>4 DEF PostedOwed
    <2>5. CASE m = 0
          BY <2>1, <2>2, <2>3, <2>5 DEF PostedOwed
    <2>. QED BY <2>4, <2>5
  <1>. QED BY <1>2, <1>3

LEMMA PayableDebited ==
    ASSUME FinanceTypeOK, TxInv, [FinanceNext]_financeVars,
           debits["host_payable"] =
              SumFunctionOnSet([k \in 1..Len(payouts) |-> PostedOwed(k)], 1..Len(payouts))
    PROVE  debits'["host_payable"] =
              SumFunctionOnSet([k \in 1..Len(payouts) |-> PostedOwed(k)], 1..Len(payouts))'
  <1>. DEFINE S == 1..Len(payouts)
              f == [k \in S |-> PostedOwed(k)]
              Goal == debits'["host_payable"] = SumFunctionOnSet(f, S)'
  <1>1. Len(payouts) \in Nat /\ IsFiniteSet(S)
    <2>1. Len(payouts) \in Nat
          BY DEF FinanceTypeOK
    <2>. QED BY <2>1, FS_Interval
  <1>2. \A k \in S : f[k] \in Int
        BY PostedOwedType
  <1>3. ASSUME UNCHANGED <<payouts, debits>> PROVE Goal
    <2>1. S' = S /\ f' = f
          BY <1>3 DEF PostedOwed, Owed
    <2>. HIDE DEF S, f
    <2>2. debits'["host_payable"] = SumFunctionOnSet(f', S')
          BY <1>3, <2>1 DEF S, f
    <2>. QED BY <2>2 DEF S, f
  <1>4. ASSUME UNCHANGED payouts,
               NEW d \in Accounts, NEW c \in Accounts, NEW n, d # "host_payable",
               RecordDoubleEntry(d, c, n)
        PROVE  Goal
    <2>1. S' = S /\ f' = f
          BY <1>4 DEF PostedOwed, Owed
    <2>2. debits'["host_payable"] = debits["host_payable"]
          BY <1>4 DEF RecordDoubleEntry, FinanceTypeOK, Accounts
    <2>. HIDE DEF S, f
    <2>3. debits'["host_payable"] = SumFunctionOnSet(f', S')
          BY <2>1, <2>2 DEF S, f
    <2>. QED BY <2>3 DEF S, f
  <1>5. ASSUME NEW e \in Earnings, FinalizeSession(e)
        PROVE  Goal
    <2>1. S' = S /\ f' = f
          BY <1>5 DEF PostedOwed, Owed, FinalizeSession
    <2>2. debits'["host_payable"] = debits["host_payable"]
          BY <1>5 DEF FinalizeSession, FinanceTypeOK, Accounts
    <2>. HIDE DEF S, f
    <2>3. debits'["host_payable"] = SumFunctionOnSet(f', S')
          BY <2>1, <2>2 DEF S, f
    <2>. QED BY <2>3 DEF S, f
  <1>6. ASSUME NEW w \in FinanceWorkers, BatchCommits(w)
        PROVE  Goal
    <2>0. PICK x \in Nat : x = Len(payouts) + 1
          BY <1>1
    <2>1. /\ Len(payouts') = x /\ payouts'[x].posted = 0
          /\ \A k \in S : payouts'[k] = payouts[k]
          BY <1>6, <2>0 DEF BatchCommits, FinanceTypeOK
    <2>2. S' = S \cup {x} /\ x \notin S
          BY <1>1, <2>0, <2>1
    <2>3. \A k \in S : f'[k] = f[k]
          BY <2>1, <2>2 DEF PostedOwed, Owed
    <2>4. f'[x] = 0
      <3>1. FinanceTypeOK'
            BY FinanceTypeStep
      <3>2. Owed(x)' \in Nat
        <4>1. ASSUME NEW j \in 1..Len(payouts') PROVE payouts'[j] \in Payout
              BY <3>1 DEF FinanceTypeOK
        <4>2. payouts'[x].items \in SUBSET Earnings
              BY <2>1, <2>2, <4>1 DEF Payout
        <4>3. Cardinality(payouts'[x].items) \in Nat
              BY <4>2, FS_Subset, FS_CardinalityType, FinanceAssumption DEF FinanceAssumption
        <4>. QED BY <4>3 DEF Owed, Net
      <3>3. PostedOwed(x)' = 0
            BY <2>1, <3>2 DEF PostedOwed
      <3>. QED BY <2>2, <3>3
    <2>5. debits' = debits
          BY <1>6 DEF BatchCommits
    <2>6. SumFunctionOnSet(f', S \cup {x}) = SumFunctionOnSet(f', S) + f'[x]
      <3>1. \A y \in S \cup {x} : f'[y] \in Int
            BY <1>2, <2>3, <2>4
      <3>. HIDE DEF S, f
      <3>. QED BY <1>1, <2>2, <3>1, SumAdd
    <2>7. SumFunctionOnSet(f', S) = SumFunctionOnSet(f, S)
      <3>. HIDE DEF S, f
      <3>. QED BY <1>1, <2>3, SumSame
    <2>8. SumFunctionOnSet(f, S) \in Int
      <3>. HIDE DEF S, f
      <3>. QED BY <1>1, <1>2, SumType
    <2>9. debits["host_payable"] = SumFunctionOnSet(f, S)
          OBVIOUS
    <2>. HIDE DEF S, f
    <2>10. debits'["host_payable"] = SumFunctionOnSet(f', S')
          BY <2>2, <2>4, <2>5, <2>6, <2>7, <2>8, <2>9
    <2>. QED BY <2>10 DEF S, f
  <1>7. ASSUME NEW k \in S, NEW m \in {0, 1}, Attempted(k, m),
               debits'["host_payable"] = debits["host_payable"] + (IF m = 1 THEN Owed(k) ELSE 0)
        PROVE  Goal
    <2>1. S' = S
          BY <1>7 DEF Attempted
    <2>2. /\ \A j \in S \ {k} : f[j] = f'[j]
          /\ f'[k] = f[k] + (IF m = 1 THEN Owed(k) ELSE 0)
          BY <1>7, <2>1, ChosenPayout
    <2>3. Owed(k) \in Nat
          BY OwedType
    <2>4. \A y \in S : f[y] \in Int /\ f'[y] \in Int
          BY <1>2, <2>2, <2>3
    <2>. HIDE DEF S, f
    <2>5. SumFunctionOnSet(f', S) = SumFunctionOnSet(f, S) + (f'[k] - f[k])
          BY <1>1, <1>7, <2>2, <2>4, SumChange
    <2>6. SumFunctionOnSet(f, S) \in Int /\ f[k] \in Int
          BY <1>1, <1>2, <1>7, SumType
    <2>7. debits["host_payable"] = SumFunctionOnSet(f, S)
          BY DEF S, f
    <2>8. debits'["host_payable"] = SumFunctionOnSet(f', S')
          BY <1>7, <2>1, <2>2, <2>3, <2>5, <2>6, <2>7
    <2>. QED BY <2>8 DEF S, f
  <1>8. ASSUME NEW w \in FinanceWorkers, ExecuteCompletes(w)
        PROVE  Goal
    <2>1. tx[w].payout \in S /\ Attempted(tx[w].payout, 1)
          BY <1>8, CompletesStep
    <2>2. debits'["host_payable"] = debits["host_payable"] + Owed(tx[w].payout)
          BY <1>8 DEF ExecuteCompletes, RecordDoubleEntry, FinanceTypeOK, Accounts
    <2>. QED BY <1>7, <2>1, <2>2
  <1>9. ASSUME NEW w \in FinanceWorkers, ExecuteFails(w)
        PROVE  Goal
    <2>1. tx[w].payout \in S /\ Attempted(tx[w].payout, 0)
          BY <1>9, FailsStep
    <2>2. debits'["host_payable"] = debits["host_payable"] + 0
          BY <1>9 DEF ExecuteFails, FinanceTypeOK, Accounts
    <2>. QED BY <1>7, <2>1, <2>2
  <1>10. ASSUME MeterUsage \/ Refund(TRUE) \/ Refund(FALSE) PROVE Goal
         BY <1>4, <1>10 DEF MeterUsage, Refund, Accounts
  <1>11. ASSUME NEW w \in FinanceWorkers, WebhookPosts(w)
         PROVE  Goal
         BY <1>4, <1>11 DEF WebhookPosts, Accounts
  <1>. HIDE DEF Goal
  <1>12. Goal
         BY <1>3, <1>5, <1>6, <1>8, <1>9, <1>10, <1>11
             DEF FinanceNext, ChargesNext, EarningsNext, financeVars, WebhookInsert,
                 WebhookRecords,
                 TxAborts, BatchReads,
                 ExecuteReads, ExecuteCrashes, DashboardPending, DashboardSettled
  <1>. QED BY <1>12 DEF Goal

LEMMA PayableStep == ASSUME FinanceTypeOK, TxInv, ListedInv, PayableMatchesRows,
                            [FinanceNext]_financeVars
                     PROVE  PayableMatchesRows'
  <1>1. credits'["host_payable"] = Net * Cardinality((Earnings \ Having("none"))')
        BY PayableCredited DEF PayableMatchesRows
  <1>2. debits["host_payable"] =
           SumFunctionOnSet([k \in 1..Len(payouts) |-> PostedOwed(k)], 1..Len(payouts))
        BY DEF PayableMatchesRows, PostedOwed
  <1>3. debits'["host_payable"] =
           SumFunctionOnSet([k \in 1..Len(payouts) |-> PostedOwed(k)], 1..Len(payouts))'
        BY <1>2, PayableDebited
  <1>. QED BY <1>1, <1>3 DEF PayableMatchesRows, PostedOwed

-----------------------------------------------------------------------------
(* FinanceLedger: events, settlements and the dashboard *)

LEMMA EventInit == FinanceInit => EventPostedOnce
  <1>. SUFFICES ASSUME FinanceInit PROVE EventPostedOnce
       OBVIOUS
  <1>1. IsFiniteSet(Events) /\ NamedEvents \subseteq Events
        BY FinanceAssumption DEF FinanceAssumption
  <1>2. \A ev \in Events : captured[ev] = 0 /\ webhooks[ev] = 0
        BY DEF FinanceInit
  <1>3. SumFunctionOnSet(captured, Events) = 0
    <2>. DEFINE z == [ev \in Events |-> 0 * captured[ev]]
    <2>1. SumFunctionOnSet(z, Events) = 0 * SumFunctionOnSet(captured, Events)
          BY <1>1, <1>2, SumTimes
    <2>2. SumFunctionOnSet(captured, Events) \in Int
          BY <1>1, <1>2, SumType
    <2>3. SumFunctionOnSet(captured, Events) = SumFunctionOnSet(z, Events)
      <3>1. \A ev \in Events : captured[ev] = z[ev]
            BY <1>2
      <3>. HIDE DEF z
      <3>. QED BY <1>1, <3>1, SumSame
    <2>. HIDE DEF z
    <2>. QED BY <2>1, <2>2, <2>3
  <1>4. debits["provider_clearing"] = 0
        BY DEF FinanceInit, Accounts
  <1>. QED BY <1>1, <1>2, <1>3, <1>4 DEF EventPostedOnce

LEMMA EventStep == ASSUME FinanceTypeOK, TxInv, EventPostedOnce, [FinanceNext]_financeVars
                   PROVE  EventPostedOnce'
  <1>0. /\ IsFiniteSet(Events) /\ NamedEvents \subseteq Events
        /\ webhooks \in [Events -> Nat] /\ captured \in [Events -> Nat]
        BY FinanceAssumption DEF FinanceAssumption, FinanceTypeOK
  <1>1. ASSUME NEW w \in FinanceWorkers, WebhookPosts(w) PROVE EventPostedOnce'
    <2>. DEFINE ev == tx[w].event
    <2>1. ev \in Events /\ (ev \in NamedEvents => webhooks[ev] = 0)
          BY <1>1 DEF WebhookPosts, TxInv
    <2>2. /\ webhooks' = [webhooks EXCEPT ![ev] = @ + 1]
          /\ captured' = [captured EXCEPT ![ev] = @ + 1]
          BY <1>1 DEF WebhookPosts
    <2>3. debits'["provider_clearing"] = debits["provider_clearing"] + 1
          BY <1>1 DEF WebhookPosts, RecordDoubleEntry, FinanceTypeOK, Accounts
    <2>. HIDE DEF ev
    <2>4. /\ captured'[ev] = captured[ev] + 1 /\ captured[ev] \in Int
          /\ \A e \in Events : captured[e] \in Int /\ captured'[e] \in Int
          /\ \A e \in Events \ {ev} : captured[e] = captured'[e]
          BY <1>0, <2>1, <2>2
    <2>5. SumFunctionOnSet(captured', Events)
             = SumFunctionOnSet(captured, Events) + (captured'[ev] - captured[ev])
          BY <1>0, <2>1, <2>4, SumChange
    <2>6. SumFunctionOnSet(captured, Events) \in Int
          BY <1>0, <2>4, SumType
    <2>7. debits'["provider_clearing"] = SumFunctionOnSet(captured', Events)
          BY <2>3, <2>4, <2>5, <2>6 DEF EventPostedOnce
    <2>8. /\ \A e \in Events : captured'[e] <= webhooks'[e]
          /\ \A e \in NamedEvents : webhooks'[e] <= 1
          BY <1>0, <2>1, <2>2 DEF EventPostedOnce
    <2>. QED BY <2>7, <2>8 DEF EventPostedOnce
  <1>7. ASSUME NEW w \in FinanceWorkers, WebhookRecords(w) PROVE EventPostedOnce'
    <2>. DEFINE ev == tx[w].event
    <2>1. ev \in Events /\ (ev \in NamedEvents => webhooks[ev] = 0)
          BY <1>7 DEF WebhookRecords, TxInv
    <2>2. /\ webhooks' = [webhooks EXCEPT ![ev] = @ + 1]
          /\ UNCHANGED <<captured, debits>>
          BY <1>7 DEF WebhookRecords
    <2>. HIDE DEF ev
    <2>. QED BY <1>0, <2>1, <2>2 DEF EventPostedOnce
  <1>2. ASSUME NEW d \in Accounts, NEW c \in Accounts, NEW n, d # "provider_clearing",
               RecordDoubleEntry(d, c, n), UNCHANGED <<webhooks, captured>>
        PROVE  EventPostedOnce'
        BY <1>2 DEF RecordDoubleEntry, FinanceTypeOK, Accounts, EventPostedOnce
  <1>3. ASSUME MeterUsage \/ Refund(TRUE) \/ Refund(FALSE) PROVE EventPostedOnce'
        BY <1>2, <1>3 DEF MeterUsage, Refund, Accounts
  <1>4. ASSUME NEW w \in FinanceWorkers, ExecuteCompletes(w) PROVE EventPostedOnce'
        BY <1>2, <1>4 DEF ExecuteCompletes, Accounts
  <1>5. ASSUME NEW e \in Earnings, FinalizeSession(e) PROVE EventPostedOnce'
        BY <1>5 DEF FinalizeSession, FinanceTypeOK, Accounts, EventPostedOnce
  <1>6. ASSUME UNCHANGED <<debits, webhooks, captured>> PROVE EventPostedOnce'
        BY <1>6 DEF EventPostedOnce
  <1>. QED BY <1>1, <1>3, <1>4, <1>5, <1>6, <1>7
           DEF FinanceNext, ChargesNext, EarningsNext, financeVars, WebhookInsert, TxAborts,
               BatchReads, BatchCommits,
               ExecuteReads, ExecuteFails, ExecuteCrashes, DashboardPending, DashboardSettled

LEMMA SettledInit == FinanceInit => SettledWasPaid
  BY DEF FinanceInit, SettledWasPaid, Having

\* What the steps other than a payout's keep: a payout's line items, and what was
\* posted for it.
LEMMA PayoutsStep ==
    ASSUME FinanceTypeOK, TxInv, [FinanceNext]_financeVars,
           ~ \E w \in FinanceWorkers : ExecuteCompletes(w)
    PROVE  /\ 1..Len(payouts) \subseteq 1..Len(payouts')
           /\ \A k \in 1..Len(payouts) : /\ payouts'[k].items = payouts[k].items
                                         /\ payouts'[k].posted = payouts[k].posted
           /\ \A k \in 1..Len(payouts') : k \in 1..Len(payouts) \/ payouts'[k].posted = 0
           /\ transferred \subseteq transferred'
  <1>1. ASSUME UNCHANGED payouts, transferred \subseteq transferred'
        PROVE  /\ 1..Len(payouts) \subseteq 1..Len(payouts')
               /\ \A k \in 1..Len(payouts) : /\ payouts'[k].items = payouts[k].items
                                             /\ payouts'[k].posted = payouts[k].posted
               /\ \A k \in 1..Len(payouts') : k \in 1..Len(payouts) \/ payouts'[k].posted = 0
               /\ transferred \subseteq transferred'
        BY <1>1
  <1>2. ASSUME NEW w \in FinanceWorkers, BatchCommits(w)
        PROVE  /\ 1..Len(payouts) \subseteq 1..Len(payouts')
               /\ \A k \in 1..Len(payouts) : /\ payouts'[k].items = payouts[k].items
                                             /\ payouts'[k].posted = payouts[k].posted
               /\ \A k \in 1..Len(payouts') : k \in 1..Len(payouts) \/ payouts'[k].posted = 0
               /\ transferred \subseteq transferred'
    <2>1. /\ Len(payouts) \in Nat /\ Len(payouts') = Len(payouts) + 1
          /\ \A k \in 1..Len(payouts) : payouts'[k] = payouts[k]
          /\ payouts'[Len(payouts) + 1].posted = 0
          /\ transferred' = transferred
          BY <1>2 DEF BatchCommits, FinanceTypeOK
    <2>. QED BY <2>1
  <1>3. ASSUME NEW w \in FinanceWorkers, ExecuteFails(w)
        PROVE  /\ 1..Len(payouts) \subseteq 1..Len(payouts')
               /\ \A k \in 1..Len(payouts) : /\ payouts'[k].items = payouts[k].items
                                             /\ payouts'[k].posted = payouts[k].posted
               /\ \A k \in 1..Len(payouts') : k \in 1..Len(payouts) \/ payouts'[k].posted = 0
               /\ transferred \subseteq transferred'
    <2>1. transferred \subseteq transferred'
          BY <1>3 DEF ExecuteFails
    <2>2. \A k \in 1..Len(payouts) : payouts[k].posted \in Nat
          BY PostedOwedType
    <2>. QED BY <1>3, <2>1, <2>2, FailsStep DEF Attempted
  <1>. QED BY <1>1, <1>2, <1>3
           DEF FinanceNext, ChargesNext, EarningsNext, financeVars, MeterUsage, Refund,
               FinalizeSession, WebhookInsert,
               WebhookPosts, WebhookRecords, TxAborts, BatchReads, ExecuteReads, ExecuteCrashes,
               DashboardPending, DashboardSettled

LEMMA SettledStep ==
    ASSUME FinanceTypeOK, TxInv, ListedInv, SettledWasPaid, [FinanceNext]_financeVars
    PROVE  SettledWasPaid'
  <1>1. ASSUME NEW w \in FinanceWorkers, ExecuteCompletes(w) PROVE SettledWasPaid'
    <2>. DEFINE k == tx[w].payout
    <2>1. k \in 1..Len(payouts) /\ Attempted(k, 1)
          BY <1>1, CompletesStep
    <2>2. /\ earning' = [e \in Earnings |->
                            IF e \in payouts[k].items THEN "settled" ELSE earning[e]]
          /\ transferred' = transferred \cup {k}
          BY <1>1 DEF ExecuteCompletes
    <2>3. \A j \in 1..Len(payouts) : payouts[j].posted \in Nat
          BY PostedOwedType
    <2>4. /\ Len(payouts') = Len(payouts)
          /\ \A j \in 1..Len(payouts) : payouts'[j].items = payouts[j].items
          /\ payouts'[k].posted > 0
          /\ \A j \in 1..Len(payouts) : payouts[j].posted > 0 => payouts'[j].posted > 0
          /\ \A j \in 1..Len(payouts) : payouts'[j].posted > 0 =>
                j = k \/ payouts[j].posted > 0
          BY SMTT(30), <2>1, <2>3 DEF Attempted
    <2>5. transferred \subseteq 1..Len(payouts)
          BY DEF TxInv
    <2>6. \A j \in 1..Len(payouts) : payouts[j].items \subseteq Earnings
          BY OwedType
    <2>. HIDE DEF k
    <2>7. ASSUME NEW e \in Having("settled")'
          PROVE  \E j \in transferred' : e \in payouts'[j].items /\ payouts'[j].posted > 0
      <3>1. CASE e \in payouts[k].items
            BY <2>1, <2>2, <2>4, <3>1
      <3>2. CASE e \notin payouts[k].items
        <4>1. e \in Having("settled")
              BY <2>2, <3>2 DEF Having
        <4>. QED BY <4>1, <2>2, <2>4, <2>5 DEF SettledWasPaid
      <3>. QED BY <3>1, <3>2
    <2>8. ASSUME NEW j \in 1..Len(payouts'), payouts'[j].posted > 0
          PROVE  payouts'[j].items \subseteq Having("settled")'
      <3>1. j \in 1..Len(payouts) /\ payouts'[j].items = payouts[j].items
            BY <2>4
      <3>2. j = k \/ payouts[j].items \subseteq Having("settled")
            BY <2>4, <2>8, <3>1 DEF SettledWasPaid
      <3>. QED BY <2>2, <2>6, <3>1, <3>2 DEF Having
    <2>. QED BY <2>7, <2>8 DEF SettledWasPaid
  <1>2. ASSUME ~ \E w \in FinanceWorkers : ExecuteCompletes(w) PROVE SettledWasPaid'
    <2>1. Having("settled")' = Having("settled")
      <3>1. CASE UNCHANGED earning
            BY <3>1 DEF Having
      <3>2. ASSUME NEW e \in Earnings, FinalizeSession(e)
            PROVE  Having("settled")' = Having("settled")
            BY <3>2 DEF FinalizeSession, Having, FinanceTypeOK
      <3>. QED BY <1>2, <3>1, <3>2, EarningStep
    <2>2. transferred \subseteq 1..Len(payouts)
          BY DEF TxInv
    <2>3. /\ 1..Len(payouts) \subseteq 1..Len(payouts')
          /\ \A k \in 1..Len(payouts) : /\ payouts'[k].items = payouts[k].items
                                        /\ payouts'[k].posted = payouts[k].posted
          /\ \A k \in 1..Len(payouts') : k \in 1..Len(payouts) \/ payouts'[k].posted = 0
          /\ transferred \subseteq transferred'
          BY <1>2, PayoutsStep
    <2>4. \A e \in Having("settled")' : \E k \in transferred' :
             e \in payouts'[k].items /\ payouts'[k].posted > 0
          BY <2>1, <2>2, <2>3 DEF SettledWasPaid
    <2>5. ASSUME NEW k \in 1..Len(payouts'), payouts'[k].posted > 0
          PROVE  payouts'[k].items \subseteq Having("settled")'
          BY <2>1, <2>3, <2>5 DEF SettledWasPaid
    <2>. QED BY <2>4, <2>5 DEF SettledWasPaid
  <1>. QED BY <1>1, <1>2

\* Between its two queries the dashboard has every pending earning it knows of, or
\* the earning is settled by then.
ReportInv ==
    /\ report.at = "half" => report.known \subseteq report.pending \cup Having("settled")
    /\ DashboardMissesNothing

LEMMA ReportInit == FinanceInit => ReportInv
  BY DEF FinanceInit, ReportInv, DashboardMissesNothing

LEMMA ReportStep == ASSUME FinanceTypeOK, TxInv, ListedInv, ReportInv, [FinanceNext]_financeVars
                    PROVE  ReportInv'
  <1>1. CASE DashboardPending
        BY <1>1 DEF DashboardPending, ReportInv, DashboardMissesNothing, Having,
                    FinanceTypeOK, EarningStatus
  <1>2. CASE DashboardSettled
        BY <1>2 DEF DashboardSettled, ReportInv, DashboardMissesNothing, Having,
                    FinanceTypeOK, Report
  <1>3. CASE UNCHANGED report
    <2>1. Having("settled") \subseteq Having("settled")'
      <3>1. CASE UNCHANGED earning
            BY <3>1 DEF Having
      <3>2. ASSUME NEW e \in Earnings, FinalizeSession(e)
            PROVE  Having("settled") \subseteq Having("settled")'
            BY <3>2 DEF FinalizeSession, Having, FinanceTypeOK
      <3>3. ASSUME NEW w \in FinanceWorkers, ExecuteCompletes(w)
            PROVE  Having("settled") \subseteq Having("settled")'
            BY <3>3 DEF ExecuteCompletes, Having
      <3>. QED BY <3>1, <3>2, <3>3, EarningStep
    <2>. QED BY <1>3, <2>1 DEF ReportInv, DashboardMissesNothing
  <1>. QED BY <1>1, <1>2, <1>3
           DEF FinanceNext, ChargesNext, EarningsNext, financeVars, MeterUsage, Refund,
               FinalizeSession, WebhookInsert,
               WebhookPosts, WebhookRecords, TxAborts, BatchReads, BatchCommits, ExecuteReads,
               ExecuteCompletes, ExecuteFails, ExecuteCrashes

\* What a financial step keeps of the component's safety.
FinanceInv == /\ FinanceTypeOK /\ TxInv /\ ListedInv /\ ReportInv
              /\ PayableMatchesRows /\ EventPostedOnce /\ SettledWasPaid

LEMMA FinanceIsSafe == FinanceSpec => []FinanceSafety
  <1>1. FinanceInit => FinanceInv
        BY FinanceTypeInit, TxInvInit, ListedInit, ReportInit, PayableInit, EventInit,
           SettledInit DEF FinanceInv
  <1>2. FinanceInv /\ [FinanceNext]_financeVars => FinanceInv'
        BY FinanceTypeStep, TxInvStep, ListedStep, ReportStep, PayableStep, EventStep,
           SettledStep DEF FinanceInv
  <1>3. FinanceInv => FinanceSafety
        BY DEF FinanceInv, FinanceSafety, ReportInv
  <1>. QED BY <1>1, <1>2, <1>3, PTL DEF FinanceSpec

-----------------------------------------------------------------------------
(* InvoiceNumbers *)

\* A worker that holds the year's row has drawn the number after the last one, and no
\* other holds it; one that found no row has drawn number 1.
DrawInv ==
    /\ \A w \in InvoiceWorkers :
          /\ drawer[w].pc = "locked" => lastSeq # 0 /\ drawer[w].number = lastSeq + 1
          /\ drawer[w].pc = "first" => drawer[w].number = 1
          /\ drawer[w].pc # "idle" => drawer[w].entry \in Billed
          /\ \A v \in InvoiceWorkers :
                drawer[v].pc = "locked" /\ drawer[w].pc = "locked" => v = w
    /\ Cardinality(Series!Numbered) = lastSeq

LEMMA InvoiceTypeInit == InvoiceInit => InvoiceTypeOK
  <1>1. AtRest \in Drawer
        BY DEF AtRest, Drawer
  <1>. QED BY <1>1 DEF InvoiceInit, InvoiceTypeOK

LEMMA InvoiceTypeStep == ASSUME InvoiceTypeOK, DrawInv, [InvoiceNext]_invoiceVars
                         PROVE  InvoiceTypeOK'
  <1>1. AtRest \in Drawer
        BY DEF AtRest, Drawer
  <1>2. ASSUME NEW w \in InvoiceWorkers, NEW b \in Billed, Draw(w, b) PROVE InvoiceTypeOK'
    <2>1. [pc |-> IF lastSeq = 0 THEN "first" ELSE "locked", entry |-> b,
           number |-> lastSeq + 1] \in Drawer
          BY DEF Drawer, InvoiceTypeOK
    <2>. QED BY <1>2, <2>1 DEF Draw, InvoiceTypeOK
  <1>3. ASSUME NEW w \in InvoiceWorkers, DrawCommits(w) PROVE InvoiceTypeOK'
    <2>1. drawer[w] \in Drawer
          BY DEF InvoiceTypeOK
    <2>2. [drawer[w] EXCEPT !.pc = "committed"] \in Drawer /\ drawer[w].number \in Nat
          BY <2>1 DEF Drawer
    <2>3. drawer' \in [InvoiceWorkers -> Drawer]
          BY <1>1, <1>3, <2>2 DEF DrawCommits, InvoiceTypeOK
    <2>4. lastSeq' \in Nat /\ invoice' \in [Billed -> Nat]
          BY <1>3, <2>2 DEF DrawCommits, InvoiceTypeOK
    <2>. QED BY <1>3, <2>3, <2>4 DEF DrawCommits, InvoiceTypeOK
  <1>4. ASSUME NEW w \in InvoiceWorkers, EnqueuePdf(w) PROVE InvoiceTypeOK'
        BY <1>1, <1>4 DEF EnqueuePdf, InvoiceTypeOK
  <1>5. ASSUME NEW w \in InvoiceWorkers, DrawAborts(w) PROVE InvoiceTypeOK'
        BY <1>1, <1>5 DEF DrawAborts, InvoiceTypeOK
  <1>6. ASSUME NEW b \in Billed, WritePdf(b) PROVE InvoiceTypeOK'
        BY <1>6 DEF WritePdf, InvoiceTypeOK
  <1>7. CASE UNCHANGED invoiceVars
        BY <1>7 DEF invoiceVars, InvoiceTypeOK
  <1>. QED BY <1>2, <1>3, <1>4, <1>5, <1>6, <1>7 DEF InvoiceNext

LEMMA DrawInit == InvoiceInit => DrawInv /\ NumbersAreGapless /\ Series!Init
  <1>. SUFFICES ASSUME InvoiceInit PROVE DrawInv /\ NumbersAreGapless /\ Series!Init
       OBVIOUS
  <1>1. Series!Numbered = {}
        BY DEF InvoiceInit, Series!Numbered
  <1>2. Cardinality(Series!Numbered) = lastSeq
        BY <1>1, FS_EmptySet DEF InvoiceInit
  <1>3. \A w \in InvoiceWorkers : drawer[w].pc = "idle"
        BY DEF InvoiceInit, AtRest
  <1>4. 1..lastSeq = {} /\ \A b \in Billed : invoice[b] = 0
        BY DEF InvoiceInit
  <1>. QED BY <1>2, <1>3, <1>4 DEF InvoiceInit, DrawInv, NumbersAreGapless, Series!Init

\* A transaction that commits an invoice gives its entry the number after the last.
LEMMA CommitIssues ==
    ASSUME InvoiceTypeOK, DrawInv, NumbersAreGapless, NEW w \in InvoiceWorkers, DrawCommits(w)
    PROVE  \/ /\ UNCHANGED <<lastSeq, invoice>>
              /\ drawer' = [drawer EXCEPT ![w] = AtRest]
           \/ /\ lastSeq' = lastSeq + 1
              /\ drawer[w].entry \in Billed /\ invoice[drawer[w].entry] = 0
              /\ invoice' = [invoice EXCEPT ![drawer[w].entry] = lastSeq + 1]
              /\ drawer' = [drawer EXCEPT ![w].pc = "committed"]
              /\ drawer[w].pc = "locked" \/ lastSeq = 0
  <1>1. drawer[w].entry \in Billed
        BY DEF DrawCommits, DrawInv
  <1>2. CASE drawer[w].pc = "locked"
        BY <1>1, <1>2 DEF DrawCommits, DrawInv
  <1>3. CASE drawer[w].pc = "first"
        BY <1>1, <1>3 DEF DrawCommits, DrawInv, InvoiceTypeOK
  <1>. QED BY <1>2, <1>3 DEF DrawCommits

LEMMA NumberedAfterIssue ==
    ASSUME InvoiceTypeOK, DrawInv, NEW b \in Billed, invoice[b] = 0,
           invoice' = [invoice EXCEPT ![b] = lastSeq + 1]
    PROVE  Cardinality(Series!Numbered') = lastSeq + 1
  <1>1. Series!Numbered' = Series!Numbered \cup {b} /\ b \notin Series!Numbered
        BY DEF Series!Numbered, InvoiceTypeOK
  <1>2. IsFiniteSet(Series!Numbered)
        BY FS_Subset, InvoiceAssumption DEF Series!Numbered, InvoiceAssumption
  <1>3. Cardinality(Series!Numbered \cup {b}) = Cardinality(Series!Numbered) + 1
        BY <1>1, <1>2, FS_AddElement
  <1>. QED BY <1>1, <1>3 DEF DrawInv

LEMMA InvoiceStep ==
    ASSUME InvoiceTypeOK, DrawInv, NumbersAreGapless, [InvoiceNext]_invoiceVars
    PROVE  DrawInv' /\ NumbersAreGapless' /\ [Series!Next]_invoice
  <1>0. ASSUME UNCHANGED <<lastSeq, invoice>>
        PROVE  /\ Cardinality(Series!Numbered)' = lastSeq'
               /\ NumbersAreGapless' /\ [Series!Next]_invoice
        BY <1>0 DEF DrawInv, NumbersAreGapless, Series!Numbered
  <1>1. ASSUME UNCHANGED <<lastSeq, invoice, drawer>>
        PROVE  DrawInv' /\ NumbersAreGapless' /\ [Series!Next]_invoice
        BY <1>0, <1>1 DEF DrawInv
  <1>2. ASSUME NEW w \in InvoiceWorkers, drawer' = [drawer EXCEPT ![w] = AtRest],
               UNCHANGED <<lastSeq, invoice>>
        PROVE  DrawInv' /\ NumbersAreGapless' /\ [Series!Next]_invoice
        BY <1>0, <1>2 DEF DrawInv, AtRest, InvoiceTypeOK
  <1>3. ASSUME NEW w \in InvoiceWorkers, NEW b \in Billed, Draw(w, b)
        PROVE  DrawInv' /\ NumbersAreGapless' /\ [Series!Next]_invoice
    <2>1. /\ UNCHANGED <<lastSeq, invoice>>
          /\ \A v \in InvoiceWorkers : v # w => drawer'[v] = drawer[v]
          /\ drawer'[w].entry = b /\ drawer'[w].number = lastSeq + 1
          /\ drawer'[w].pc = IF lastSeq = 0 THEN "first" ELSE "locked"
          /\ lastSeq # 0 => \A v \in InvoiceWorkers : drawer[v].pc # "locked"
          BY <1>3 DEF Draw, InvoiceTypeOK
    <2>2. lastSeq \in Nat
          BY DEF InvoiceTypeOK
    <2>. QED BY <1>0, <2>1, <2>2 DEF DrawInv
  <1>4. ASSUME NEW w \in InvoiceWorkers, DrawCommits(w)
        PROVE  DrawInv' /\ NumbersAreGapless' /\ [Series!Next]_invoice
    <2>. DEFINE b == drawer[w].entry
    <2>1. CASE /\ lastSeq' = lastSeq + 1
               /\ b \in Billed /\ invoice[b] = 0
               /\ invoice' = [invoice EXCEPT ![b] = lastSeq + 1]
               /\ drawer' = [drawer EXCEPT ![w].pc = "committed"]
               /\ drawer[w].pc = "locked" \/ lastSeq = 0
      <3>1. lastSeq \in Nat /\ invoice \in [Billed -> Nat]
            BY DEF InvoiceTypeOK
      <3>2. \A c \in Billed : invoice'[c] = IF c = b THEN lastSeq + 1 ELSE invoice[c]
            BY <2>1, <3>1
      <3>3. {invoice[c] : c \in Billed} \ {0} = 1..lastSeq
            BY DEF NumbersAreGapless
      <3>. HIDE DEF b
      <3>4. {invoice'[c] : c \in Billed} \ {0} = ({invoice[c] : c \in Billed} \ {0})
                                                    \cup {lastSeq + 1}
            BY <2>1, <3>1, <3>2
      <3>5. (1..lastSeq) \cup {lastSeq + 1} = 1..(lastSeq + 1)
            BY <3>1
      <3>6. \A c \in Billed : invoice[c] # lastSeq + 1
        <4>1. ASSUME NEW c \in Billed, invoice[c] = lastSeq + 1 PROVE FALSE
          <5>1. invoice[c] \in {invoice[d] : d \in Billed} \ {0}
                BY <3>1, <4>1
          <5>. QED BY <3>1, <3>3, <4>1, <5>1
        <4>. QED BY <4>1
      <3>7. NumbersAreGapless'
            BY <2>1, <3>2, <3>3, <3>4, <3>5, <3>6 DEF NumbersAreGapless
      <3>8. Cardinality(Series!Numbered') = lastSeq'
            BY <2>1, NumberedAfterIssue
      <3>9. Series!Next
        <4>1. Cardinality(Series!Numbered) = lastSeq
              BY DEF DrawInv
        <4>2. PICK d \in Billed : d = b
              BY <2>1
        <4>3. invoice[d] = 0 /\ invoice' = [invoice EXCEPT ![d] = Cardinality(Series!Numbered) + 1]
              BY <2>1, <4>1, <4>2
        <4>4. Series!Issue(d)
              BY <4>3 DEF Series!Issue, Series!Cardinality, Cardinality
        <4>. QED BY <4>4 DEF Series!Next
      <3>10. \A v \in InvoiceWorkers : v # w => drawer'[v] = drawer[v]
             BY <2>1 DEF InvoiceTypeOK
      <3>11. drawer'[w].pc = "committed" /\ drawer'[w].entry = b
        <4>1. drawer[w] \in Drawer
              BY DEF InvoiceTypeOK
        <4>. QED BY <2>1, <4>1 DEF InvoiceTypeOK, Drawer, b
      <3>12. \A v \in InvoiceWorkers : v # w => drawer[v].pc # "locked"
             BY <2>1 DEF DrawInv
      <3>13. DrawInv'
             BY <2>1, <3>8, <3>10, <3>11, <3>12 DEF DrawInv
      <3>. QED BY <3>7, <3>9, <3>13
    <2>. QED BY <1>2, <1>4, <2>1, CommitIssues
  <1>. QED BY <1>1, <1>2, <1>3, <1>4
           DEF InvoiceNext, invoiceVars, EnqueuePdf, DrawAborts, WritePdf

LEMMA InvoicesAreSafe == InvoiceSpec => [](InvoiceTypeOK /\ NumbersAreGapless) /\ ImplementsSeries
  <1>. DEFINE Inv == InvoiceTypeOK /\ DrawInv /\ NumbersAreGapless
  <1>1. InvoiceInit => Inv /\ Series!Init
        BY InvoiceTypeInit, DrawInit
  <1>2. Inv /\ [InvoiceNext]_invoiceVars => Inv' /\ [Series!Next]_invoice
        BY InvoiceTypeStep, InvoiceStep
  <1>. QED BY <1>1, <1>2, PTL DEF InvoiceSpec, ImplementsSeries, Series!Spec

-----------------------------------------------------------------------------
(* Notifications *)

\* A queued task has attempts left, and one that has mailed has made one.
DispatchInv ==
    \A n \in Notices :
        /\ dispatch[n] \in {"none", "queued"} => attempt[n] < MaxDispatches
        /\ dispatch[n] \in {"mailed", "committed", "done"} => attempt[n] \in 1..MaxDispatches

LEMMA NotificationsInitially ==
    NotificationsInit => NotificationsTypeOK /\ DispatchInv /\ AttemptsAccountForRows
  <1>. SUFFICES ASSUME NotificationsInit
                PROVE  NotificationsTypeOK /\ DispatchInv /\ AttemptsAccountForRows
       OBVIOUS
  <1>1. MaxDispatches \in Nat /\ 0 < MaxDispatches
        BY NotificationsAssumption DEF NotificationsAssumption
  <1>2. /\ attempt \in [Notices -> 0..MaxDispatches] /\ emails \in [Notices -> Nat]
        /\ dispatch \in [Notices -> TaskState]
        BY <1>1 DEF NotificationsInit, TaskState
  <1>3. asking \in [PrefClients -> [at: {"idle", "read"}, row: PrefRow,
                                    to: {"on", "off", "keep"}]]
        BY DEF NotificationsInit, PrefRow
  <1>4. NotificationsTypeOK
        BY <1>2, <1>3 DEF NotificationsInit, NotificationsTypeOK, PrefRow
  <1>. QED BY <1>1, <1>4 DEF NotificationsInit, DispatchInv, AttemptsAccountForRows

\* A task's step, and what the others leave of the tasks' records.
LEMMA RetriedTask ==
    ASSUME NotificationsTypeOK, NEW n \in Notices, Retried(n)
    PROVE  /\ dispatch' \in [Notices -> TaskState]
           /\ \A m \in Notices : m # n => dispatch'[m] = dispatch[m]
           /\ dispatch'[n] = IF attempt'[n] < MaxDispatches THEN "queued" ELSE "failed"
  BY DEF NotificationsTypeOK, Retried, TaskState

LEMMA DispatchStep ==
    ASSUME NotificationsTypeOK, DispatchInv, AttemptsAccountForRows, NEW n \in Notices,
           Queue(n) \/ DispatchMails(n) \/ DispatchSkips(n) \/ DispatchCommits(n)
              \/ DispatchReturns(n) \/ DispatchBreaks(n)
    PROVE  NotificationsTypeOK' /\ DispatchInv' /\ AttemptsAccountForRows'
  <1>. USE NotificationsAssumption DEF NotificationsAssumption
  <1>0. /\ dispatch \in [Notices -> TaskState] /\ attempt \in [Notices -> 0..MaxDispatches]
        /\ emails \in [Notices -> Nat] /\ emails[n] <= attempt[n]
        /\ inbox \subseteq Notices \X (1..MaxDispatches) /\ readRows \subseteq inbox
        BY DEF NotificationsTypeOK, AttemptsAccountForRows
  <1>1. CASE Queue(n)
    <2>1. /\ dispatch' \in [Notices -> TaskState] /\ dispatch'[n] = "queued"
          /\ \A m \in Notices : m # n => dispatch'[m] = dispatch[m]
          BY <1>0, <1>1 DEF Queue, TaskState
    <2>2. UNCHANGED <<attempt, emails, inbox, readRows, prefs, asking>> /\ dispatch[n] = "none"
          BY <1>1 DEF Queue
    <2>3. NotificationsTypeOK'
          BY <2>1, <2>2 DEF NotificationsTypeOK
    <2>4. DispatchInv'
          BY <2>1, <2>2 DEF DispatchInv
    <2>5. AttemptsAccountForRows'
          BY <2>1, <2>2 DEF AttemptsAccountForRows
    <2>. QED BY <2>3, <2>4, <2>5
  <1>2. CASE DispatchMails(n)
    <2>1. attempt[n] < MaxDispatches /\ dispatch[n] = "queued"
          BY <1>2 DEF DispatchMails, DispatchInv
    <2>2. /\ attempt' \in [Notices -> 0..MaxDispatches] /\ attempt'[n] = attempt[n] + 1
          /\ \A m \in Notices : m # n => attempt'[m] = attempt[m]
          BY <1>0, <1>2, <2>1 DEF DispatchMails
    <2>3. /\ dispatch' \in [Notices -> TaskState]
          /\ \A m \in Notices : m # n => dispatch'[m] = dispatch[m]
          /\ \/ dispatch'[n] = "mailed"
             \/ dispatch'[n] = "failed"
             \/ dispatch'[n] = "queued" /\ attempt'[n] < MaxDispatches
      <3>1. CASE HasBuilders
            BY <1>0, <1>2, <3>1 DEF DispatchMails, TaskState
      <3>2. CASE ~ HasBuilders
            BY <1>2, <3>2, RetriedTask DEF DispatchMails
      <3>. QED BY <3>1, <3>2
    <2>4. /\ emails' \in [Notices -> Nat] /\ emails'[n] <= emails[n] + 1
          /\ \A m \in Notices : m # n => emails'[m] = emails[m]
          BY <1>0, <1>2 DEF DispatchMails
    <2>5. UNCHANGED <<inbox, readRows, prefs, asking>>
          BY <1>2 DEF DispatchMails
    <2>6. NotificationsTypeOK'
          BY <2>2, <2>3, <2>4, <2>5 DEF NotificationsTypeOK
    <2>7. DispatchInv'
      <3>1. attempt'[n] \in 1..MaxDispatches
            BY <1>0, <2>1, <2>2
      <3>. QED BY <2>2, <2>3, <3>1 DEF DispatchInv
    <2>8. AttemptsAccountForRows'
      <3>1. emails'[n] <= attempt'[n]
            BY <1>0, <2>2, <2>4
      <3>2. \A r \in inbox : r[1] = n => r[2] <= attempt'[n]
        <4>1. ASSUME NEW r \in inbox, r[1] = n PROVE r[2] <= attempt'[n]
          <5>1. r[2] \in 1..MaxDispatches /\ r[2] <= attempt[n]
                BY <1>0, <4>1 DEF AttemptsAccountForRows
          <5>. QED BY <1>0, <2>2, <5>1
        <4>. QED BY <4>1
      <3>. QED BY <2>2, <2>3, <2>4, <2>5, <3>1, <3>2 DEF AttemptsAccountForRows
    <2>. QED BY <2>6, <2>7, <2>8
  <1>3. CASE DispatchCommits(n)
    <2>1. /\ dispatch' \in [Notices -> TaskState] /\ dispatch'[n] = "committed"
          /\ \A m \in Notices : m # n => dispatch'[m] = dispatch[m]
          /\ attempt[n] \in 1..MaxDispatches
          BY <1>0, <1>3 DEF DispatchCommits, TaskState, DispatchInv
    <2>2. /\ inbox' = inbox \cup {<<n, attempt[n]>>}
          /\ UNCHANGED <<attempt, emails, readRows, prefs, asking>>
          BY <1>3 DEF DispatchCommits
    <2>3. NotificationsTypeOK'
          BY <1>0, <2>1, <2>2 DEF NotificationsTypeOK
    <2>4. DispatchInv'
          BY <2>1, <2>2 DEF DispatchInv
    <2>5. AttemptsAccountForRows'
          BY <1>0, <2>1, <2>2 DEF AttemptsAccountForRows
    <2>. QED BY <2>3, <2>4, <2>5
  <1>4. CASE DispatchReturns(n)
    <2>1. /\ dispatch' \in [Notices -> TaskState] /\ dispatch'[n] = "done"
          /\ \A m \in Notices : m # n => dispatch'[m] = dispatch[m]
          /\ dispatch[n] = "committed"
          BY <1>0, <1>4 DEF DispatchReturns, TaskState
    <2>2. UNCHANGED <<attempt, emails, inbox, readRows, prefs, asking>>
          BY <1>4 DEF DispatchReturns
    <2>3. NotificationsTypeOK'
          BY <2>1, <2>2 DEF NotificationsTypeOK
    <2>4. DispatchInv'
          BY <2>1, <2>2 DEF DispatchInv
    <2>5. AttemptsAccountForRows'
          BY <2>1, <2>2 DEF AttemptsAccountForRows
    <2>. QED BY <2>3, <2>4, <2>5
  <1>5. CASE DispatchBreaks(n)
    <2>1. UNCHANGED <<attempt, emails, inbox, readRows, prefs, asking>>
          BY <1>5 DEF DispatchBreaks
    <2>2. /\ dispatch' \in [Notices -> TaskState]
          /\ \A m \in Notices : m # n => dispatch'[m] = dispatch[m]
          /\ \/ dispatch'[n] = "failed"
             \/ dispatch'[n] = "queued" /\ attempt'[n] < MaxDispatches
          BY <1>5, RetriedTask DEF DispatchBreaks
    <2>3. NotificationsTypeOK'
          BY <2>1, <2>2 DEF NotificationsTypeOK
    <2>4. DispatchInv'
          BY <2>1, <2>2 DEF DispatchInv
    <2>5. AttemptsAccountForRows'
          BY <2>1, <2>2 DEF AttemptsAccountForRows
    <2>. QED BY <2>3, <2>4, <2>5
  <1>6. CASE DispatchSkips(n)
    <2>1. attempt[n] < MaxDispatches /\ dispatch[n] = "queued"
          BY <1>6 DEF DispatchSkips, DispatchInv
    <2>2. /\ attempt' \in [Notices -> 0..MaxDispatches] /\ attempt'[n] = attempt[n] + 1
          /\ \A m \in Notices : m # n => attempt'[m] = attempt[m]
          BY <1>0, <1>6, <2>1 DEF DispatchSkips
    <2>3. /\ dispatch' \in [Notices -> TaskState] /\ dispatch'[n] = "skipped"
          /\ \A m \in Notices : m # n => dispatch'[m] = dispatch[m]
          BY <1>0, <1>6 DEF DispatchSkips, TaskState
    <2>4. UNCHANGED <<emails, inbox, readRows, prefs, asking>>
          BY <1>6 DEF DispatchSkips
    <2>5. \A r \in inbox : r[1] = n => r[2] \in Nat /\ r[2] <= attempt[n]
      <3>1. ASSUME NEW r \in inbox, r[1] = n PROVE r[2] \in Nat /\ r[2] <= attempt[n]
        <4>1. r[2] \in 1..MaxDispatches
              BY <1>0
        <4>2. r[2] <= attempt[n]
              BY <3>1 DEF AttemptsAccountForRows
        <4>. QED BY <1>0, <4>1, <4>2
      <3>. QED BY <3>1
    <2>6. attempt[n] \in Nat /\ emails[n] \in Nat
          BY <1>0
    <2>7. NotificationsTypeOK'
          BY <2>2, <2>3, <2>4 DEF NotificationsTypeOK
    <2>8. DispatchInv'
          BY <2>2, <2>3 DEF DispatchInv
    <2>9. <<n, attempt'[n]>> \notin inbox
          BY <2>2, <2>5, <2>6
    <2>10. AttemptsAccountForRows'
      <3>1. emails'[n] < attempt'[n] /\ emails'[n] <= attempt'[n]
            BY <1>0, <2>2, <2>4, <2>6
      <3>2. \A r \in inbox : r[1] = n => r[2] <= attempt'[n]
            BY <2>2, <2>5, <2>6
      <3>. QED BY <2>2, <2>3, <2>4, <2>9, <3>1, <3>2 DEF AttemptsAccountForRows
    <2>. QED BY <2>7, <2>8, <2>10
  <1>. QED BY <1>1, <1>2, <1>3, <1>4, <1>5, <1>6

LEMMA NotificationsStep ==
    ASSUME NotificationsTypeOK, DispatchInv, AttemptsAccountForRows,
           [NotificationsNext]_notificationVars
    PROVE  NotificationsTypeOK' /\ DispatchInv' /\ AttemptsAccountForRows'
  <1>1. ASSUME UNCHANGED <<dispatch, attempt, emails, inbox>>,
               readRows' \subseteq inbox, prefs' \in PrefRow,
               asking' \in [PrefClients -> [at: {"idle", "read"}, row: PrefRow,
                                            to: {"on", "off", "keep"}]]
        PROVE  NotificationsTypeOK' /\ DispatchInv' /\ AttemptsAccountForRows'
        BY <1>1 DEF NotificationsTypeOK, DispatchInv, AttemptsAccountForRows
  <1>2. ASSUME NEW r \in Notices \X (1..MaxDispatches), MarkRead(r)
        PROVE  NotificationsTypeOK' /\ DispatchInv' /\ AttemptsAccountForRows'
        BY <1>1, <1>2 DEF MarkRead, NotificationsTypeOK
  <1>3. CASE MarkAllRead
        BY <1>1, <1>3 DEF MarkAllRead, NotificationsTypeOK
  <1>4. ASSUME NEW c \in PrefClients, NEW to \in {"on", "off", "keep"}, AskPrefs(c, to)
        PROVE  NotificationsTypeOK' /\ DispatchInv' /\ AttemptsAccountForRows'
        BY <1>1, <1>4 DEF AskPrefs, NotificationsTypeOK
  <1>5. ASSUME NEW c \in PrefClients, WritePrefs(c)
        PROVE  NotificationsTypeOK' /\ DispatchInv' /\ AttemptsAccountForRows'
    <2>1. prefs' \in PrefRow
          BY <1>5 DEF WritePrefs, NotificationsTypeOK, PrefRow
    <2>2. asking' \in [PrefClients -> [at: {"idle", "read"}, row: PrefRow,
                                       to: {"on", "off", "keep"}]]
          BY <1>5 DEF WritePrefs, NotificationsTypeOK
    <2>. QED BY <1>1, <1>5, <2>1, <2>2 DEF WritePrefs, NotificationsTypeOK
  <1>6. CASE UNCHANGED notificationVars
        BY <1>6 DEF notificationVars, NotificationsTypeOK, DispatchInv, AttemptsAccountForRows
  <1>. QED BY <1>2, <1>3, <1>4, <1>5, <1>6, DispatchStep DEF NotificationsNext

\* What a request that writes the preference row may do to an opt-out.
LEMMA OptOutStep ==
    ASSUME NotificationsTypeOK, [NotificationsNext]_notificationVars,
           prefs = "off", prefs' # "off"
    PROVE  \E c \in PrefClients : asking[c].at = "read" /\ asking[c].to = "on"
                                  /\ asking'[c].at = "idle"
  <1>1. PICK c \in PrefClients : WritePrefs(c)
        BY DEF NotificationsNext, notificationVars, Queue, DispatchMails, DispatchSkips,
               DispatchCommits, DispatchReturns, DispatchBreaks, MarkRead, MarkAllRead, AskPrefs
  <1>2. asking[c].at = "read" /\ asking'[c].at = "idle"
        BY <1>1 DEF WritePrefs, NotificationsTypeOK
  <1>3. asking[c].to \in {"on", "off", "keep"}
        BY DEF NotificationsTypeOK
  <1>4. asking[c].to = "on"
        BY <1>1, <1>3 DEF WritePrefs
  <1>. QED BY <1>2, <1>4

LEMMA NotificationsAreSafe ==
    NotificationsSpec => [](NotificationsTypeOK /\ AttemptsAccountForRows) /\ OptOutIsKept
  <1>. DEFINE Inv == NotificationsTypeOK /\ DispatchInv /\ AttemptsAccountForRows
  <1>1. NotificationsInit => Inv
        BY NotificationsInitially
  <1>2. Inv /\ [NotificationsNext]_notificationVars => Inv'
        BY NotificationsStep
  <1>3. Inv /\ [NotificationsNext]_notificationVars =>
           [prefs = "off" /\ prefs' # "off" =>
                \E c \in PrefClients : asking[c].at = "read" /\ asking[c].to = "on"
                                       /\ asking'[c].at = "idle"]_notificationVars
        BY OptOutStep
  <1>. QED BY <1>1, <1>2, <1>3, PTL DEF NotificationsSpec, OptOutIsKept

-----------------------------------------------------------------------------
(* UsageCounters *)

\* The chains with a debit that is not committed.
Pending == {c \in DebitChains : debit[c].step \in {"queued", "read", "flushed"}}

\* What a debit has read is no more than was metered and debited, and is what the rows
\* say unless they changed meanwhile; one debit at a time has the rows' locks, and it
\* has read the job's total as it is.
DebitInv ==
    /\ \A c \in DebitChains :
          /\ debit[c].step \in {"read", "flushed"} =>
                /\ debit[c].billed <= ticks + TickSeconds * charged
                /\ overlapped \/ debit[c].billed = billed
          /\ debit[c].step = "flushed" =>
                /\ debit[c].total = total
                /\ \A d \in DebitChains : debit[d].step = "flushed" => d = c
    /\ charged + Cardinality(Pending) <= planned + repeats

UsageInv == /\ UsageTypeOK /\ DebitInv
            /\ ChargedOncePerTick /\ TotalCountsDebits /\ SecondsAreLostOnlyByOverlap

LEMMA MessageKinds ==
    ASSUME NEW m \in Message
    PROVE  /\ m.step \in {"done", "queued", "committed", "read", "flushed"}
           /\ m.step = "done" => m = Done
           /\ m.step = "queued" => m = Queued
           /\ m.step = "committed" => m = Committed
           /\ m.step \in {"read", "flushed"} => m.billed \in Nat
           /\ m.step = "flushed" => m.open \in BOOLEAN /\ m.total \in Nat
  <1>1. CASE m \in [step: {"read"}, billed: Nat]
        BY <1>1
  <1>2. CASE m \in [step: {"flushed"}, billed: Nat, open: BOOLEAN, total: Nat]
        BY <1>2
  <1>3. CASE m \in {Done, Queued, Committed}
        BY <1>3 DEF Done, Queued, Committed
  <1>. QED BY <1>1, <1>2, <1>3 DEF Message

LEMMA PlainMessages == /\ {Done, Queued, Committed} \subseteq Message
                       /\ Done.step = "done" /\ Queued.step = "queued"
                       /\ Committed.step = "committed"
  BY DEF Message, Done, Queued, Committed

LEMMA PendingIsFinite == /\ IsFiniteSet(Pending) /\ Cardinality(Pending) \in Nat
                         /\ IsFiniteSet(Pending)' /\ Cardinality(Pending)' \in Nat
  <1>1. Pending \in SUBSET DebitChains /\ Pending' \in SUBSET DebitChains
        BY DEF Pending
  <1>2. IsFiniteSet(Pending) /\ IsFiniteSet(Pending')
        BY <1>1, FS_Subset, UsageAssumption DEF UsageAssumption
  <1>. QED BY <1>2, FS_CardinalityType

\* A chain whose message is replaced leaves or joins the pending ones.
LEMMA PendingStep ==
    ASSUME UsageTypeOK, NEW c \in DebitChains, NEW m \in Message,
           debit' = [debit EXCEPT ![c] = m]
    PROVE  /\ debit' \in [DebitChains -> Message]
           /\ debit'[c] = m /\ \A d \in DebitChains : d # c => debit'[d] = debit[d]
           /\ Cardinality(Pending)' <= Cardinality(Pending) + 1
           /\ c \in Pending => Cardinality(Pending)' <= Cardinality(Pending)
           /\ c \in Pending /\ m.step \notin {"queued", "read", "flushed"} =>
                 Cardinality(Pending)' = Cardinality(Pending) - 1
  <1>1. /\ debit' \in [DebitChains -> Message]
        /\ debit'[c] = m /\ \A d \in DebitChains : d # c => debit'[d] = debit[d]
        BY DEF UsageTypeOK
  <1>2. /\ Pending' \subseteq Pending \cup {c}
        /\ c \in Pending /\ m.step \notin {"queued", "read", "flushed"} =>
              Pending' = Pending \ {c}
        BY <1>1 DEF Pending
  <1>3. /\ IsFiniteSet(Pending \cup {c})
        /\ Cardinality(Pending \cup {c}) = IF c \in Pending THEN Cardinality(Pending)
                                                            ELSE Cardinality(Pending) + 1
        BY PendingIsFinite, FS_AddElement
  <1>4. /\ IsFiniteSet(Pending \ {c})
        /\ Cardinality(Pending \ {c}) = IF c \in Pending THEN Cardinality(Pending) - 1
                                                         ELSE Cardinality(Pending)
        BY PendingIsFinite, FS_RemoveElement
  <1>5. Cardinality(Pending') <= Cardinality(Pending \cup {c})
        BY <1>2, <1>3, FS_Subset
  <1>6. PICK n \in Nat, p \in Nat : n = Cardinality(Pending) /\ p = Cardinality(Pending')
        BY PendingIsFinite
  <1>7. p <= n + 1 /\ (c \in Pending => p <= n)
        BY <1>3, <1>5, <1>6
  <1>8. c \in Pending /\ m.step \notin {"queued", "read", "flushed"} => p = n - 1
        BY <1>2, <1>4, <1>6
  <1>. QED BY <1>1, <1>6, <1>7, <1>8

LEMMA UsageInitially == UsageInit => UsageInv
  <1>. SUFFICES ASSUME UsageInit PROVE UsageInv
       OBVIOUS
  <1>1. \A c \in DebitChains : debit[c] = Queued \/ debit[c] = Done
        BY DEF UsageInit
  <1>2. Pending = {c \in DebitChains : debit[c] = Queued}
        BY <1>1, PlainMessages DEF Pending
  <1>3. planned = Cardinality(Pending) /\ planned \in Nat
        BY <1>2, PendingIsFinite DEF UsageInit
  <1>4. UsageTypeOK
    <2>1. debit \in [DebitChains -> Message]
          BY PlainMessages DEF UsageInit
    <2>2. {running, overlapped} \subseteq BOOLEAN /\ job = "none" /\ missed = 0
          BY DEF UsageInit
    <2>3. {billed, total, ticks, charged, planned, repeats} \subseteq Nat
          BY <1>3 DEF UsageInit
    <2>4. meter = "queued"
          BY DEF UsageInit
    <2>. QED BY <2>1, <2>2, <2>3, <2>4 DEF UsageTypeOK
  <1>5. TickSeconds * 0 = 0
        BY UsageAssumption DEF UsageAssumption
  <1>6. DebitInv
    <2>1. \A c \in DebitChains : debit[c].step \notin {"read", "flushed"}
          BY <1>1, PlainMessages
    <2>2. charged = 0 /\ repeats = 0
          BY DEF UsageInit
    <2>. QED BY <1>3, <2>1, <2>2 DEF DebitInv
  <1>7. ChargedOncePerTick
        BY <1>3 DEF UsageInit, ChargedOncePerTick
  <1>8. TotalCountsDebits
        BY <1>5 DEF UsageInit, TotalCountsDebits
  <1>9. SecondsAreLostOnlyByOverlap
        BY <1>5 DEF UsageInit, SecondsAreLostOnlyByOverlap
  <1>. QED BY <1>4, <1>6, <1>7, <1>8, <1>9 DEF UsageInv

\* The invariant follows from how the messages and the counters are afterwards.
LEMMA UsageFolds ==
    ASSUME UsageTypeOK', DebitInv', TotalCountsDebits', SecondsAreLostOnlyByOverlap'
    PROVE  UsageInv'
  <1>1. charged' \in Nat /\ planned' \in Nat /\ repeats' \in Nat
        BY DEF UsageTypeOK
  <1>2. PICK n \in Nat : n = Cardinality(Pending)'
        BY PendingIsFinite
  <1>3. charged' + n <= planned' + repeats'
    <2>1. charged' + Cardinality(Pending)' <= planned' + repeats'
          BY DEF DebitInv
    <2>. QED BY <1>2, <2>1
  <1>4. \A a, b, c \in Nat : a + n <= b + c => a <= b + c
        OBVIOUS
  <1>5. charged' <= planned' + repeats'
        BY <1>1, <1>3, <1>4
  <1>. QED BY <1>5 DEF UsageInv, ChargedOncePerTick

LEMMA OneMoreTick == ASSUME NEW n \in Nat
                     PROVE  /\ TickSeconds * (n + 1) = TickSeconds * n + TickSeconds
                            /\ TickSeconds * n \in Nat /\ TickSeconds \in Nat
  <1>1. TickSeconds \in Nat
        BY UsageAssumption DEF UsageAssumption
  <1>. QED BY <1>1

\* A step that only moves one message on, to one that has read nothing yet.
LEMMA MessageMoves ==
    ASSUME UsageInv, NEW c \in DebitChains, NEW m \in {Done, Queued},
           debit' = [debit EXCEPT ![c] = m],
           UNCHANGED <<running, billed, job, total, meter, ticks, charged, overlapped,
                     missed>>,
           planned' \in Nat, repeats' \in Nat,
           \/ c \in Pending /\ planned' = planned /\ repeats' = repeats
           \/ planned' + repeats' = planned + repeats + 1
    PROVE  UsageInv'
  <1>1. m \in Message /\ m.step \in {"done", "queued"}
        BY PlainMessages
  <1>2. UsageTypeOK
        BY DEF UsageInv
  <1>3. /\ debit' \in [DebitChains -> Message]
        /\ debit'[c] = m /\ \A d \in DebitChains : d # c => debit'[d] = debit[d]
        /\ Cardinality(Pending)' <= Cardinality(Pending) + 1
        /\ c \in Pending => Cardinality(Pending)' <= Cardinality(Pending)
        BY <1>1, <1>2, PendingStep
  <1>4. UsageTypeOK'
        BY <1>2, <1>3 DEF UsageTypeOK
  <1>5. charged' + Cardinality(Pending)' <= planned' + repeats'
    <2>1. /\ charged \in Nat /\ planned \in Nat /\ repeats \in Nat
          /\ charged + Cardinality(Pending) <= planned + repeats
          BY <1>2 DEF UsageInv, DebitInv, UsageTypeOK
    <2>2. PICK n \in Nat, p \in Nat : n = Cardinality(Pending) /\ p = Cardinality(Pending')
          BY PendingIsFinite
    <2>3. p <= n + 1 /\ (c \in Pending => p <= n) /\ charged + n <= planned + repeats
          BY <1>3, <2>1, <2>2
    <2>4. CASE c \in Pending /\ planned' = planned /\ repeats' = repeats
          BY <2>1, <2>2, <2>3, <2>4
    <2>5. CASE planned' + repeats' = planned + repeats + 1
      <3>1. charged + p <= planned + repeats + 1
            BY <2>1, <2>2, <2>3
      <3>2. Cardinality(Pending)' = p /\ charged' = charged
            BY <2>2
      <3>3. charged + p <= planned' + repeats'
            BY <2>5, <3>1
      <3>. QED BY <3>2, <3>3
    <2>. QED BY <2>4, <2>5
  <1>6. DebitInv'
    <2>1. \A d \in DebitChains : debit'[d].step \in {"read", "flushed"} => d # c
          BY <1>1, <1>3
    <2>2. DebitInv
          BY DEF UsageInv
    <2>. QED BY <1>3, <1>5, <2>1, <2>2 DEF DebitInv
  <1>7. TotalCountsDebits' /\ SecondsAreLostOnlyByOverlap'
        BY DEF UsageInv, TotalCountsDebits, SecondsAreLostOnlyByOverlap
  <1>. QED BY <1>4, <1>6, <1>7, UsageFolds

LEMMA MeterStep == ASSUME UsageInv, MeterReads \/ MeterCounts PROVE UsageInv'
  <1>0. /\ UsageTypeOK /\ DebitInv /\ TotalCountsDebits /\ SecondsAreLostOnlyByOverlap
        /\ billed \in Nat /\ ticks \in Nat /\ charged \in Nat
        BY DEF UsageInv, UsageTypeOK
  <1>1. CASE MeterReads
    <2>1. UsageTypeOK'
          BY <1>0, <1>1 DEF MeterReads, UsageTypeOK
    <2>2. DebitInv' /\ TotalCountsDebits' /\ SecondsAreLostOnlyByOverlap'
          BY <1>0, <1>1 DEF MeterReads, DebitInv, TotalCountsDebits,
                            SecondsAreLostOnlyByOverlap, Pending
    <2>. QED BY <2>1, <2>2, UsageFolds
  <1>2. CASE MeterCounts
    <2>1. /\ billed' = billed + 1 /\ ticks' = ticks + 1
          /\ overlapped' = (overlapped \/ Reading # {})
          /\ meter' \in {"queued", "over"}
          /\ UNCHANGED <<running, job, total, debit, charged, planned, repeats, missed>>
          /\ \A c \in DebitChains : debit[c].step # "flushed"
          BY <1>2 DEF MeterCounts, RowsAreFree
    <2>2. overlapped' \in BOOLEAN /\ (~ overlapped' => ~ overlapped /\ Reading = {})
          BY <2>1
    <2>9. TickSeconds * charged \in Nat
          BY <1>0, OneMoreTick
    <2>3. UsageTypeOK'
          BY <1>0, <2>1, <2>2 DEF UsageTypeOK
    <2>4. DebitInv'
      <3>1. ASSUME NEW c \in DebitChains, debit[c].step \in {"read", "flushed"}
            PROVE  debit[c].billed <= ticks' + TickSeconds * charged /\ overlapped'
        <4>1. debit[c].billed <= ticks + TickSeconds * charged
              BY <1>0, <3>1 DEF DebitInv
        <4>2. debit[c].billed \in Nat
              BY <1>0, <3>1, MessageKinds DEF UsageTypeOK
        <4>3. c \in Reading
              BY <2>1, <3>1 DEF Reading
        <4>4. debit[c].billed <= ticks' + TickSeconds * charged
              BY <1>0, <2>1, <2>9, <4>1, <4>2
        <4>. QED BY <2>2, <4>3, <4>4
      <3>2. Pending' = Pending
            BY <2>1 DEF Pending
      <3>. QED BY <1>0, <2>1, <3>1, <3>2 DEF DebitInv
    <2>5. TotalCountsDebits'
          BY <1>0, <2>1 DEF TotalCountsDebits
    <2>6. SecondsAreLostOnlyByOverlap'
      <3>1. /\ billed <= ticks + TickSeconds * charged
            /\ ~ overlapped => billed = ticks + TickSeconds * charged
            BY <1>0 DEF SecondsAreLostOnlyByOverlap
      <3>2. billed' <= ticks' + TickSeconds * charged'
            BY <1>0, <2>1, <2>9, <3>1
      <3>3. ~ overlapped' => billed' = ticks' + TickSeconds * charged'
            BY <1>0, <2>1, <2>2, <2>9, <3>1
      <3>. QED BY <3>2, <3>3 DEF SecondsAreLostOnlyByOverlap
    <2>. QED BY <2>3, <2>4, <2>5, <2>6, UsageFolds
  <1>. QED BY <1>1, <1>2

LEMMA LookStep == ASSUME UsageInv, NEW c \in DebitChains, DebitLooks(c) PROVE UsageInv'
  <1>0. /\ UsageTypeOK /\ DebitInv /\ TotalCountsDebits /\ SecondsAreLostOnlyByOverlap
        /\ billed \in Nat /\ charged \in Nat /\ planned \in Nat /\ repeats \in Nat
        BY DEF UsageInv, UsageTypeOK
  <1>1. c \in Pending
        BY PlainMessages DEF DebitLooks, Pending
  <1>2. CASE ~ running
        BY <1>0, <1>1, <1>2, MessageMoves DEF DebitLooks
  <1>3. CASE running
    <2>. DEFINE m == [step |-> "read", billed |-> billed]
    <2>1. m \in Message /\ m.step = "read" /\ m.billed = billed
          BY <1>0 DEF Message
    <2>2. debit' = [debit EXCEPT ![c] = m]
          BY <1>3 DEF DebitLooks
    <2>3. UNCHANGED <<running, billed, job, total, meter, ticks, charged, planned, repeats,
                      overlapped, missed>>
          BY DEF DebitLooks
    <2>. HIDE DEF m
    <2>4. /\ debit' \in [DebitChains -> Message]
          /\ debit'[c] = m /\ \A d \in DebitChains : d # c => debit'[d] = debit[d]
          /\ Cardinality(Pending)' <= Cardinality(Pending)
          BY <1>0, <1>1, <2>1, <2>2, PendingStep
    <2>5. UsageTypeOK'
          BY <1>0, <2>3, <2>4 DEF UsageTypeOK
    <2>6. charged' + Cardinality(Pending)' <= planned' + repeats'
      <3>1. PICK n \in Nat, p \in Nat : n = Cardinality(Pending) /\ p = Cardinality(Pending')
            BY PendingIsFinite
      <3>2. charged + n <= planned + repeats /\ p <= n
            BY <1>0, <2>4, <3>1 DEF DebitInv
      <3>3. charged + p <= planned + repeats
            BY <1>0, <3>2
      <3>. QED BY <2>3, <3>1, <3>3
    <2>7. billed <= ticks + TickSeconds * charged
          BY <1>0 DEF SecondsAreLostOnlyByOverlap
    <2>8. DebitInv'
          BY <1>0, <2>1, <2>3, <2>4, <2>6, <2>7 DEF DebitInv
    <2>9. TotalCountsDebits' /\ SecondsAreLostOnlyByOverlap'
          BY <1>0, <2>3 DEF TotalCountsDebits, SecondsAreLostOnlyByOverlap
    <2>. QED BY <2>5, <2>8, <2>9, UsageFolds
  <1>. QED BY <1>2, <1>3

LEMMA FlushStep == ASSUME UsageInv, NEW c \in DebitChains, DebitFlushes(c) PROVE UsageInv'
  <1>0. /\ UsageTypeOK /\ DebitInv /\ TotalCountsDebits /\ SecondsAreLostOnlyByOverlap
        /\ total \in Nat /\ charged \in Nat /\ planned \in Nat /\ repeats \in Nat
        BY DEF UsageInv, UsageTypeOK
  <1>1. /\ c \in Pending /\ debit[c].step = "read"
        /\ \A d \in DebitChains : debit[d].step # "flushed"
        BY DEF DebitFlushes, Reading, Pending, RowsAreFree
  <1>2. debit[c].billed \in Nat
        BY <1>0, <1>1, MessageKinds DEF UsageTypeOK
  <1>3. (job = "open") \in BOOLEAN
        OBVIOUS
  <1>. DEFINE m == [step |-> "flushed", billed |-> debit[c].billed, open |-> job = "open",
                    total |-> total]
  <1>4. m \in Message
        BY <1>0, <1>2, <1>3 DEF Message
  <1>5. /\ m.step = "flushed" /\ m.billed = debit[c].billed /\ m.total = total
        OBVIOUS
  <1>7. debit' = [debit EXCEPT ![c] = m]
        BY DEF DebitFlushes
  <1>8. UNCHANGED <<running, billed, job, total, meter, ticks, charged, planned, repeats,
                    overlapped, missed>>
        BY DEF DebitFlushes
  <1>. HIDE DEF m
  <1>9. /\ debit' \in [DebitChains -> Message]
        /\ debit'[c] = m /\ \A d \in DebitChains : d # c => debit'[d] = debit[d]
        /\ Cardinality(Pending)' <= Cardinality(Pending)
        BY <1>0, <1>1, <1>4, <1>7, PendingStep
  <1>10. UsageTypeOK'
         BY <1>0, <1>8, <1>9 DEF UsageTypeOK
  <1>11. charged' + Cardinality(Pending)' <= planned' + repeats'
    <2>1. PICK n \in Nat, p \in Nat : n = Cardinality(Pending) /\ p = Cardinality(Pending')
          BY PendingIsFinite
    <2>2. charged + n <= planned + repeats /\ p <= n
          BY <1>0, <1>9, <2>1 DEF DebitInv
    <2>3. charged + p <= planned + repeats
          BY <1>0, <2>2
    <2>. QED BY <1>8, <2>1, <2>3
  <1>12. DebitInv'
    <2>1. ASSUME NEW d \in DebitChains, debit'[d].step \in {"read", "flushed"}
          PROVE  /\ debit'[d].billed <= ticks' + TickSeconds * charged'
                 /\ overlapped' \/ debit'[d].billed = billed'
          BY <1>0, <1>1, <1>5, <1>8, <1>9, <2>1 DEF DebitInv
    <2>2. ASSUME NEW d \in DebitChains, debit'[d].step = "flushed"
          PROVE  d = c
          BY <1>1, <1>9, <2>2
    <2>. QED BY <1>5, <1>8, <1>9, <1>11, <2>1, <2>2 DEF DebitInv
  <1>13. TotalCountsDebits' /\ SecondsAreLostOnlyByOverlap'
         BY <1>0, <1>8 DEF TotalCountsDebits, SecondsAreLostOnlyByOverlap
  <1>. QED BY <1>10, <1>12, <1>13, UsageFolds

LEMMA WriteStep == ASSUME UsageInv, NEW c \in DebitChains, DebitWrites(c) PROVE UsageInv'
  <1>0. /\ UsageTypeOK /\ DebitInv /\ TotalCountsDebits /\ SecondsAreLostOnlyByOverlap
        /\ total \in Nat /\ charged \in Nat /\ planned \in Nat /\ repeats \in Nat
        /\ billed \in Nat /\ ticks \in Nat /\ missed \in Nat
        BY DEF UsageInv, UsageTypeOK
  <1>1. /\ c \in Pending /\ debit[c].step = "flushed"
        /\ \A d \in DebitChains : debit[d].step = "flushed" => d = c
        BY <1>0 DEF DebitWrites, Pending, DebitInv
  <1>2. debit[c].billed \in Nat /\ debit[c].total = total
        BY <1>0, <1>1, MessageKinds DEF UsageTypeOK, DebitInv
  <1>3. /\ billed' = debit[c].billed + TickSeconds
        /\ charged' = charged + 1 /\ ticks' = ticks
        /\ overlapped' = (overlapped \/ Reading # {})
        /\ debit' = [debit EXCEPT ![c] = Committed]
        /\ UNCHANGED <<running, job, meter, planned, repeats>>
        BY DEF DebitWrites
  <1>4. \/ total' = total + TickSeconds /\ missed' = missed
        \/ total' = total /\ missed' = missed + 1
        BY <1>2 DEF DebitWrites
  <1>5. /\ debit' \in [DebitChains -> Message]
        /\ debit'[c] = Committed /\ \A d \in DebitChains : d # c => debit'[d] = debit[d]
        /\ Cardinality(Pending)' = Cardinality(Pending) - 1
        BY <1>0, <1>1, <1>3, PendingStep, PlainMessages
  <1>6. overlapped' \in BOOLEAN /\ (~ overlapped' => ~ overlapped /\ Reading = {})
        BY <1>3
  <1>7. billed' \in Nat /\ total' \in Nat /\ charged' \in Nat /\ missed' \in Nat
    <2>1. TickSeconds \in Nat
          BY <1>0, OneMoreTick
    <2>2. billed' \in Nat
          BY <1>2, <1>3, <2>1
    <2>3. total' \in Nat
          BY <1>0, <1>4, <2>1
    <2>. QED BY <1>0, <1>3, <1>4, <2>2, <2>3
  <1>8. UsageTypeOK'
        BY <1>0, <1>3, <1>5, <1>6, <1>7 DEF UsageTypeOK
  <1>9. charged' + Cardinality(Pending)' <= planned' + repeats'
    <2>1. PICK n \in Nat, p \in Nat : n = Cardinality(Pending) /\ p = Cardinality(Pending')
          BY PendingIsFinite
    <2>2. charged + n <= planned + repeats /\ p = n - 1
          BY <1>0, <1>5, <2>1 DEF DebitInv
    <2>3. charged + 1 + p <= planned + repeats
          BY <1>0, <2>2
    <2>. QED BY <1>3, <2>1, <2>3
  <1>10. TickSeconds * charged' = TickSeconds * charged + TickSeconds /\ TickSeconds \in Nat
         /\ TickSeconds * charged \in Nat
         BY <1>0, <1>3, OneMoreTick
  <1>11. DebitInv'
    <2>1. ASSUME NEW d \in DebitChains, debit'[d].step \in {"read", "flushed"}
          PROVE  /\ debit'[d].step = "read" /\ overlapped'
                 /\ debit'[d].billed <= ticks' + TickSeconds * charged'
      <3>1. d # c /\ debit'[d] = debit[d]
            BY <1>5, <2>1, PlainMessages
      <3>2. debit[d].step = "read"
            BY <1>1, <2>1, <3>1
      <3>3. d \in Reading
            BY <3>2 DEF Reading
      <3>4. debit[d].billed <= ticks + TickSeconds * charged /\ debit[d].billed \in Nat
            BY <1>0, <3>2, MessageKinds DEF DebitInv, UsageTypeOK
      <3>5. overlapped'
            BY <1>6, <3>3
      <3>6. debit[d].billed <= ticks' + TickSeconds * charged'
            BY <1>0, <1>3, <1>10, <3>4
      <3>. QED BY <3>1, <3>2, <3>5, <3>6
    <2>. QED BY <1>9, <2>1 DEF DebitInv
  <1>12. TotalCountsDebits'
    <2>1. total + TickSeconds * missed = TickSeconds * charged
          BY <1>0 DEF TotalCountsDebits
    <2>2. /\ TickSeconds * (missed + 1) = TickSeconds * missed + TickSeconds
          /\ TickSeconds * missed \in Nat
          BY <1>0, OneMoreTick
    <2>3. total' + TickSeconds * missed' = TickSeconds * charged'
      <3>1. CASE total' = total + TickSeconds /\ missed' = missed
            BY <1>0, <1>10, <2>1, <2>2, <3>1
      <3>2. CASE total' = total /\ missed' = missed + 1
            BY <1>0, <1>10, <2>1, <2>2, <3>2
      <3>. QED BY <1>4, <3>1, <3>2
    <2>. QED BY <2>3 DEF TotalCountsDebits
  <1>13. SecondsAreLostOnlyByOverlap'
    <2>1. /\ debit[c].billed <= ticks + TickSeconds * charged
          /\ overlapped \/ debit[c].billed = billed
          /\ ~ overlapped => billed = ticks + TickSeconds * charged
          BY <1>0, <1>1 DEF DebitInv, SecondsAreLostOnlyByOverlap
    <2>2. billed' <= ticks' + TickSeconds * charged'
          BY <1>0, <1>2, <1>3, <1>10, <2>1
    <2>3. ~ overlapped' => billed' = ticks' + TickSeconds * charged'
          BY <1>0, <1>2, <1>3, <1>6, <1>10, <2>1
    <2>. QED BY <2>2, <2>3 DEF SecondsAreLostOnlyByOverlap
  <1>. QED BY <1>8, <1>11, <1>12, <1>13, UsageFolds

\* Two messages queued by a worker that died before it acknowledged its own.
LEMMA TwoQueued ==
    ASSUME UsageInv, NEW c \in DebitChains, NEW d \in DebitChains,
           debit[c] = Committed, debit[d] = Done,
           debit' = [debit EXCEPT ![c] = Queued, ![d] = Queued],
           planned' = planned + 1, repeats' = repeats + 1,
           UNCHANGED <<running, billed, job, total, meter, ticks, charged, overlapped,
                     missed>>
    PROVE  UsageInv'
  <1>0. /\ UsageTypeOK /\ DebitInv /\ charged \in Nat /\ planned \in Nat /\ repeats \in Nat
        BY DEF UsageInv, UsageTypeOK
  <1>1. /\ debit' \in [DebitChains -> Message]
        /\ \A b \in DebitChains : debit'[b] = debit[b] \/ (debit'[b] = Queued /\ b \in {c, d})
        BY <1>0, PlainMessages DEF UsageTypeOK
  <1>2. UsageTypeOK'
        BY <1>0, <1>1 DEF UsageTypeOK
  <1>3. charged' + Cardinality(Pending)' <= planned' + repeats'
    <2>1. Pending' \subseteq Pending \cup {c} \cup {d}
          BY <1>1 DEF Pending
    <2>2. /\ IsFiniteSet(Pending \cup {c})
          /\ Cardinality(Pending \cup {c}) = Cardinality(Pending)
             \/ Cardinality(Pending \cup {c}) = Cardinality(Pending) + 1
          BY PendingIsFinite, FS_AddElement
    <2>3. /\ IsFiniteSet(Pending \cup {c} \cup {d})
          /\ Cardinality(Pending \cup {c} \cup {d}) = Cardinality(Pending \cup {c})
             \/ Cardinality(Pending \cup {c} \cup {d}) = Cardinality(Pending \cup {c}) + 1
          BY <2>2, FS_AddElement
    <2>4. Cardinality(Pending') <= Cardinality(Pending \cup {c} \cup {d})
          BY <2>1, <2>3, FS_Subset
    <2>5. PICK n \in Nat, p \in Nat : n = Cardinality(Pending) /\ p = Cardinality(Pending')
          BY PendingIsFinite
    <2>6. p <= n + 2
          BY <2>2, <2>3, <2>4, <2>5
    <2>7. charged + n <= planned + repeats
          BY <1>0, <2>5 DEF DebitInv
    <2>8. charged + p <= planned + 1 + (repeats + 1)
          BY <1>0, <2>5, <2>6, <2>7
    <2>. QED BY <2>5, <2>8
  <1>4. DebitInv'
    <2>1. \A b \in DebitChains : debit'[b].step \in {"read", "flushed"} => debit'[b] = debit[b]
          BY <1>1, PlainMessages
    <2>. QED BY ZenonT(40), <1>0, <1>3, <2>1 DEF DebitInv
  <1>5. TotalCountsDebits' /\ SecondsAreLostOnlyByOverlap'
        BY DEF UsageInv, TotalCountsDebits, SecondsAreLostOnlyByOverlap
  <1>. QED BY <1>2, <1>4, <1>5, UsageFolds

LEMMA OtherMessageSteps ==
    ASSUME UsageInv, NEW c \in DebitChains, DebitGoesOn(c) \/ DebitFails(c) \/ DebitRepeats(c)
    PROVE  UsageInv'
  <1>0. planned \in Nat /\ repeats \in Nat
        BY DEF UsageInv, UsageTypeOK
  <1>1. CASE DebitGoesOn(c)
    <2>1. /\ debit' = [debit EXCEPT ![c] = Queued]
          /\ planned' = planned + 1 /\ repeats' = repeats
          /\ UNCHANGED <<running, billed, job, total, meter, ticks, charged, overlapped,
                     missed>>
          BY <1>1 DEF DebitGoesOn
    <2>2. planned' + repeats' = planned + repeats + 1 /\ planned' \in Nat /\ repeats' \in Nat
          BY <1>0, <2>1
    <2>. QED BY <2>1, <2>2, MessageMoves
  <1>2. CASE DebitFails(c)
    <2>1. PICK m \in {Done, Queued} : debit' = [debit EXCEPT ![c] = m]
          BY <1>2 DEF DebitFails
    <2>2. /\ planned' = planned /\ repeats' = repeats
          /\ UNCHANGED <<running, billed, job, total, meter, ticks, charged, overlapped,
                     missed>>
          BY <1>2 DEF DebitFails
    <2>3. c \in Pending
          BY <1>2 DEF DebitFails, Pending
    <2>. QED BY <1>0, <2>1, <2>2, <2>3, MessageMoves
  <1>3. CASE DebitRepeats(c)
    <2>1. /\ repeats' = repeats + 1
          /\ UNCHANGED <<running, billed, job, total, meter, ticks, charged, overlapped,
                     missed>>
          BY <1>3 DEF DebitRepeats
    <2>2. CASE debit' = [debit EXCEPT ![c] = Queued] /\ planned' = planned
      <3>1. planned' + repeats' = planned + repeats + 1 /\ planned' \in Nat /\ repeats' \in Nat
            BY <1>0, <2>1, <2>2
      <3>. QED BY <2>1, <2>2, <3>1, MessageMoves
    <2>3. ASSUME NEW d \in DebitChains, debit[d] = Done,
                 debit' = [debit EXCEPT ![c] = Queued, ![d] = Queued],
                 planned' = planned + 1
          PROVE  UsageInv'
          BY <1>3, <2>1, <2>3, TwoQueued DEF DebitRepeats
    <2>. QED BY <1>3, <2>2, <2>3 DEF DebitRepeats
  <1>. QED BY <1>1, <1>2, <1>3

LEMMA UsageStep == ASSUME UsageInv, [UsageNext]_usageVars PROVE UsageInv'
  <1>1. ASSUME UNCHANGED <<billed, total, debit, ticks, charged, planned, repeats, overlapped,
                           meter, missed>>,
               running' \in BOOLEAN, job' \in {"none", "open", "stopped"}
        PROVE  UsageInv'
    <2>1. UsageTypeOK'
          BY <1>1 DEF UsageInv, UsageTypeOK
    <2>2. DebitInv'
          BY <1>1 DEF UsageInv, DebitInv, Pending
    <2>3. TotalCountsDebits' /\ SecondsAreLostOnlyByOverlap'
          BY <1>1 DEF UsageInv, TotalCountsDebits, SecondsAreLostOnlyByOverlap
    <2>. QED BY <2>1, <2>2, <2>3, UsageFolds
  <1>2. running \in BOOLEAN /\ job \in {"none", "open", "stopped"}
        BY DEF UsageInv, UsageTypeOK
  <1>3. CASE UsageEnds
        BY <1>1, <1>2, <1>3 DEF UsageEnds
  <1>4. CASE JobOpens \/ JobStops
        BY <1>1, <1>2, <1>4 DEF JobOpens, JobStops
  <1>5. CASE UNCHANGED usageVars
        BY <1>1, <1>2, <1>5 DEF usageVars
  <1>6. ASSUME NEW c \in DebitChains, DebitLooks(c) \/ DebitFlushes(c) \/ DebitWrites(c)
        PROVE  UsageInv'
        BY <1>6, LookStep, FlushStep, WriteStep
  <1>7. ASSUME NEW c \in DebitChains, DebitGoesOn(c) \/ DebitFails(c) \/ DebitRepeats(c)
        PROVE  UsageInv'
        BY <1>7, OtherMessageSteps
  <1>8. CASE MeterReads \/ MeterCounts
        BY <1>8, MeterStep
  <1>. QED BY <1>3, <1>4, <1>5, <1>6, <1>7, <1>8 DEF UsageNext

LEMMA UsageIsSafe == UsageSpec => []UsageInv
  BY UsageInitially, UsageStep, PTL DEF UsageSpec

-----------------------------------------------------------------------------
(* MCMoney: each scene is a behaviour of its component *)

LEMMA SceneStep ==
    ASSUME [MoneyNext]_<<scene, moneyVars>>
    PROVE  /\ [WalletNext]_walletVars /\ [FinanceNext]_financeVars
           /\ [InvoiceNext]_invoiceVars /\ [NotificationsNext]_notificationVars
           /\ [UsageNext]_usageVars
  <1>1. CASE MoneyNext
        BY <1>1 DEF MoneyNext, FinanceNext
  <1>2. CASE UNCHANGED <<scene, moneyVars>>
        BY <1>2 DEF moneyVars
  <1>. QED BY <1>1, <1>2

LEMMA SceneIsComponent ==
    MoneySpec => /\ WalletSpec /\ FinanceSpec /\ InvoiceSpec
                 /\ NotificationsSpec /\ UsageSpec
  <1>1. MoneyInit => WalletInit /\ FinanceInit /\ InvoiceInit /\ NotificationsInit /\ UsageInit
        BY DEF MoneyInit
  <1>. QED BY <1>1, SceneStep, PTL
           DEF MoneySpec, WalletSpec, FinanceSpec, InvoiceSpec, NotificationsSpec, UsageSpec

\* A payment acknowledged to Stripe has been credited, and one is credited again only
\* by a delivery that had looked for its row before the first was committed: for any
\* payments, any number of requests at a time and any interleaving of their steps.
THEOREM WalletStaysSafe == MoneySpec => []WalletSafety
  <1>1. WalletTypeOK /\ AckedIsCredited /\ CreditsOverlap => WalletSafety
        BY DEF WalletSafety
  <1>. QED BY <1>1, SceneIsComponent, WalletIsSafe, PTL

\* The wallet's balance is that of its last row, and each row's is its amount applied
\* to the balance its writer read: what overlapping writers lose is what was committed
\* in between, and nothing else is lost.
THEOREM BalanceStaysAddedUp == MoneySpec => []BalanceAddsUp
  BY SceneIsComponent, WalletIsSafe, PTL

\* The payable account is what the earnings and the payouts say, an event with
\* an id is posted once, settled earnings were paid, and the dashboard leaves no
\* earning out: for any earnings, events and callers.
THEOREM FinanceStaysSafe == MoneySpec => []FinanceSafety
  BY SceneIsComponent, FinanceIsSafe, PTL

\* Invoice numbers have no gap, inbox rows have their attempts, a tick is charged once
\* but for messages that come back, the job's total counts every debit that found it,
\* and seconds are lost only by an overlap: for any entries, notices, chains and tick
\* length.
THEOREM TasksStaySafe == MoneySpec => []TasksSafety
  <1>1. (InvoiceTypeOK /\ NumbersAreGapless) /\ (NotificationsTypeOK /\ AttemptsAccountForRows)
           /\ UsageInv => TasksSafety
        BY DEF UsageInv, TasksSafety
  <1>. QED BY <1>1, SceneIsComponent, InvoicesAreSafe, NotificationsAreSafe, UsageIsSafe, PTL

\* An opt-out is undone only by a request that opts in, whatever requests overlap.
THEOREM OptOutStays == MoneySpec => OptOutIsKept
  BY SceneIsComponent, NotificationsAreSafe, PTL

\* The invoices of a year, with workers that fail, wait for the year's row or draw its
\* first number together, implement the gapless series, for any entries and workers.
THEOREM InvoicesImplementSeries == MoneySpec => ImplementsSeries
  BY SceneIsComponent, InvoicesAreSafe, PTL
=============================================================================
