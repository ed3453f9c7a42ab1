--------------------------- MODULE EarningsProofs ---------------------------
(***************************************************************************)
(* What deposits earn, and what is paid out of it, proved for all sets of  *)
(* users, deposits, payouts, keys and desks, any referrals and percentages *)
(* and any number of faults.  That no movement is refused for want of room *)
(* in a column needs columns that hold all there ever is to credit.        *)
(***************************************************************************)
EXTENDS Earnings, CentsTheorems, SequenceTheorems

Sources == {"REVSHARE_DEPOSIT", "MANAGER_SPREAD"}

\* What a payout of one level of one deposit is.
Line(d, level) ==
  [deposit : {d}, level : {level}, source : Sources, payee : Users, amount : Nat \ {0}]
-----------------------------------------------------------------------------
(* The commissions of a deposit.                                           *)

\* The range of a concatenation is that of its parts.
LEMMA RangeOfConcat ==
  ASSUME NEW S, NEW s \in Seq(S), NEW t \in Seq(S)
  PROVE  s \o t \in Seq(S) /\ Range(s \o t) = Range(s) \union Range(t)
<1>1. /\ s \o t \in Seq(S) /\ Len(s \o t) = Len(s) + Len(t)
      /\ \A i \in 1..Len(s \o t) :
           (s \o t)[i] = IF i <= Len(s) THEN s[i] ELSE t[i - Len(s)]
      /\ Len(s) \in Nat /\ Len(t) \in Nat
  OBVIOUS
<1>2. ASSUME NEW x \in Range(s) PROVE x \in Range(s \o t)
  <2>1. PICK i \in 1..Len(s) : x = s[i]
    BY DEF Range
  <2>2. i \in 1..Len(s \o t) /\ (s \o t)[i] = x
    BY <1>1, <2>1
  <2> QED
    BY <1>1, <2>2 DEF Range
<1>3. ASSUME NEW x \in Range(t) PROVE x \in Range(s \o t)
  <2>1. PICK i \in 1..Len(t) : x = t[i]
    BY DEF Range
  <2>2. Len(s) + i \in 1..Len(s \o t) /\ (s \o t)[Len(s) + i] = x
    BY <1>1, <2>1
  <2> QED
    BY <1>1, <2>2 DEF Range
<1>4. ASSUME NEW x \in Range(s \o t) PROVE x \in Range(s) \union Range(t)
  <2>1. PICK i \in 1..Len(s \o t) : x = (s \o t)[i]
    BY <1>1 DEF Range
  <2>2. CASE i <= Len(s)
    <3>1. i \in 1..Len(s) /\ x = s[i]
      BY <1>1, <2>1, <2>2
    <3> QED
      BY <3>1 DEF Range
  <2>3. CASE i > Len(s)
    <3>1. i - Len(s) \in 1..Len(t) /\ x = t[i - Len(s)]
      BY <1>1, <2>1, <2>3
    <3> QED
      BY <3>1 DEF Range
  <2> QED
    BY <1>1, <2>2, <2>3
<1> QED
  BY <1>1, <1>2, <1>3, <1>4

\* The referral chain is made of users.
LEMMA ChainsAreOfUsers ==
  ASSUME NEW u \in Users
  PROVE  Chain(u) \in Seq(Users)
<1>1. ASSUME NEW chain \in Seq(Users), chain # <<>>
      PROVE  Climb(chain) \in Seq(Users) /\ Climb(chain) # <<>>
  <2>1. chain[Len(chain)] \in Users
    BY <1>1
  <2>2. ReferredBy[chain[Len(chain)]] \in Users \union {None}
    BY <2>1, ReferralAssumption
  <2> QED
    BY <1>1, <2>2 DEF Climb
<1>2. <<u>> \in Seq(Users) /\ <<u>> # <<>>
  OBVIOUS
<1> DEFINE one == Climb(<<u>>)
           two == Climb(one)
<1>3. one \in Seq(Users) /\ one # <<>>
  BY <1>1, <1>2
<1> HIDE DEF one
<1>4. two \in Seq(Users) /\ two # <<>>
  BY <1>1, <1>3
<1> HIDE DEF two
<1>5. Climb(two) \in Seq(Users) /\ Climb(two) # <<>>
  BY <1>1, <1>4
<1> QED
  BY <1>5 DEF Chain, one, two

\* A payout is one line at most, of the source it is made for.
LEMMA PayoutIsALine ==
  ASSUME NEW d \in Deposit, NEW level, NEW source \in Sources, NEW payee \in Users,
         NEW percent \in Nat
  PROVE  /\ Payout(d, level, source, payee, percent) \in Seq(Line(d, level))
         /\ \A x, y \in Range(Payout(d, level, source, payee, percent)) :
              x = y /\ x.source = source
<1>1. Cut(d, percent) \in Nat
  <2>1. Paid[d] \in Nat
    BY PaidAssumption
  <2>2. ASSUME NEW x \in Nat, NEW y \in Nat PROVE (2 * x * y + 100) \div 200 \in Nat
    OBVIOUS
  <2> QED
    BY <2>1, <2>2 DEF Cut
<1> DEFINE line == [deposit |-> d, level |-> level, source |-> source,
                    payee |-> payee, amount |-> Cut(d, percent)]
<1>2. CASE Cut(d, percent) = 0
  BY <1>2 DEF Payout, Range
<1>3. CASE Cut(d, percent) # 0
  <2>1. line \in Line(d, level) /\ line.source = source
    BY <1>1, <1>3 DEF Line
  <2>2. Payout(d, level, source, payee, percent) = <<line>>
    BY <1>3 DEF Payout
  <2> HIDE DEF line
  <2>3. <<line>> \in Seq(Line(d, level)) /\ Range(<<line>>) = {line}
    BY <2>1 DEF Range
  <2> QED
    BY <2>1, <2>2, <2>3
<1> QED
  BY <1>2, <1>3

\* One level pays each source once.
LEMMA LevelsPayOnce ==
  ASSUME NEW d \in Deposit, NEW level \in 1..3
  PROVE  /\ PayoutsAt(d, level) \in Seq(Line(d, level))
         /\ \A x, y \in Range(PayoutsAt(d, level)) : x.source = y.source => x = y
<1> DEFINE chain == Chain(Player[d])
           a == chain[level]
           own == Payout(d, level, "REVSHARE_DEPOSIT", a, Share(a, level))
           spread == Payout(d, 1, "MANAGER_SPREAD", ManagerOf[a], Spread(a))
           direct == Payout(d, 1, "MANAGER_SPREAD", a, Ceiling[a])
<1>1. chain \in Seq(Users)
  BY ChainsAreOfUsers, PlayerAssumption
<1>2. PayoutsAt(d, level) =
        IF level > Len(chain) THEN <<>>
        ELSE IF a \in Affiliates
        THEN own \o (IF level = 1 /\ ManagerOf[a] # None THEN spread ELSE <<>>)
        ELSE IF level = 1 /\ a \in Managers THEN direct ELSE <<>>
  BY DEF PayoutsAt
<1>3. level <= Len(chain) => a \in Users
  BY <1>1
<1>4. \A b \in Affiliates, l \in 1..3 : Share(b, l) \in Nat
  BY PercentAssumption DEF Share
<1> HIDE DEF chain, a
<1>5. CASE level <= Len(chain) /\ a \in Affiliates
  <2>1. /\ own \in Seq(Line(d, level))
        /\ \A x, y \in Range(own) : x = y /\ x.source = "REVSHARE_DEPOSIT"
    BY <1>3, <1>4, <1>5, PayoutIsALine DEF Sources
  <2>2. CASE level = 1 /\ ManagerOf[a] # None
    <3>1. ManagerOf[a] \in Managers /\ ManagerOf[a] \in Users
      BY <1>5, <2>2, AffiliateAssumption
    <3>2. Spread(a) \in Nat
      BY <1>4, <1>5, <3>1, PercentAssumption DEF Spread
    <3>3. /\ spread \in Seq(Line(d, level))
          /\ \A x, y \in Range(spread) : x = y /\ x.source = "MANAGER_SPREAD"
      BY <2>2, <3>1, <3>2, PayoutIsALine DEF Sources
    <3>4. PayoutsAt(d, level) = own \o spread
      BY <1>2, <1>3, <1>5, <2>2, <1>1
    <3> HIDE DEF own, spread
    <3>5. /\ own \o spread \in Seq(Line(d, level))
          /\ Range(own \o spread) = Range(own) \union Range(spread)
      BY <2>1, <3>3, RangeOfConcat
    <3>6. \A x, y \in Range(own \o spread) : x.source = y.source => x = y
      BY <2>1, <3>3, <3>5
    <3> QED
      BY <3>4, <3>5, <3>6
  <2>3. CASE ~ (level = 1 /\ ManagerOf[a] # None)
    <3> HIDE DEF own, spread, direct
    <3>1. PayoutsAt(d, level) = own \o <<>>
      <4>1. ~ (level > Len(chain))
        BY <1>1, <1>5
      <4> QED
        BY <1>2, <1>5, <2>3, <4>1, Zenon
    <3>2. own \o <<>> = own
      BY <2>1
    <3> QED
      BY <2>1, <3>1, <3>2
  <2> QED
    BY <2>2, <2>3
<1>6. CASE level <= Len(chain) /\ a \notin Affiliates /\ level = 1 /\ a \in Managers
  <2>1. Ceiling[a] \in Nat
    BY <1>6, PercentAssumption
  <2>2. /\ direct \in Seq(Line(d, level))
        /\ \A x, y \in Range(direct) : x = y
    BY <1>3, <1>6, <2>1, PayoutIsALine DEF Sources
  <2>3. PayoutsAt(d, level) = direct
    BY <1>1, <1>2, <1>6
  <2> QED
    BY <2>2, <2>3
<1>7. CASE \/ level > Len(chain)
           \/ a \notin Affiliates /\ ~ (level = 1 /\ a \in Managers)
  <2>1. PayoutsAt(d, level) = <<>>
    BY <1>2, <1>7
  <2> QED
    BY <2>1 DEF Range
<1> QED
  BY <1>1, <1>5, <1>6, <1>7

\* What a deposit pays out, level by level.
LEMMA PayoutsByLevel ==
  ASSUME NEW d \in Deposit
  PROVE  /\ Payouts(d) \in Seq(UNION {Line(d, level) : level \in 1..3})
         /\ Range(Payouts(d)) = UNION {Range(PayoutsAt(d, level)) : level \in 1..3}
<1> DEFINE Lines == UNION {Line(d, level) : level \in 1..3}
           one == PayoutsAt(d, 1)
           two == PayoutsAt(d, 2)
           three == PayoutsAt(d, 3)
<1>1. \A level \in 1..3 : Line(d, level) \subseteq Lines
  OBVIOUS
<1>2. \A level \in 1..3 : PayoutsAt(d, level) \in Seq(Lines)
  <2>1. ASSUME NEW level \in 1..3 PROVE PayoutsAt(d, level) \in Seq(Lines)
    <3>1. PayoutsAt(d, level) \in Seq(Line(d, level)) /\ Line(d, level) \subseteq Lines
      BY <1>1, LevelsPayOnce
    <3> HIDE DEF Lines
    <3> QED
      BY <3>1
  <2> QED
    BY <2>1
<1>3. one \in Seq(Lines) /\ two \in Seq(Lines) /\ three \in Seq(Lines)
  BY <1>2
<1>4. Payouts(d) = one \o two \o three
  BY DEF Payouts
<1>5. UNION {Range(PayoutsAt(d, level)) : level \in 1..3} =
        Range(one) \union Range(two) \union Range(three)
  BY 1..3 = {1, 2, 3}
<1> HIDE DEF Lines, one, two, three
<1>6. one \o two \in Seq(Lines) /\ Range(one \o two) = Range(one) \union Range(two)
  BY <1>3, RangeOfConcat
<1> DEFINE most == one \o two
<1>7. most \in Seq(Lines) /\ Payouts(d) = most \o three
  BY <1>4, <1>6
<1>8. Range(most) = Range(one) \union Range(two)
  BY <1>6
<1> HIDE DEF most
<1>9. most \o three \in Seq(Lines) /\ Range(most \o three) = Range(most) \union Range(three)
  BY <1>3, <1>7, RangeOfConcat
<1> QED
  BY <1>5, <1>7, <1>8, <1>9 DEF Lines

\* What a commission is made of, and whose.
LEMMA CommissionParts ==
  ASSUME NEW e \in Commission
  PROVE  /\ e.deposit \in Deposit /\ e.level \in 1..3 /\ e.source \in Sources
         /\ e.payee \in Users /\ e.amount \in Nat /\ e.amount > 0
         /\ e \in Range(PayoutsAt(e.deposit, e.level))
         /\ e \in Range(Payouts(e.deposit))
<1>1. PICK d \in Deposit : e \in Range(Payouts(d))
  BY DEF Commission
<1>2. PICK level \in 1..3 : e \in Range(PayoutsAt(d, level))
  <2>1. e \in UNION {Range(PayoutsAt(d, level)) : level \in 1..3}
    BY <1>1, PayoutsByLevel
  <2> QED
    BY <2>1
<1>3. PayoutsAt(d, level) \in Seq(Line(d, level))
  BY LevelsPayOnce
<1>4. e \in Line(d, level)
  BY <1>2, <1>3 DEF Range
<1>5. e.deposit = d /\ e.level = level
  BY <1>4 DEF Line
<1> QED
  BY <1>1, <1>2, <1>4, <1>5 DEF Line

\* A deposit's commissions are those of all commissions that name it.
LEMMA PayoutsAreCommissions ==
  ASSUME NEW d \in Deposit
  PROVE  /\ Payouts(d) \in Seq(Commission)
         /\ \A e \in Commission : e \in Range(Payouts(d)) <=> e.deposit = d
<1>1. Payouts(d) \in Seq(UNION {Line(d, level) : level \in 1..3})
  BY PayoutsByLevel
<1>2. Range(Payouts(d)) \subseteq Commission
  BY DEF Commission
<1>3. \A i \in 1..Len(Payouts(d)) : Payouts(d)[i] \in Commission
  BY <1>1, <1>2 DEF Range
<1>4. Payouts(d) \in Seq(Commission)
  BY <1>1, <1>3
<1>5. ASSUME NEW e \in Range(Payouts(d)) PROVE e.deposit = d
  BY <1>1 DEF Range, Line
<1> QED
  BY <1>4, <1>5, CommissionParts

\* The key by which a commission is looked for and credited names no other one.
LEMMA OneOfEachKind ==
  ASSUME NEW e \in Commission, NEW f \in Commission,
         e.deposit = f.deposit, e.level = f.level, e.source = f.source
  PROVE  e = f
<1>1. /\ e \in Range(PayoutsAt(e.deposit, e.level))
      /\ f \in Range(PayoutsAt(e.deposit, e.level))
      /\ e.deposit \in Deposit /\ e.level \in 1..3
  BY CommissionParts
<1> QED
  BY <1>1, LevelsPayOnce
-----------------------------------------------------------------------------
(* The book: which movements are done, and what they do to a wallet.       *)

Spent(key) == <<key, "only">> \in posted

EarnKey(e) == <<e.source, e.deposit, e.level>>
UnlockKey(e) == <<"unlock", e.source, e.deposit, e.level>>
RulingKey(e, v) == IF v = "AVAILABLE" THEN UnlockKey(e) ELSE <<"reject", e>>
SettlementKey(w, v) ==
  IF v = "APPROVED" THEN <<"commercial-approve", w>> ELSE <<"commercial-unlock", w>>

Verdicts == {"AVAILABLE", "REJECTED"}
RuledSo(e, v) == Book!Done(Ruling(e, v))
SettledSo(w, v) == Book!Done(Settlement(w, v))

\* A movement is done when its key is spent, and posting it spends that key.
LEMMA DoneIsSpent ==
  ASSUME NEW kind \in {"credit", "debit", "lock", "unlock"},
         NEW account, NEW user, NEW amount, NEW key
  PROVE  LET q == Movement(kind, account, user, amount, key)
         IN  /\ Book!Done(q) <=> Spent(key)
             /\ Book!Done(q)' <=> Spent(key)'
             /\ Book!PostOnce(q) => posted' = posted \union {<<key, "only">>}
<1> DEFINE q == Movement(kind, account, user, amount, key)
<1>1. q.kind = kind /\ q.key = key
  BY DEF Movement
<1> HIDE DEF q
<1>2. Book!KeysOf(q) = {<<key, "only">>}
  BY <1>1 DEF Book!KeysOf, Book!LegsOf, Book!KeyOf
<1>3. Book!Done(q) <=> Spent(key)
  BY <1>2 DEF Book!Done, Spent
<1>4. Book!Done(q)' <=> Spent(key)'
  BY <1>2 DEF Book!Done, Spent
<1>5. Book!PostOnce(q) => posted' = posted \union {<<key, "only">>}
  BY <1>2 DEF Book!PostOnce, Book!Post, Book!Done, Book!bookVars
<1> QED
  BY <1>3, <1>4, <1>5 DEF q

\* The key of a deposit's credit.
LEMMA EventKeys ==
  ASSUME NEW d \in Deposit
  PROVE  /\ Confirmed(d) <=> Spent(<<"deposit-confirm", d>>)
         /\ Confirmed(d)' <=> Spent(<<"deposit-confirm", d>>)'
BY DoneIsSpent DEF Confirmed, DepositCredit

\* Those of a commission.
LEMMA CommissionKeys ==
  ASSUME NEW e \in Commission
  PROVE  /\ Earned(e) <=> Spent(EarnKey(e))
         /\ Earned(e)' <=> Spent(EarnKey(e))'
         /\ \A v \in Verdicts : RuledSo(e, v) <=> Spent(RulingKey(e, v))
         /\ \A v \in Verdicts : RuledSo(e, v)' <=> Spent(RulingKey(e, v))'
<1>1. (Earned(e) <=> Spent(EarnKey(e))) /\ (Earned(e)' <=> Spent(EarnKey(e))')
  BY DoneIsSpent DEF Earned, Earn, EarnKey
<1>2. /\ Book!Done(Unlock(e)) <=> Spent(UnlockKey(e))
      /\ Book!Done(Unlock(e))' <=> Spent(UnlockKey(e))'
  BY DoneIsSpent DEF Unlock, UnlockKey
<1>3. /\ Book!Done(TakeBack(e)) <=> Spent(<<"reject", e>>)
      /\ Book!Done(TakeBack(e))' <=> Spent(<<"reject", e>>)'
  BY DoneIsSpent DEF TakeBack
<1>4. ASSUME NEW v \in Verdicts
      PROVE  (RuledSo(e, v) <=> Spent(RulingKey(e, v)))
             /\ (RuledSo(e, v)' <=> Spent(RulingKey(e, v))')
  BY <1>2, <1>3 DEF RuledSo, Ruling, RulingKey
<1> QED
  BY <1>1, <1>4

\* Those of a payout.
LEMMA PaymentKeys ==
  ASSUME NEW w \in Payment
  PROVE  /\ Reserved(w) <=> Spent(<<"commercial-lock", w>>)
         /\ Reserved(w)' <=> Spent(<<"commercial-lock", w>>)'
         /\ \A v \in PaymentStatuses : SettledSo(w, v) <=> Spent(SettlementKey(w, v))
         /\ \A v \in PaymentStatuses : SettledSo(w, v)' <=> Spent(SettlementKey(w, v))'
<1>1. /\ Reserved(w) <=> Spent(<<"commercial-lock", w>>)
      /\ Reserved(w)' <=> Spent(<<"commercial-lock", w>>)'
  BY DoneIsSpent DEF Reserved, Lock
<1>2. /\ Book!Done(PayOut(w)) <=> Spent(<<"commercial-approve", w>>)
      /\ Book!Done(PayOut(w))' <=> Spent(<<"commercial-approve", w>>)'
  BY DoneIsSpent DEF PayOut
<1>3. /\ Book!Done(Return(w)) <=> Spent(<<"commercial-unlock", w>>)
      /\ Book!Done(Return(w))' <=> Spent(<<"commercial-unlock", w>>)'
  BY DoneIsSpent DEF Return
<1>4. ASSUME NEW v \in PaymentStatuses
      PROVE  (SettledSo(w, v) <=> Spent(SettlementKey(w, v)))
             /\ (SettledSo(w, v)' <=> Spent(SettlementKey(w, v))')
  BY <1>2, <1>3 DEF SettledSo, Settlement, SettlementKey
<1> QED
  BY <1>1, <1>4

Spends(key) == posted' = posted \union {<<key, "only">>}

\* What no step undoes, and what a step that posts nothing leaves as it is.
LEMMA DoneLasts ==
  ASSUME posted \subseteq posted'
  PROVE  /\ \A d \in Deposit : Confirmed(d) => Confirmed(d)'
         /\ \A e \in Commission :
              /\ Earned(e) => Earned(e)'
              /\ \A v \in Verdicts : RuledSo(e, v) => RuledSo(e, v)'
         /\ \A w \in Payment :
              /\ Reserved(w) => Reserved(w)'
              /\ \A v \in PaymentStatuses : SettledSo(w, v) => SettledSo(w, v)'
<1>1. \A key : Spent(key) => Spent(key)'
  BY DEF Spent
<1> QED
  BY <1>1, EventKeys, CommissionKeys, PaymentKeys

SameDeposits == \A d \in Deposit : Confirmed(d)' <=> Confirmed(d)
SameEarned == \A e \in Commission : Earned(e)' <=> Earned(e)
SameRulings == \A e \in Commission, v \in Verdicts : RuledSo(e, v)' <=> RuledSo(e, v)
SameReserved == \A w \in Payment : Reserved(w)' <=> Reserved(w)
SameSettled == \A w \in Payment, v \in PaymentStatuses : SettledSo(w, v)' <=> SettledSo(w, v)

\* The key of a movement is no other movement's.
LEMMA SpendingOneKey ==
  ASSUME NEW key, Spends(key)
  PROVE  /\ \A d \in Deposit :
              Confirmed(d)' <=> Confirmed(d) \/ key = <<"deposit-confirm", d>>
         /\ \A e \in Commission : Earned(e)' <=> Earned(e) \/ key = EarnKey(e)
         /\ \A e \in Commission, v \in Verdicts :
              RuledSo(e, v)' <=> RuledSo(e, v) \/ key = RulingKey(e, v)
         /\ \A w \in Payment :
              Reserved(w)' <=> Reserved(w) \/ key = <<"commercial-lock", w>>
         /\ \A w \in Payment, v \in PaymentStatuses :
              SettledSo(w, v)' <=> SettledSo(w, v) \/ key = SettlementKey(w, v)
<1>1. \A k : Spent(k)' <=> Spent(k) \/ key = k
  BY DEF Spends, Spent
<1> QED
  BY <1>1, EventKeys, CommissionKeys, PaymentKeys

\* The first component of a key tells its kind.
Kind(key) == key[1]

\* The kinds do not overlap.
LEMMA KindsOfKeys ==
  /\ \A d \in Deposit : Kind(<<"deposit-confirm", d>>) = "deposit-confirm"
  /\ \A e \in Commission : Kind(EarnKey(e)) \in Sources
  /\ \A e \in Commission, v \in Verdicts : Kind(RulingKey(e, v)) \in {"unlock", "reject"}
  /\ \A w \in Payment : Kind(<<"commercial-lock", w>>) = "commercial-lock"
  /\ \A w \in Payment, v \in PaymentStatuses :
       Kind(SettlementKey(w, v)) \in {"commercial-approve", "commercial-unlock"}
<1>1. \A e \in Commission : Kind(EarnKey(e)) = e.source
  BY DEF Kind, EarnKey
<1> QED
  BY <1>1, CommissionParts DEF Kind, RulingKey, UnlockKey, SettlementKey

\* A deposit's credit.
LEMMA CreditSpends ==
  ASSUME NEW d \in Deposit, Spends(<<"deposit-confirm", d>>)
  PROVE  /\ \A c \in Deposit : Confirmed(c)' <=> Confirmed(c) \/ c = d
         /\ SameEarned /\ SameRulings /\ SameReserved /\ SameSettled
<1>1. \A c \in Deposit : <<"deposit-confirm", d>> = <<"deposit-confirm", c>> <=> c = d
  OBVIOUS
<1>2. Kind(<<"deposit-confirm", d>>) = "deposit-confirm"
  BY DEF Kind
<1> QED
  BY <1>1, <1>2, SpendingOneKey, KindsOfKeys
  DEF SameEarned, SameRulings, SameReserved, SameSettled, Sources

\* A commission's credit.
LEMMA EarningSpends ==
  ASSUME NEW e \in Commission, Spends(EarnKey(e))
  PROVE  /\ \A f \in Commission : Earned(f)' <=> Earned(f) \/ f = e
         /\ SameDeposits /\ SameRulings /\ SameReserved /\ SameSettled
<1>1. \A f \in Commission : EarnKey(e) = EarnKey(f) <=> f = e
  BY OneOfEachKind DEF EarnKey
<1>2. Kind(EarnKey(e)) \in Sources
  BY KindsOfKeys
<1> QED
  BY <1>1, <1>2, SpendingOneKey, KindsOfKeys
  DEF SameDeposits, SameRulings, SameReserved, SameSettled, Sources

\* A ruling's movement.
LEMMA RulingSpends ==
  ASSUME NEW e \in Commission, NEW v \in Verdicts, Spends(RulingKey(e, v))
  PROVE  /\ \A f \in Commission, u \in Verdicts :
              RuledSo(f, u)' <=> RuledSo(f, u) \/ (f = e /\ u = v)
         /\ SameDeposits /\ SameEarned /\ SameReserved /\ SameSettled
<1>1. ASSUME NEW f \in Commission, NEW u \in Verdicts
      PROVE  RulingKey(e, v) = RulingKey(f, u) <=> f = e /\ u = v
  <2>1. Kind(UnlockKey(e)) = "unlock" /\ Kind(UnlockKey(f)) = "unlock"
        /\ Kind(<<"reject", e>>) = "reject" /\ Kind(<<"reject", f>>) = "reject"
    BY DEF Kind, UnlockKey
  <2>2. UnlockKey(e) = UnlockKey(f) => e = f
    BY OneOfEachKind DEF UnlockKey
  <2>3. <<"reject", e>> = <<"reject", f>> => e = f
    OBVIOUS
  <2> QED
    BY <2>1, <2>2, <2>3 DEF RulingKey, Verdicts
<1>2. Kind(RulingKey(e, v)) \in {"unlock", "reject"}
  BY KindsOfKeys
<1> QED
  BY <1>1, <1>2, SpendingOneKey, KindsOfKeys
  DEF SameDeposits, SameEarned, SameReserved, SameSettled, Sources

\* A reservation.
LEMMA LockSpends ==
  ASSUME NEW w \in Payment, Spends(<<"commercial-lock", w>>)
  PROVE  /\ \A x \in Payment : Reserved(x)' <=> Reserved(x) \/ x = w
         /\ SameDeposits /\ SameEarned /\ SameRulings /\ SameSettled
<1>1. \A x \in Payment : <<"commercial-lock", w>> = <<"commercial-lock", x>> <=> x = w
  OBVIOUS
<1>2. Kind(<<"commercial-lock", w>>) = "commercial-lock"
  BY DEF Kind
<1> QED
  BY <1>1, <1>2, SpendingOneKey, KindsOfKeys
  DEF SameDeposits, SameEarned, SameRulings, SameSettled, Sources

\* A payout's settlement.
LEMMA SettlementSpends ==
  ASSUME NEW w \in Payment, NEW v \in PaymentStatuses, Spends(SettlementKey(w, v))
  PROVE  /\ \A x \in Payment, u \in PaymentStatuses :
              SettledSo(x, u)' <=> SettledSo(x, u) \/ (x = w /\ u = v)
         /\ SameDeposits /\ SameEarned /\ SameRulings /\ SameReserved
<1>1. ASSUME NEW x \in Payment, NEW u \in PaymentStatuses
      PROVE  SettlementKey(w, v) = SettlementKey(x, u) <=> x = w /\ u = v
  BY DEF SettlementKey, PaymentStatuses
<1>2. Kind(SettlementKey(w, v)) \in {"commercial-approve", "commercial-unlock"}
  BY KindsOfKeys
<1> QED
  BY <1>1, <1>2, SpendingOneKey, KindsOfKeys
  DEF SameDeposits, SameEarned, SameRulings, SameReserved, Sources

\* A step that posts nothing.
LEMMA NothingSpent ==
  ASSUME posted' = posted
  PROVE  SameDeposits /\ SameEarned /\ SameRulings /\ SameReserved /\ SameSettled
<1>1. \A key : Spent(key)' <=> Spent(key)
  BY DEF Spent
<1> QED
  BY <1>1, EventKeys, CommissionKeys, PaymentKeys
  DEF SameDeposits, SameEarned, SameRulings, SameReserved, SameSettled

BalancesTyped == balance \in [Users -> [Buckets -> 0..MaxInt]]

\* A wallet's main and locked buckets grow by these amounts, and no other wallet.
Moves(user, main, locked) ==
  \A u \in Users :
    /\ balance'[u].main = balance[u].main + (IF u = user THEN main ELSE 0)
    /\ balance'[u].locked = balance[u].locked + (IF u = user THEN locked ELSE 0)

\* A movement that is posted leaves every bucket between nothing and what a
\* column holds.
LEMMA PostKeepsBalances ==
  ASSUME BalancesTyped, NEW q, q.amount \in Nat, Book!Post(q)
  PROVE  BalancesTyped'
<1>1. /\ balance' = Book!Applied(q, balance)
      /\ Book!Affordable(q, balance) /\ Book!Fits(balance')
  BY DEF Book!Post
<1>2. Buckets = Book!Buckets
  BY DEF Buckets, Book!Buckets
<1>3. ASSUME NEW u \in Users, NEW b \in Buckets
      PROVE  balance'[u][b] \in 0..MaxInt
  <2>1. balance[u][b] \in 0..MaxInt
    BY DEF BalancesTyped
  <2>2. balance'[u][b] = balance[u][b] + (IF Book!Gets(q, u, b) THEN q.amount ELSE 0)
                                       - (IF Book!Pays(q, u, b) THEN q.amount ELSE 0)
    BY <1>1, <1>2 DEF Book!Applied
  <2>3. Book!Pays(q, u, b) => balance[u][b] >= q.amount
    BY <1>1, <1>2 DEF Book!Affordable
  <2>4. balance'[u][b] <= MaxInt
    BY <1>1, <1>2 DEF Book!Fits
  <2>5. CASE Book!Pays(q, u, b)
    BY <2>1, <2>2, <2>3, <2>4, <2>5, OpeningAssumption
  <2>6. CASE ~ Book!Pays(q, u, b)
    BY <2>1, <2>2, <2>4, <2>6, OpeningAssumption
  <2> QED
    BY <2>5, <2>6
<1>4. balance' = [u \in Users |-> [b \in Buckets |-> balance'[u][b]]]
  BY <1>1, <1>2 DEF Book!Applied
<1> QED
  BY <1>3, <1>4 DEF BalancesTyped

\* What each kind of movement does to its wallet, if it is posted.
LEMMA PostMoves ==
  ASSUME BalancesTyped, NEW user \in Users, NEW n \in Nat, NEW key
  PROVE  /\ Book!Post(Movement("credit", "main", user, n, key)) => Moves(user, n, 0)
         /\ Book!Post(Movement("credit", "locked", user, n, key)) => Moves(user, 0, n)
         /\ Book!Post(Movement("lock", "main", user, n, key)) => Moves(user, 0 - n, n)
         /\ Book!Post(Movement("unlock", "main", user, n, key)) => Moves(user, n, 0 - n)
         /\ Book!Post(Movement("debit", "locked", user, n, key)) => Moves(user, 0, 0 - n)
<1>1. \A u \in Users :
        balance[u].main \in 0..MaxInt /\ balance[u].locked \in 0..MaxInt /\ MaxInt \in Nat
  BY OpeningAssumption DEF BalancesTyped, Buckets
<1> USE DEF Movement, Book!Post, Book!Applied, Book!Gets, Book!Pays, Book!Buckets, Moves
<1>2. Book!Post(Movement("credit", "main", user, n, key)) => Moves(user, n, 0)
  BY <1>1
<1>3. Book!Post(Movement("credit", "locked", user, n, key)) => Moves(user, 0, n)
  BY <1>1
<1>4. Book!Post(Movement("lock", "main", user, n, key)) => Moves(user, 0 - n, n)
  BY <1>1
<1>5. Book!Post(Movement("unlock", "main", user, n, key)) => Moves(user, n, 0 - n)
  BY <1>1
<1>6. Book!Post(Movement("debit", "locked", user, n, key)) => Moves(user, 0, 0 - n)
  BY <1>1
<1> QED
  BY <1>2, <1>3, <1>4, <1>5, <1>6

\* When a movement is refused: its bucket cannot pay, or the other cannot hold.
LEMMA RefusedMeans ==
  ASSUME BalancesTyped, NEW user \in Users, NEW n \in Nat, NEW key
  PROVE  /\ Book!Refused(Movement("credit", "locked", user, n, key)) =>
              balance[user].locked + n > MaxInt
         /\ Book!Refused(Movement("unlock", "main", user, n, key)) =>
              balance[user].locked < n \/ balance[user].main + n > MaxInt
         /\ Book!Refused(Movement("debit", "locked", user, n, key)) =>
              balance[user].locked < n
<1>1. \A u \in Users :
        /\ balance[u].main \in 0..MaxInt /\ balance[u].locked \in 0..MaxInt
        /\ balance[u].bonus \in 0..MaxInt /\ MaxInt \in Nat
  BY OpeningAssumption DEF BalancesTyped, Buckets
<1> USE DEF Movement, Book!Refused, Book!Affordable, Book!Fits, Book!Applied, Book!Gets,
            Book!Pays, Book!Buckets
<1>2. Book!Refused(Movement("credit", "locked", user, n, key)) =>
        balance[user].locked + n > MaxInt
  BY <1>1
<1>3. Book!Refused(Movement("unlock", "main", user, n, key)) =>
        balance[user].locked < n \/ balance[user].main + n > MaxInt
  BY <1>1
<1>4. Book!Refused(Movement("debit", "locked", user, n, key)) => balance[user].locked < n
  BY <1>1
<1> QED
  BY <1>2, <1>3, <1>4
-----------------------------------------------------------------------------
(* The inductive invariant.                                                *)

EventsInv ==
  EventsTypeOK /\ \A s \in Subscribers, d \in Deposit : inbox[s][d] <= published[d]

DeskSteps == {"idle", "find", "credit", "create", "read", "move", "update"}
DeskRecord ==
  [at : DeskSteps, todo : Seq(Commission), auto : BOOLEAN, verdict : Verdicts]

DesksTyped ==
  /\ desk \in [Desks -> DeskRecord]
  /\ status \in [Commission -> {"none", "LOCKED", "AVAILABLE", "REJECTED"}]
  /\ early \subseteq Deposit

\* A desk generates the commissions of an event, or rules on one of them; with
\* automatic approval it does both.
Deciding(k) == desk[k].at \in {"read", "move", "update"}
Handling(k) ==
  desk[k].at \in {"find", "credit", "create"} \/ (~ At(k, "idle") /\ desk[k].auto)

\* What a handler has to do is what is left of its deposit's commissions ...
Handles(k, d, i) ==
  /\ Len(desk[k].todo) = Len(Payouts(d)) - i + 1
  /\ \A j \in 1..Len(desk[k].todo) : desk[k].todo[j] = Payouts(d)[i + j - 1]

\* ... and those before have rows.
Earlier(d, i) == \A j \in 1..(i - 1) : status[Payouts(d)[j]] # "none"

DeskKnows(k) ==
  /\ At(k, "idle") <=> desk[k].todo = <<>>
  /\ At(k, "create") => Earned(Current(k))
  /\ Deciding(k) => status[Current(k)] # "none"
  /\ At(k, "update") => RuledSo(Current(k), desk[k].verdict)
  /\ Handling(k) =>
       \E d \in Deposit : \E i \in 1..Len(Payouts(d)) : Handles(k, d, i) /\ Earlier(d, i)
  /\ Deciding(k) /\ ~ desk[k].auto => Len(desk[k].todo) = 1

\* Until all commissions of a deposit are recorded, or an administrator rules on
\* one before, each is ruled on by the handler that recorded it alone.
RulesOn(k, e) == Deciding(k) /\ Current(k) = e

OneRuling ==
  \A e \in Commission : e.deposit \notin early /\ ~ Recorded(e.deposit) =>
    \A k \in Desks : RulesOn(k, e) =>
      /\ status[e] = "LOCKED"
      /\ desk[k].at \in {"read", "move"} => ~ Ruled(e)
      /\ \A m \in Desks : RulesOn(m, e) => m = k

CommissionsInv ==
  DesksTyped /\ (\A k \in Desks : DeskKnows(k)) /\ RowsFollowMoney /\ OneRuling

\* A payout's request, row and decision say what became of its money.
PaymentKnows(w) ==
  /\ request[w] \in {"new", "lock"} => ~ Reserved(w)
  /\ request[w] = "file" => Reserved(w)
  /\ row[w] # "none" => Reserved(w) /\ request[w] \in {"release", "ended", "dead"}
  /\ request[w] \in {"throw", "threw"} => row[w] = "none"
  /\ row[w] \in {"none", "PENDING"} => deciding[w] = "none"
  /\ row[w] \in PaymentStatuses => deciding[w] # "none"
  /\ deciding[w] \in PaymentStatuses => row[w] = deciding[w]
  /\ deciding[w] = "moved" => row[w] \in PaymentStatuses /\ SettledSo(w, row[w])
  /\ \A v \in PaymentStatuses : SettledSo(w, v) => row[w] = v /\ deciding[w] = "moved"
  /\ Reserved(w) /\ request[w] \in {"release", "ended"} =>
       row[w] # "none" \/ PixKeyOf[w] \notin keys

PaymentsInv ==
  /\ PaymentsTypeOK /\ holder \in [Users -> Payment \union {None}]
  /\ \A w \in Payment : PaymentKnows(w)

EarningsInv == EventsInv /\ CommissionsInv /\ PaymentsInv

\* Rows stay, and so does what is posted.
Lasting ==
  /\ posted \subseteq posted' /\ early \subseteq early'
  /\ \A e \in Commission : status[e] # "none" => status'[e] # "none"
-----------------------------------------------------------------------------
(* The steps of a desk.                                                    *)

\* A payout is settled, or a commission ruled on, in one of two ways.
LEMMA TwoWays ==
  /\ \A e \in Commission :
       /\ Ruled(e) <=> \E v \in Verdicts : RuledSo(e, v)
       /\ Ruled(e)' <=> \E v \in Verdicts : RuledSo(e, v)'
       /\ RuledBothWays(e) <=> \A v \in Verdicts : RuledSo(e, v)
       /\ RuledBothWays(e)' <=> \A v \in Verdicts : RuledSo(e, v)'
  /\ \A w \in Payment :
       /\ Settled(w) <=> \E v \in PaymentStatuses : SettledSo(w, v)
       /\ Settled(w)' <=> \E v \in PaymentStatuses : SettledSo(w, v)'
<1>1. ASSUME NEW e \in Commission
      PROVE  /\ RuledSo(e, "AVAILABLE") <=> Book!Done(Unlock(e))
             /\ RuledSo(e, "REJECTED") <=> Book!Done(TakeBack(e))
             /\ RuledSo(e, "AVAILABLE")' <=> Book!Done(Unlock(e))'
             /\ RuledSo(e, "REJECTED")' <=> Book!Done(TakeBack(e))'
  BY DEF RuledSo, Ruling
<1>2. ASSUME NEW w \in Payment
      PROVE  /\ SettledSo(w, "APPROVED") <=> Book!Done(PayOut(w))
             /\ SettledSo(w, "REJECTED") <=> Book!Done(Return(w))
             /\ SettledSo(w, "APPROVED")' <=> Book!Done(PayOut(w))'
             /\ SettledSo(w, "REJECTED")' <=> Book!Done(Return(w))'
  BY DEF SettledSo, Settlement
<1> QED
  BY <1>1, <1>2 DEF Ruled, RuledBothWays, Settled, Verdicts, PaymentStatuses

\* A desk that works has a commission before it.
LEMMA CurrentIsOne ==
  ASSUME DesksTyped, NEW k \in Desks, desk[k].todo # <<>>
  PROVE  /\ Current(k) \in Commission /\ Current(k) = desk[k].todo[1]
         /\ Len(desk[k].todo) \in Nat /\ Len(desk[k].todo) >= 1
<1>1. desk[k].todo \in Seq(Commission)
  BY DEF DesksTyped, DeskRecord
<1> QED
  BY <1>1 DEF Current

\* A desk that a step leaves alone knows what it knew.
LEMMA DeskUntouched ==
  ASSUME DesksTyped, Lasting, NEW k \in Desks, DeskKnows(k), desk'[k] = desk[k]
  PROVE  DeskKnows(k)'
<1>1. desk[k].todo # <<>> => Current(k) \in Commission
  BY CurrentIsOne
<1>2. Current(k)' = Current(k)
  BY DEF Current
<1>3. desk[k].verdict \in Verdicts
  BY DEF DesksTyped, DeskRecord
<1>4. ASSUME NEW c, NEW v, c = Current(k), v = desk[k].verdict
      PROVE  /\ At(k, "create") => Earned(c)'
             /\ At(k, "update") => RuledSo(c, v)'
             /\ Deciding(k) => status'[c] # "none"
  <2>1. ~ At(k, "idle") => c \in Commission
    BY <1>1, <1>4 DEF DeskKnows
  <2> QED
    BY <1>3, <1>4, <2>1, DoneLasts DEF Lasting, DeskKnows, At, Deciding
<1>5. ASSUME NEW d \in Deposit, NEW i \in 1..Len(Payouts(d)), Handles(k, d, i), Earlier(d, i)
      PROVE  Handles(k, d, i)' /\ Earlier(d, i)'
  <2>1. Payouts(d) \in Seq(Commission)
    BY PayoutsAreCommissions
  <2>2. \A j \in 1..(i - 1) : Payouts(d)[j] \in Commission
    BY <2>1
  <2> QED
    BY <1>5, <2>2 DEF Handles, Earlier, Lasting
<1>6. Handling(k) =>
        \E d \in Deposit : \E i \in 1..Len(Payouts(d)) : Handles(k, d, i)' /\ Earlier(d, i)'
  BY <1>5 DEF DeskKnows
<1> QED
  BY <1>2, <1>4, <1>6 DEF DeskKnows, At, Deciding, Handling

\* A desk that goes on with the commission before it.
LEMMA GotoKnows ==
  ASSUME DesksTyped, Lasting, NEW k \in Desks, DeskKnows(k), ~ At(k, "idle"),
         NEW s \in DeskSteps \ {"idle"}, Goto(k, s),
         \A c : c = Current(k) =>
           /\ (s = "create" => Earned(c)')
           /\ (s \in {"read", "move", "update"} => status'[c] # "none")
           /\ (\A v : s = "update" /\ v = desk[k].verdict => RuledSo(c, v)'),
         s \in {"find", "credit", "create"} => Handling(k),
         s \in {"read", "move", "update"} /\ ~ desk[k].auto => Deciding(k)
  PROVE  /\ desk' \in [Desks -> DeskRecord] /\ DeskKnows(k)'
         /\ desk'[k].at = s /\ desk'[k].todo = desk[k].todo /\ Current(k)' = Current(k)
         /\ desk'[k].auto = desk[k].auto /\ desk'[k].verdict = desk[k].verdict
         /\ \A m \in Desks \ {k} : desk'[m] = desk[m]
<1>1. desk' = [desk EXCEPT ![k].at = s] /\ desk \in [Desks -> DeskRecord]
  BY DEF Goto, DesksTyped
<1>2. /\ desk' \in [Desks -> DeskRecord]
      /\ desk'[k].at = s /\ desk'[k].todo = desk[k].todo
      /\ desk'[k].auto = desk[k].auto /\ desk'[k].verdict = desk[k].verdict
      /\ \A m \in Desks \ {k} : desk'[m] = desk[m]
  BY <1>1 DEF DeskRecord
<1>3. Current(k)' = Current(k)
  BY <1>2 DEF Current
<1>4. desk[k].todo # <<>>
  BY DEF DeskKnows
<1>5. ASSUME NEW d \in Deposit, NEW i \in 1..Len(Payouts(d)), Handles(k, d, i), Earlier(d, i)
      PROVE  Handles(k, d, i)' /\ Earlier(d, i)'
  <2>1. Payouts(d) \in Seq(Commission)
    BY PayoutsAreCommissions
  <2>2. \A j \in 1..(i - 1) : Payouts(d)[j] \in Commission
    BY <2>1
  <2> QED
    BY <1>2, <1>5, <2>2 DEF Handles, Earlier, Lasting
<1>6. Handling(k)' =>
        \E d \in Deposit : \E i \in 1..Len(Payouts(d)) : Handles(k, d, i)' /\ Earlier(d, i)'
  <2>1. Handling(k)' => Handling(k)
    BY <1>2 DEF Handling, At
  <2> QED
    BY <1>5, <2>1 DEF DeskKnows
<1>7. Deciding(k)' /\ ~ desk'[k].auto => Len(desk'[k].todo) = 1
  BY <1>2 DEF Deciding, DeskKnows
<1>8. /\ At(k, "idle")' <=> desk'[k].todo = <<>>
      /\ At(k, "create")' => s = "create"
      /\ At(k, "update")' => s = "update"
      /\ Deciding(k)' <=> s \in {"read", "move", "update"}
  BY <1>2, <1>4 DEF At, Deciding
<1>9. /\ s = "create" => Earned(Current(k))'
      /\ s \in {"read", "move", "update"} => status'[Current(k)'] # "none"
      /\ s = "update" => RuledSo(Current(k), desk[k].verdict)'
  BY <1>2, <1>3
<1>10. DeskKnows(k)'
  BY <1>2, <1>6, <1>7, <1>8, <1>9 DEF DeskKnows, At
<1> QED
  BY <1>2, <1>3, <1>10

\* A desk whose call is over, because it is done or because it throws.
LEMMA IdleKnows ==
  ASSUME DesksTyped, NEW k \in Desks, desk' = [desk EXCEPT ![k] = Idle]
  PROVE  /\ desk' \in [Desks -> DeskRecord] /\ DeskKnows(k)' /\ At(k, "idle")'
         /\ \A m \in Desks \ {k} : desk'[m] = desk[m]
<1>1. Idle \in DeskRecord
  BY DEF Idle, DeskRecord, DeskSteps, Verdicts
<1>2. /\ desk' \in [Desks -> DeskRecord] /\ desk'[k] = Idle
      /\ \A m \in Desks \ {k} : desk'[m] = desk[m]
  BY <1>1 DEF DesksTyped
<1>3. DeskKnows(k)' /\ At(k, "idle")'
  BY <1>2 DEF Idle, DeskKnows, At, Deciding, Handling
<1> QED
  BY <1>2, <1>3

\* What a handler does next, once the commission before it has a row.
LEMMA FinishKnows ==
  ASSUME DesksTyped, Lasting, NEW k \in Desks, DeskKnows(k), ~ At(k, "idle"), Finish(k),
         \A c : c = Current(k) => status'[c] # "none"
  PROVE  /\ desk' \in [Desks -> DeskRecord] /\ DeskKnows(k)' /\ ~ Deciding(k)'
         /\ \A m \in Desks \ {k} : desk'[m] = desk[m]
         /\ \A d \in Deposit : \A i \in 1..Len(Payouts(d)) :
              Handling(k) /\ Handles(k, d, i) /\ Earlier(d, i) =>
                \/ Recorded(d)'
                \/ i + 1 \in 1..Len(Payouts(d)) /\ At(k, "find")'
                   /\ Handles(k, d, i + 1)' /\ Earlier(d, i + 1)'
<1>1. /\ desk[k].todo # <<>> /\ Current(k) \in Commission
      /\ Current(k) = desk[k].todo[1] /\ desk[k].todo \in Seq(Commission)
      /\ Len(desk[k].todo) \in Nat /\ Len(desk[k].todo) >= 1
      /\ desk[k] \in DeskRecord /\ desk \in [Desks -> DeskRecord]
  BY CurrentIsOne DEF DeskKnows, DesksTyped, DeskRecord
<1>2. \A d \in Deposit : Payouts(d) \in Seq(Commission) /\ Len(Payouts(d)) \in Nat
  BY PayoutsAreCommissions
<1>3. status'[Current(k)] # "none"
  OBVIOUS
<1>4. ASSUME NEW d \in Deposit, NEW i \in 1..Len(Payouts(d)), Handles(k, d, i), Earlier(d, i)
      PROVE  Earlier(d, i + 1)' /\ Payouts(d)[i] = Current(k)
  <2>1. Payouts(d)[i] = Current(k)
    BY <1>1, <1>2, <1>4 DEF Handles
  <2>2. \A j \in 1..i : Payouts(d)[j] \in Commission
    BY <1>2
  <2>3. \A j \in 1..i : status'[Payouts(d)[j]] # "none"
    BY <1>2, <1>3, <1>4, <2>1, <2>2 DEF Earlier, Lasting
  <2> QED
    BY <2>1, <2>3 DEF Earlier
<1>5. CASE Len(desk[k].todo) = 1
  <2>1. desk' = [desk EXCEPT ![k] = Idle]
    <3>1. Tail(desk[k].todo) = <<>>
      <4>1. Tail(desk[k].todo) \in Seq(Commission) /\ Len(Tail(desk[k].todo)) = 0
        BY <1>1, <1>5
      <4> QED
        BY <4>1, EmptySeq
    <3> QED
      BY <3>1 DEF Finish
  <2>2. /\ desk' \in [Desks -> DeskRecord] /\ DeskKnows(k)' /\ At(k, "idle")'
        /\ \A m \in Desks \ {k} : desk'[m] = desk[m]
    BY <2>1, IdleKnows
  <2>3. ASSUME NEW d \in Deposit, NEW i \in 1..Len(Payouts(d)), Handles(k, d, i), Earlier(d, i)
        PROVE  Recorded(d)'
    <3>1. i = Len(Payouts(d))
      <4>1. /\ Len(desk[k].todo) = Len(Payouts(d)) - i + 1
            /\ Len(Payouts(d)) \in Nat /\ i \in Nat
        BY <1>2, <2>3 DEF Handles
      <4>2. \A x, y \in Nat : 1 = y - x + 1 => x = y
        OBVIOUS
      <4> QED
        BY <1>5, <4>1, <4>2
    <3>2. \A j \in 1..Len(Payouts(d)) : status'[Payouts(d)[j]] # "none"
      BY <1>2, <1>4, <2>3, <3>1 DEF Earlier
    <3> QED
      BY <1>2, <3>2 DEF Recorded, Range
  <2> QED
    BY <2>2, <2>3 DEF At, Deciding
<1>6. CASE Len(desk[k].todo) # 1
  <2> DEFINE next == [desk[k] EXCEPT !.at = "find", !.todo = Tail(desk[k].todo)]
  <2>1. desk' = [desk EXCEPT ![k] = next]
    <3>1. Tail(desk[k].todo) # <<>>
      <4>1. Len(Tail(desk[k].todo)) # 0 /\ Len(<<>>) = 0
        BY <1>1, <1>6
      <4> QED
        BY <4>1
    <3> QED
      BY <3>1, Zenon DEF Finish
  <2>2. /\ Tail(desk[k].todo) \in Seq(Commission)
        /\ Len(Tail(desk[k].todo)) = Len(desk[k].todo) - 1
        /\ \A j \in 1..Len(Tail(desk[k].todo)) : Tail(desk[k].todo)[j] = desk[k].todo[j + 1]
    BY <1>1
  <2>3. /\ next \in DeskRecord /\ next.at = "find" /\ next.todo = Tail(desk[k].todo)
        /\ next.auto = desk[k].auto
    BY <1>1, <2>2 DEF DeskRecord, DeskSteps
  <2> HIDE DEF next
  <2>4. /\ desk' \in [Desks -> DeskRecord] /\ desk'[k] = next
        /\ \A m \in Desks \ {k} : desk'[m] = desk[m]
    BY <1>1, <2>1, <2>3
  <2>5. ASSUME NEW d \in Deposit, NEW i \in 1..Len(Payouts(d)), Handles(k, d, i), Earlier(d, i)
        PROVE  i + 1 \in 1..Len(Payouts(d)) /\ Handles(k, d, i + 1)' /\ Earlier(d, i + 1)'
    <3>1. i + 1 \in 1..Len(Payouts(d))
      BY <1>1, <1>2, <1>6, <2>5 DEF Handles
    <3>2. Handles(k, d, i + 1)'
      <4>1. /\ desk'[k].todo = Tail(desk[k].todo) /\ Len(Payouts(d)) \in Nat /\ i \in Nat
            /\ Len(desk[k].todo) = Len(Payouts(d)) - i + 1
            /\ \A j \in 1..Len(desk[k].todo) : desk[k].todo[j] = Payouts(d)[i + j - 1]
        BY <1>2, <2>3, <2>4, <2>5 DEF Handles
      <4>2. Len(desk'[k].todo) = Len(Payouts(d)) - (i + 1) + 1
        BY <1>1, <2>2, <4>1
      <4>3. ASSUME NEW j \in 1..Len(desk'[k].todo)
            PROVE  desk'[k].todo[j] = Payouts(d)[(i + 1) + j - 1]
        <5>1. j + 1 \in 1..Len(desk[k].todo) /\ i + (j + 1) - 1 = (i + 1) + j - 1
          BY <1>1, <2>2, <4>1
        <5>2. desk'[k].todo[j] = desk[k].todo[j + 1]
          BY <2>2, <4>1
        <5>3. desk[k].todo[j + 1] = Payouts(d)[i + (j + 1) - 1]
          BY <4>1, <5>1
        <5> QED
          BY <5>1, <5>2, <5>3
      <4> QED
        BY <4>2, <4>3 DEF Handles
    <3> QED
      BY <1>4, <2>5, <3>1, <3>2
  <2>6. Handling(k)
    BY <1>6 DEF Handling, DeskKnows, Deciding, At, DesksTyped, DeskRecord, DeskSteps
  <2>7. PICK d \in Deposit : \E i \in 1..Len(Payouts(d)) : Handles(k, d, i) /\ Earlier(d, i)
    BY <2>6 DEF DeskKnows
  <2>8. \E i \in 1..Len(Payouts(d)) : Handles(k, d, i)' /\ Earlier(d, i)'
    BY <2>5, <2>7
  <2>9. desk'[k].todo # <<>> /\ desk'[k].at = "find"
    <3>1. Tail(desk[k].todo) # <<>>
      <4>1. Len(Tail(desk[k].todo)) # 0 /\ Len(<<>>) = 0
        BY <1>1, <1>6, <2>2
      <4> QED
        BY <4>1
    <3> QED
      BY <2>3, <2>4, <3>1
  <2>10. DeskKnows(k)'
    BY <2>8, <2>9 DEF DeskKnows, At, Deciding
  <2> QED
    BY <2>4, <2>5, <2>9, <2>10 DEF At, Deciding
<1> QED
  BY <1>5, <1>6

\* A commission's row and its money, one commission at a time.
RowKnows(e) ==
  /\ status[e] # "none" => Earned(e)
  /\ \A v \in Verdicts : status[e] = v => RuledSo(e, v)
  /\ \A v \in Verdicts : RuledSo(e, v) => status[e] # "none"

\* RowsFollowMoney says so of every commission.
LEMMA RowsKnow ==
  /\ RowsFollowMoney <=> \A e \in Commission : RowKnows(e)
  /\ RowsFollowMoney' <=> \A e \in Commission : RowKnows(e)'
<1>1. \A e \in Commission :
        /\ Ruled(e) <=> \E v \in Verdicts : RuledSo(e, v)
        /\ Ruled(e)' <=> \E v \in Verdicts : RuledSo(e, v)'
  BY TwoWays
<1>2. RowsFollowMoney <=> \A e \in Commission : RowKnows(e)
  <2>1. ASSUME NEW e \in Commission
        PROVE  (status[e] \in {"AVAILABLE", "REJECTED"} => Book!Done(Ruling(e, status[e])))
                 <=> \A v \in Verdicts : status[e] = v => RuledSo(e, v)
    BY DEF RuledSo, Verdicts
  <2> QED
    BY <1>1, <2>1 DEF RowsFollowMoney, RowKnows
<1>3. RowsFollowMoney' <=> \A e \in Commission : RowKnows(e)'
  <2>1. ASSUME NEW e \in Commission
        PROVE  (status'[e] \in {"AVAILABLE", "REJECTED"} => Book!Done(Ruling(e, status[e]))')
                 <=> \A v \in Verdicts : status'[e] = v => RuledSo(e, v)'
    BY DEF RuledSo, Verdicts
  <2> QED
    BY <1>1, <2>1 DEF RowsFollowMoney, RowKnows
<1> QED
  BY <1>2, <1>3

\* Of a desk's step: what the rulings of the others rest on is as it was, and a
\* ruling of its own is of a commission that nobody else rules on.
RulingsApart(k) ==
  \A e \in Commission :
    /\ \/ status'[e] = status[e] /\ (Ruled(e)' <=> Ruled(e))
       \/ RulesOn(k, e) \/ status[e] = "none"
    /\ RulesOn(k, e)' /\ e.deposit \notin early' /\ ~ Recorded(e.deposit)' =>
         /\ RulesOn(k, e) \/ \A m \in Desks : ~ RulesOn(m, e)
         /\ status'[e] = "LOCKED"
         /\ desk'[k].at \in {"read", "move"} => ~ Ruled(e)'

\* The parts of a desk's step make up the invariant.
LEMMA DeskStepInv ==
  ASSUME CommissionsInv, Lasting, NEW k \in Desks,
         desk' \in [Desks -> DeskRecord], DeskKnows(k)',
         \A m \in Desks \ {k} : desk'[m] = desk[m],
         status' \in [Commission -> {"none", "LOCKED", "AVAILABLE", "REJECTED"}],
         early' \subseteq Deposit,
         \A e \in Commission : RowKnows(e)',
         RulingsApart(k)
  PROVE  CommissionsInv'
<1>1. DesksTyped'
  BY DEF DesksTyped
<1>2. \A m \in Desks : DeskKnows(m)'
  BY DeskUntouched DEF CommissionsInv
<1>3. RowsFollowMoney'
  BY RowsKnow
<1>4. OneRuling'
  <2> SUFFICES ASSUME NEW e \in Commission, e.deposit \notin early', ~ Recorded(e.deposit)',
                      NEW m \in Desks, RulesOn(m, e)'
               PROVE  /\ status'[e] = "LOCKED"
                      /\ desk'[m].at \in {"read", "move"} => ~ Ruled(e)'
                      /\ \A n \in Desks : RulesOn(n, e)' => n = m
    BY DEF OneRuling
  <2>1. \A n \in Desks \ {k} : RulesOn(n, e)' <=> RulesOn(n, e)
    BY DEF RulesOn, Deciding, Current
  <2>2. e.deposit \in Deposit /\ e.deposit \notin early
    BY CommissionParts DEF Lasting
  <2>3. ~ Recorded(e.deposit)
    <3>1. \A f \in Range(Payouts(e.deposit)) : f \in Commission
      BY <2>2 DEF Commission
    <3> QED
      BY <3>1 DEF Recorded, Lasting
  <2>4. \A n \in Desks : RulesOn(n, e) =>
          /\ status[e] = "LOCKED"
          /\ desk[n].at \in {"read", "move"} => ~ Ruled(e)
          /\ \A l \in Desks : RulesOn(l, e) => l = n
    BY <2>2, <2>3 DEF CommissionsInv, OneRuling
  <2>5. CASE m = k
    <3>1. /\ RulesOn(k, e) \/ \A n \in Desks : ~ RulesOn(n, e)
          /\ status'[e] = "LOCKED"
          /\ desk'[k].at \in {"read", "move"} => ~ Ruled(e)'
      BY <2>5 DEF RulingsApart
    <3>2. \A n \in Desks \ {k} : ~ RulesOn(n, e)
      BY <2>4, <3>1
    <3> QED
      BY <2>1, <2>5, <3>1, <3>2
  <2>6. CASE m # k
    <3>1. RulesOn(m, e) /\ desk'[m] = desk[m]
      BY <2>1, <2>6
    <3>2. ~ RulesOn(k, e) /\ status[e] = "LOCKED"
      BY <2>4, <2>6, <3>1
    <3>3. status'[e] = status[e] /\ (Ruled(e)' <=> Ruled(e))
      BY <3>2 DEF RulingsApart
    <3>4. ~ RulesOn(k, e)'
      BY <2>2, <2>6, <3>1, <3>2 DEF RulingsApart
    <3> QED
      BY <2>1, <2>4, <3>1, <3>2, <3>3, <3>4
  <2> QED
    BY <2>5, <2>6
<1> QED
  BY <1>1, <1>2, <1>3, <1>4 DEF CommissionsInv

\* A step that changes no row and posts nothing about commissions leaves what
\* the rows say as it is.
LEMMA RowsUntouched ==
  ASSUME CommissionsInv, status' = status, SameEarned, SameRulings
  PROVE  /\ \A e \in Commission : RowKnows(e)'
         /\ \A e \in Commission : status'[e] = status[e] /\ (Ruled(e)' <=> Ruled(e))
         /\ \A d : Recorded(d)' <=> Recorded(d)
<1>1. \A e \in Commission : RowKnows(e)
  BY RowsKnow DEF CommissionsInv
<1>2. \A e \in Commission : RowKnows(e)'
  BY <1>1 DEF RowKnows, SameEarned, SameRulings
<1>3. \A e \in Commission : Ruled(e)' <=> Ruled(e)
  BY TwoWays DEF SameRulings
<1> QED
  BY <1>2, <1>3 DEF Recorded

\* Whatever is done beside the commissions leaves them as they are.
LEMMA CommissionsUntouched ==
  ASSUME CommissionsInv, UNCHANGED commissionVars, posted \subseteq posted',
         SameEarned, SameRulings
  PROVE  CommissionsInv' /\ Lasting
<1>1. UNCHANGED <<desk, status, early>>
  BY DEF commissionVars
<1>2. Lasting
  BY <1>1 DEF Lasting
<1>3. \A k \in Desks : DeskKnows(k)'
  BY <1>1, <1>2, DeskUntouched DEF CommissionsInv
<1>4. RowsFollowMoney'
  BY <1>1, RowsKnow, RowsUntouched
<1>5. OneRuling'
  BY <1>1, RowsUntouched
  DEF CommissionsInv, OneRuling, RulesOn, Deciding, Current
<1> QED
  BY <1>1, <1>2, <1>3, <1>4, <1>5 DEF CommissionsInv, DesksTyped

\* A step of a desk that leaves rows and rulings alone, and begins no ruling
\* unless the deposit is one that OneRuling says nothing of.
LEMMA QuietStepInv ==
  ASSUME CommissionsInv, Lasting, NEW k \in Desks,
         desk' \in [Desks -> DeskRecord], DeskKnows(k)',
         \A m \in Desks \ {k} : desk'[m] = desk[m],
         status' = status, early' \subseteq Deposit, SameRulings,
         \A e \in Commission : RulesOn(k, e)' =>
           \/ RulesOn(k, e) /\ (desk'[k].at \in {"read", "move"} => At(k, "read"))
           \/ e.deposit \in early' \/ Recorded(e.deposit)'
  PROVE  CommissionsInv'
<1>1. \A e \in Commission : RowKnows(e)'
  <2>1. \A e \in Commission : RowKnows(e)
    BY RowsKnow DEF CommissionsInv
  <2> QED
    BY <2>1, DoneLasts DEF RowKnows, SameRulings, Lasting
<1>2. \A e \in Commission : Ruled(e)' <=> Ruled(e)
  BY TwoWays DEF SameRulings
<1>3. \A e \in Commission :
        e.deposit \notin early' /\ ~ Recorded(e.deposit)' =>
          e.deposit \notin early /\ ~ Recorded(e.deposit)
  BY DEF Recorded, Lasting
<1>4. RulingsApart(k)
  <2> SUFFICES ASSUME NEW e \in Commission, RulesOn(k, e)', e.deposit \notin early',
                      ~ Recorded(e.deposit)'
               PROVE  /\ RulesOn(k, e) /\ status'[e] = "LOCKED"
                      /\ desk'[k].at \in {"read", "move"} => ~ Ruled(e)'
    BY <1>2 DEF RulingsApart
  <2>1. RulesOn(k, e) /\ (desk'[k].at \in {"read", "move"} => At(k, "read"))
    OBVIOUS
  <2>2. /\ status[e] = "LOCKED"
        /\ desk[k].at \in {"read", "move"} => ~ Ruled(e)
    BY <1>3, <2>1 DEF CommissionsInv, OneRuling
  <2> QED
    BY <1>2, <2>1, <2>2 DEF At
<1>5. status' \in [Commission -> {"none", "LOCKED", "AVAILABLE", "REJECTED"}]
  BY DEF CommissionsInv, DesksTyped
<1> QED
  BY <1>1, <1>4, <1>5, DeskStepInv

\* A call that ends or throws, having changed no row and ruled on nothing.
LEMMA AbortInv ==
  ASSUME CommissionsInv, NEW k \in Desks, desk' = [desk EXCEPT ![k] = Idle],
         UNCHANGED <<status, early, posted>>
  PROVE  CommissionsInv' /\ Lasting
<1>1. Lasting
  BY DEF Lasting
<1>2. /\ desk' \in [Desks -> DeskRecord] /\ DeskKnows(k)' /\ At(k, "idle")'
      /\ \A m \in Desks \ {k} : desk'[m] = desk[m]
  BY IdleKnows DEF CommissionsInv
<1>3. SameRulings
  BY NothingSpent
<1>4. early' \subseteq Deposit
  BY DEF CommissionsInv, DesksTyped
<1>5. \A e : ~ RulesOn(k, e)'
  BY <1>2 DEF RulesOn, Deciding, At
<1> QED
  BY <1>1, <1>2, <1>3, <1>4, <1>5, QuietStepInv

\* A handler takes an event: all its commissions are before it.
LEMMA HandleDepositInv ==
  ASSUME CommissionsInv, NEW k \in Desks, NEW d \in Deposit, NEW auto \in BOOLEAN,
         HandleDeposit(k, d, auto)
  PROVE  CommissionsInv' /\ Lasting
<1>1. UNCHANGED <<status, early, posted>>
  BY DEF HandleDeposit, moneyVars
<1>2. CASE Payouts(d) = <<>>
  <2>1. desk' = [desk EXCEPT ![k] = Idle]
    BY <1>2 DEF HandleDeposit
  <2> QED
    BY <1>1, <2>1, AbortInv
<1>3. CASE Payouts(d) # <<>>
  <2> DEFINE taken == [at |-> "find", todo |-> Payouts(d), auto |-> auto,
                       verdict |-> "AVAILABLE"]
  <2>1. desk' = [desk EXCEPT ![k] = taken]
    BY <1>3 DEF HandleDeposit
  <2>2. Payouts(d) \in Seq(Commission) /\ Len(Payouts(d)) \in Nat
    BY PayoutsAreCommissions
  <2>3. /\ taken \in DeskRecord /\ taken.at = "find" /\ taken.todo = Payouts(d)
    BY <2>2 DEF DeskRecord, DeskSteps, Verdicts
  <2> HIDE DEF taken
  <2>4. /\ desk' \in [Desks -> DeskRecord] /\ desk'[k] = taken
        /\ \A m \in Desks \ {k} : desk'[m] = desk[m]
    BY <2>1, <2>3 DEF CommissionsInv, DesksTyped
  <2>5. 1 \in 1..Len(Payouts(d)) /\ Handles(k, d, 1)' /\ Earlier(d, 1)'
    <3>1. Len(Payouts(d)) # 0
      BY <1>3, <2>2, EmptySeq
    <3>2. \A n \in Nat : n = n - 1 + 1
      OBVIOUS
    <3>3. \A j \in Nat : 1 + j - 1 = j
      OBVIOUS
    <3>4. Handles(k, d, 1)'
      BY <2>2, <2>3, <2>4, <3>2, <3>3 DEF Handles
    <3>5. Earlier(d, 1)'
      BY DEF Earlier
    <3> QED
      BY <2>2, <3>1, <3>4, <3>5
  <2>6. DeskKnows(k)' /\ \A e : ~ RulesOn(k, e)'
    BY <1>3, <2>3, <2>4, <2>5 DEF DeskKnows, At, Deciding, RulesOn
  <2>7. Lasting
    BY <1>1 DEF Lasting
  <2>8. SameRulings /\ early' \subseteq Deposit
    BY <1>1, NothingSpent DEF CommissionsInv, DesksTyped
  <2> QED
    BY <1>1, <2>4, <2>6, <2>7, <2>8, QuietStepInv
<1> QED
  BY <1>2, <1>3

\* It looks whether the commission before it is recorded already.
LEMMA FindExistingInv ==
  ASSUME CommissionsInv, NEW k \in Desks, FindExisting(k)
  PROVE  CommissionsInv' /\ Lasting
<1>1. UNCHANGED <<status, early, posted>> /\ At(k, "find")
  BY DEF FindExisting, moneyVars
<1>2. Lasting /\ SameRulings /\ early' \subseteq Deposit
  BY <1>1, NothingSpent DEF Lasting, CommissionsInv, DesksTyped
<1>3. DesksTyped /\ DeskKnows(k) /\ ~ At(k, "idle") /\ Handling(k)
  BY <1>1 DEF CommissionsInv, At, Handling
<1>4. /\ desk' \in [Desks -> DeskRecord] /\ DeskKnows(k)' /\ ~ Deciding(k)'
      /\ \A m \in Desks \ {k} : desk'[m] = desk[m]
  <2>1. CASE status[Current(k)] # "none" /\ Finish(k)
    <3>1. \A c : c = Current(k) => status'[c] # "none"
      BY <1>1, <2>1
    <3> QED
      BY <1>2, <1>3, <2>1, <3>1, FinishKnows
  <2>2. CASE Goto(k, "credit")
    <3>1. /\ desk' \in [Desks -> DeskRecord] /\ DeskKnows(k)' /\ desk'[k].at = "credit"
          /\ \A m \in Desks \ {k} : desk'[m] = desk[m]
      BY <1>2, <1>3, <2>2, GotoKnows DEF DeskSteps
    <3> QED
      BY <3>1 DEF Deciding
  <2> QED
    BY <2>1, <2>2 DEF FindExisting
<1> QED
  BY <1>1, <1>2, <1>4, QuietStepInv DEF RulesOn

\* It credits the commission before it; or the credit is refused and it throws.
LEMMA CreditLockedInv ==
  ASSUME CommissionsInv, NEW k \in Desks, CreditLocked(k)
  PROVE  CommissionsInv' /\ Lasting
<1> DEFINE c == Current(k)
<1>1. DesksTyped /\ DeskKnows(k) /\ At(k, "credit") /\ ~ At(k, "idle") /\ Handling(k)
      /\ c \in Commission /\ UNCHANGED <<status, early>>
  BY CurrentIsOne DEF CommissionsInv, CreditLocked, At, DeskKnows, Handling
<1>2. Book!Done(Earn(c)) <=> Earned(c)
  BY DEF Earned
<1>3. CASE Book!PostOnce(Earn(c)) /\ Goto(k, "create")
  <2>1. Lasting /\ SameRulings
    <3>1. CASE Earned(c)
      <4>1. posted' = posted
        BY <1>2, <1>3, <3>1 DEF Book!PostOnce, Book!bookVars
      <4> QED
        BY <1>1, <4>1, NothingSpent DEF Lasting
    <3>2. CASE ~ Earned(c)
      <4>1. Spends(EarnKey(c))
        BY <1>3, DoneIsSpent DEF Earn, EarnKey, Spends
      <4> HIDE DEF c
      <4>2. SameRulings
        BY <1>1, <4>1, EarningSpends
      <4> QED
        BY <1>1, <4>1, <4>2 DEF Lasting, Spends
    <3> QED
      BY <3>1, <3>2
  <2>2. \A f : f = Current(k) => Earned(f)'
    <3>1. ASSUME NEW f, f = c PROVE Earned(f)'
      <4>1. Earned(f) <=> Earned(c)
        BY <3>1
      <4>2. f \in Commission /\ posted \subseteq posted'
        BY <1>1, <2>1, <3>1 DEF Lasting
      <4>3. CASE Earned(c)
        BY <4>1, <4>2, <4>3, DoneLasts
      <4>4. CASE ~ Earned(c)
        <5>1. Spends(EarnKey(f))
          BY <1>3, <3>1, DoneIsSpent DEF Earn, EarnKey, Spends
        <5> QED
          BY <4>2, <5>1, EarningSpends
      <4> QED
        BY <4>3, <4>4
    <3> QED
      BY <3>1
  <2>3. /\ desk' \in [Desks -> DeskRecord] /\ DeskKnows(k)' /\ desk'[k].at = "create"
        /\ \A m \in Desks \ {k} : desk'[m] = desk[m]
    BY <1>1, <1>3, <2>1, <2>2, GotoKnows DEF DeskSteps
  <2>4. \A e : ~ RulesOn(k, e)'
    BY <2>3 DEF RulesOn, Deciding
  <2>5. early' \subseteq Deposit
    BY <1>1 DEF DesksTyped
  <2> QED
    BY <1>1, <2>1, <2>3, <2>4, <2>5, QuietStepInv
<1>4. CASE Abort(k) /\ UNCHANGED moneyVars
  BY <1>1, <1>4, AbortInv DEF Abort, moneyVars
<1> QED
  BY <1>3, <1>4 DEF CreditLocked

\* It records the commission, and goes on to approve it or to the next one; it
\* throws if another handler has recorded it meanwhile.
LEMMA CreateRowInv ==
  ASSUME CommissionsInv, NEW k \in Desks, CreateRow(k)
  PROVE  CommissionsInv' /\ Lasting
<1>1. DesksTyped /\ DeskKnows(k) /\ At(k, "create") /\ ~ At(k, "idle") /\ Handling(k)
      /\ Current(k) \in Commission /\ Earned(Current(k)) /\ UNCHANGED <<early, posted>>
  BY CurrentIsOne DEF CommissionsInv, CreateRow, At, DeskKnows, Handling, moneyVars
<1> PICK c \in Commission : c = Current(k)
  BY <1>1
<1>2. CASE status[c] # "none"
  BY <1>1, <1>2, AbortInv DEF CreateRow, Abort
<1>3. CASE status[c] = "none"
  <2>1. status' = [status EXCEPT ![c] = "LOCKED"]
    BY <1>3 DEF CreateRow
  <2>2. /\ status' \in [Commission -> {"none", "LOCKED", "AVAILABLE", "REJECTED"}]
        /\ status'[c] = "LOCKED"
        /\ \A e \in Commission : e # c => status'[e] = status[e]
    BY <1>1, <2>1 DEF DesksTyped
  <2>3. Lasting /\ SameRulings /\ SameEarned /\ early' \subseteq Deposit
    BY <1>1, <1>3, <2>2, NothingSpent DEF Lasting, DesksTyped
  <2>4. \A e \in Commission : RowKnows(e) /\ (Ruled(e)' <=> Ruled(e))
    BY <2>3, RowsKnow, TwoWays DEF CommissionsInv, SameRulings
  <2>5. ~ Ruled(c)
    BY <1>1, <1>3, <2>4, TwoWays DEF RowKnows
  <2>6. \A m \in Desks : ~ RulesOn(m, c)
    BY <1>3 DEF CommissionsInv, DeskKnows, RulesOn
  <2>7. \A e \in Commission : RowKnows(e)'
    <3>1. ASSUME NEW e \in Commission, e # c PROVE RowKnows(e)'
      BY <2>2, <2>3, <2>4, <3>1 DEF RowKnows, SameRulings, SameEarned
    <3>2. ASSUME NEW e \in Commission, e = c PROVE RowKnows(e)'
      <4>1. /\ Earned(e)' /\ status'[e] = "LOCKED"
            /\ \A v \in Verdicts : RuledSo(e, v)' => status'[e] # "none"
        BY <1>1, <2>2, <2>3, <3>2 DEF SameEarned
      <4> QED
        BY <4>1 DEF RowKnows, Verdicts
    <3> QED
      BY <3>1, <3>2
  <2>8. \A f : f = c => status'[f] # "none"
    BY <2>2
  <2>9. CASE desk[k].auto /\ Goto(k, "read")
    <3>1. /\ desk' \in [Desks -> DeskRecord] /\ DeskKnows(k)'
          /\ Current(k)' = c
          /\ \A m \in Desks \ {k} : desk'[m] = desk[m]
      BY <1>1, <2>3, <2>8, <2>9, GotoKnows DEF DeskSteps
    <3>2. RulingsApart(k)
      <4>1. \A e \in Commission : RulesOn(k, e)' => e = c
        BY <3>1 DEF RulesOn
      <4>2. \A e \in Commission : e # c => status'[e] = status[e] /\ (Ruled(e)' <=> Ruled(e))
        BY <2>2, <2>4
      <4>3. ~ Ruled(c)' /\ status'[c] = "LOCKED" /\ status[c] = "none"
        BY <1>3, <2>2, <2>4, <2>5
      <4> QED
        BY <1>3, <2>2, <2>4, <2>5, <2>6, <4>1, <4>2 DEF RulingsApart
    <3> QED
      BY <2>2, <2>3, <2>7, <3>1, <3>2, DeskStepInv
  <2>10. CASE Finish(k)
    <3>1. /\ desk' \in [Desks -> DeskRecord] /\ DeskKnows(k)' /\ ~ Deciding(k)'
          /\ \A m \in Desks \ {k} : desk'[m] = desk[m]
      BY <1>1, <2>3, <2>8, <2>10, FinishKnows
    <3>2. RulingsApart(k)
      BY <1>3, <2>2, <2>4, <3>1 DEF RulingsApart, RulesOn
    <3> QED
      BY <2>2, <2>3, <2>7, <3>1, <3>2, DeskStepInv
  <2> QED
    BY <1>3, <2>9, <2>10 DEF CreateRow
<1> QED
  BY <1>2, <1>3

\* An administrator takes up a commission that has a row.
LEMMA RuleInv ==
  ASSUME CommissionsInv, NEW k \in Desks, NEW e \in Commission, NEW v \in Verdicts,
         Rule(k, e, v)
  PROVE  CommissionsInv' /\ Lasting
<1> DEFINE taken == [at |-> "read", todo |-> <<e>>, auto |-> FALSE, verdict |-> v]
<1>1. /\ desk' = [desk EXCEPT ![k] = taken] /\ status[e] # "none"
      /\ UNCHANGED <<status, posted>>
      /\ early' = IF Recorded(e.deposit) THEN early ELSE early \union {e.deposit}
  BY DEF Rule, moneyVars
<1>2. <<e>> \in Seq(Commission) /\ Len(<<e>>) = 1 /\ Head(<<e>>) = e
  OBVIOUS
<1>3. /\ taken \in DeskRecord /\ taken.at = "read" /\ taken.todo = <<e>>
      /\ ~ taken.auto
  BY <1>2 DEF DeskRecord, DeskSteps
<1> HIDE DEF taken
<1>4. /\ desk' \in [Desks -> DeskRecord] /\ desk'[k] = taken
      /\ \A m \in Desks \ {k} : desk'[m] = desk[m]
  BY <1>1, <1>3 DEF CommissionsInv, DesksTyped
<1>5. Lasting /\ SameRulings /\ early' \subseteq Deposit
  <2>1. e.deposit \in Deposit
    BY CommissionParts
  <2> QED
    BY <1>1, <2>1, NothingSpent DEF Lasting, CommissionsInv, DesksTyped
<1>6. Current(k)' = e
  BY <1>2, <1>3, <1>4 DEF Current
<1>7. DeskKnows(k)'
  <2>1. /\ ~ At(k, "idle")' /\ desk'[k].todo # <<>> /\ ~ At(k, "create")'
        /\ ~ At(k, "update")' /\ ~ Handling(k)'
        /\ Len(desk'[k].todo) = 1
    BY <1>2, <1>3, <1>4, <<e>> # <<>> DEF At, Handling
  <2> QED
    BY <1>1, <1>6, <2>1 DEF DeskKnows
<1>8. \A f \in Commission : RulesOn(k, f)' => f.deposit \in early' \/ Recorded(f.deposit)'
  BY <1>1, <1>6 DEF RulesOn, Recorded
<1> QED
  BY <1>1, <1>4, <1>5, <1>7, <1>8, QuietStepInv

\* A ruling reads the row, and goes on only if it reads LOCKED.
LEMMA ReadLockedInv ==
  ASSUME CommissionsInv, NEW k \in Desks, ReadLocked(k)
  PROVE  CommissionsInv' /\ Lasting
<1>1. /\ DesksTyped /\ DeskKnows(k) /\ At(k, "read") /\ ~ At(k, "idle") /\ Deciding(k)
      /\ UNCHANGED <<status, early, posted>>
  BY DEF CommissionsInv, ReadLocked, At, Deciding, moneyVars
<1>2. CASE status[Current(k)] # "LOCKED"
  BY <1>1, <1>2, AbortInv DEF ReadLocked, Abort
<1>3. CASE status[Current(k)] = "LOCKED"
  <2>1. Lasting /\ SameRulings /\ early' \subseteq Deposit
    BY <1>1, NothingSpent DEF Lasting, DesksTyped
  <2>2. /\ desk' \in [Desks -> DeskRecord] /\ DeskKnows(k)' /\ Current(k)' = Current(k)
        /\ \A m \in Desks \ {k} : desk'[m] = desk[m]
    <3>1. Goto(k, "move")
      BY <1>3 DEF ReadLocked
    <3>2. \A c : c = Current(k) => status'[c] # "none"
      BY <1>1, <1>3
    <3> QED
      BY <1>1, <2>1, <3>1, <3>2, GotoKnows DEF DeskSteps
  <2>3. \A e \in Commission : RulesOn(k, e)' => RulesOn(k, e) /\ At(k, "read")
    BY <1>1, <2>2 DEF RulesOn
  <2> QED
    BY <1>1, <2>1, <2>2, <2>3, QuietStepInv
<1> QED
  BY <1>2, <1>3

\* It moves the money; or the movement is refused and it throws.
LEMMA MoveRuledInv ==
  ASSUME CommissionsInv, NEW k \in Desks, MoveRuled(k)
  PROVE  CommissionsInv' /\ Lasting
<1>1. /\ DesksTyped /\ DeskKnows(k) /\ At(k, "move") /\ ~ At(k, "idle") /\ Deciding(k)
      /\ Current(k) \in Commission /\ desk[k].verdict \in Verdicts
      /\ status[Current(k)] # "none" /\ UNCHANGED <<status, early>>
  BY CurrentIsOne
  DEF CommissionsInv, MoveRuled, At, Deciding, DeskKnows, DesksTyped, DeskRecord
<1>2. CASE Abort(k) /\ UNCHANGED moneyVars
  BY <1>1, <1>2, AbortInv DEF Abort, moneyVars
<1>3. ASSUME NEW c, c = Current(k), NEW v, v = desk[k].verdict,
             Book!PostOnce(Ruling(c, v)), Goto(k, "update")
      PROVE  CommissionsInv' /\ Lasting
  <2>1. c \in Commission /\ v \in Verdicts /\ RulesOn(k, c)
    BY <1>1, <1>3 DEF RulesOn
  <2>2. /\ posted \subseteq posted' /\ SameEarned
        /\ \A f \in Commission, u \in Verdicts :
             RuledSo(f, u)' <=> RuledSo(f, u) \/ (f = c /\ u = v)
    <3>1. CASE RuledSo(c, v)
      <4>1. posted' = posted
        BY <1>3, <3>1 DEF Book!PostOnce, Book!bookVars, RuledSo
      <4> QED
        BY <3>1, <4>1, NothingSpent DEF SameRulings
    <3>2. CASE ~ RuledSo(c, v)
      <4>1. Spends(RulingKey(c, v))
        BY <1>3, <2>1, DoneIsSpent
        DEF Ruling, RulingKey, Unlock, TakeBack, UnlockKey, Spends
      <4> QED
        BY <2>1, <4>1, RulingSpends DEF Spends
    <3> QED
      BY <3>1, <3>2
  <2>3. Lasting /\ early' \subseteq Deposit
    BY <1>1, <2>2 DEF Lasting, DesksTyped
  <2>4. RuledSo(c, v)'
    BY <2>1, <2>2
  <2>5. /\ desk' \in [Desks -> DeskRecord] /\ DeskKnows(k)' /\ Current(k)' = Current(k)
        /\ desk'[k].at = "update" /\ \A m \in Desks \ {k} : desk'[m] = desk[m]
    <3>1. \A f : f = Current(k) => status'[f] # "none"
      BY <1>1
    <3>2. \A f : f = Current(k) => \A u : u = desk[k].verdict => RuledSo(f, u)'
      BY <1>3, <2>4
    <3> QED
      BY <1>1, <1>3, <2>3, <3>1, <3>2, GotoKnows DEF DeskSteps
  <2>6. \A e \in Commission : RowKnows(e)'
    <3>1. \A e \in Commission : RowKnows(e)
      BY RowsKnow DEF CommissionsInv
    <3>2. status[c] # "none"
      BY <1>1, <1>3
    <3> QED
      BY <1>1, <2>2, <2>3, <3>1, <3>2, DoneLasts DEF RowKnows, SameEarned
  <2>7. \A e \in Commission : e # c => (Ruled(e)' <=> Ruled(e))
    BY <2>2, TwoWays
  <2>8. RulingsApart(k)
    <3>1. \A e \in Commission : RulesOn(k, e)' => e = c /\ RulesOn(k, e)
      BY <1>1, <1>3, <2>1, <2>5 DEF RulesOn
    <3>2. \A e \in Commission :
            e.deposit \notin early' /\ ~ Recorded(e.deposit)' /\ RulesOn(k, e)
              => status'[e] = "LOCKED"
      BY <1>1 DEF CommissionsInv, OneRuling, Recorded
    <3> QED
      BY <1>1, <2>1, <2>5, <2>7, <3>1, <3>2 DEF RulingsApart
  <2>9. status' \in [Commission -> {"none", "LOCKED", "AVAILABLE", "REJECTED"}]
    BY <1>1 DEF DesksTyped
  <2> QED
    BY <2>3, <2>5, <2>6, <2>8, <2>9, DeskStepInv
<1> QED
  BY <1>2, <1>3 DEF MoveRuled

\* It updates the row, whatever the row says by then, and its call goes on.
LEMMA UpdateRowInv ==
  ASSUME CommissionsInv, NEW k \in Desks, UpdateRow(k)
  PROVE  CommissionsInv' /\ Lasting
<1>1. /\ DesksTyped /\ DeskKnows(k) /\ At(k, "update") /\ ~ At(k, "idle") /\ Deciding(k)
      /\ Current(k) \in Commission /\ desk[k].verdict \in Verdicts
      /\ status[Current(k)] # "none" /\ RuledSo(Current(k), desk[k].verdict)
      /\ UNCHANGED <<early, posted>>
  BY CurrentIsOne
  DEF CommissionsInv, UpdateRow, At, Deciding, DeskKnows, DesksTyped, DeskRecord, moneyVars
<1>2. PICK c \in Commission : c = Current(k)
  BY <1>1
<1>3. PICK v \in Verdicts : v = desk[k].verdict
  BY <1>1
<1>4. /\ status' \in [Commission -> {"none", "LOCKED", "AVAILABLE", "REJECTED"}]
      /\ status'[c] = v /\ v # "none"
      /\ \A e \in Commission : e # c => status'[e] = status[e]
  BY <1>1, <1>2, <1>3 DEF UpdateRow, DesksTyped, Verdicts
<1>5. Lasting /\ SameRulings /\ SameEarned /\ early' \subseteq Deposit
  BY <1>1, <1>4, NothingSpent DEF Lasting, DesksTyped
<1>6. \A e \in Commission : RowKnows(e) /\ (Ruled(e)' <=> Ruled(e))
  BY <1>5, RowsKnow, TwoWays DEF CommissionsInv, SameRulings
<1>7. /\ desk' \in [Desks -> DeskRecord] /\ DeskKnows(k)' /\ ~ Deciding(k)'
      /\ \A m \in Desks \ {k} : desk'[m] = desk[m]
  <2>1. \A f : f = Current(k) => status'[f] # "none"
    BY <1>2, <1>4
  <2>2. Finish(k)
    BY DEF UpdateRow
  <2> QED
    BY <1>1, <1>5, <2>1, <2>2, FinishKnows
<1>8. \A e \in Commission : RowKnows(e)'
  <2>1. ASSUME NEW e \in Commission, e # c PROVE RowKnows(e)'
    BY <1>4, <1>5, <1>6, <2>1 DEF RowKnows, SameRulings, SameEarned
  <2>2. RowKnows(c)'
    <3>1. Earned(c) /\ RuledSo(c, v)
      BY <1>1, <1>2, <1>3, <1>6 DEF RowKnows
    <3> QED
      BY <1>4, <1>5, <3>1 DEF RowKnows, SameRulings, SameEarned
  <2> QED
    BY <2>1, <2>2
<1>9. RulingsApart(k)
  <2>1. RulesOn(k, c)
    BY <1>1, <1>2 DEF RulesOn
  <2> QED
    BY <1>4, <1>6, <1>7, <2>1 DEF RulingsApart, RulesOn
<1> QED
  BY <1>4, <1>5, <1>7, <1>8, <1>9, DeskStepInv

\* Whatever the desks do keeps the commissions in order.
LEMMA CommissionsKept ==
  ASSUME CommissionsInv, CommissionsNext
  PROVE  CommissionsInv' /\ Lasting
<1>1. PICK k \in Desks :
        \/ DeskStep(k) \/ DeskDies(k)
        \/ \E d \in Deposit, auto \in BOOLEAN : HandleDeposit(k, d, auto)
        \/ \E e \in Commission, v \in {"AVAILABLE", "REJECTED"} : Rule(k, e, v)
  BY DEF CommissionsNext
<1>2. CASE DeskStep(k)
  BY <1>2, FindExistingInv, CreditLockedInv, CreateRowInv, ReadLockedInv, MoveRuledInv,
     UpdateRowInv DEF DeskStep
<1>3. CASE DeskDies(k)
  BY <1>3, AbortInv DEF DeskDies, Abort, moneyVars
<1>4. CASE \E d \in Deposit, auto \in BOOLEAN : HandleDeposit(k, d, auto)
  BY <1>4, HandleDepositInv
<1>5. CASE \E e \in Commission, v \in {"AVAILABLE", "REJECTED"} : Rule(k, e, v)
  BY <1>5, RuleInv DEF Verdicts
<1> QED
  BY <1>1, <1>2, <1>3, <1>4, <1>5
-----------------------------------------------------------------------------
(* The movements that are posted.                                          *)

Credits(d) ==
  /\ ~ Confirmed(d)
  /\ \A c \in Deposit : Confirmed(c)' <=> Confirmed(c) \/ c = d
  /\ Moves(Player[d], Paid[d], 0)
  /\ SameEarned /\ SameRulings /\ SameReserved /\ SameSettled

Earns(e) ==
  /\ ~ Earned(e)
  /\ \A f \in Commission : Earned(f)' <=> Earned(f) \/ f = e
  /\ Moves(e.payee, 0, e.amount)
  /\ SameDeposits /\ SameRulings /\ SameReserved /\ SameSettled

IsRuled(e, v) ==
  /\ ~ RuledSo(e, v) /\ status[e] # "none"
  /\ \A f \in Commission, u \in Verdicts :
       RuledSo(f, u)' <=> RuledSo(f, u) \/ (f = e /\ u = v)
  /\ Moves(e.payee, IF v = "AVAILABLE" THEN e.amount ELSE 0, 0 - e.amount)
  /\ SameDeposits /\ SameEarned /\ SameReserved /\ SameSettled

Reserves(w) ==
  /\ ~ Reserved(w)
  /\ \A x \in Payment : Reserved(x)' <=> Reserved(x) \/ x = w
  /\ Moves(Payee[w], 0 - Asked[w], Asked[w])
  /\ SameDeposits /\ SameEarned /\ SameRulings /\ SameSettled

IsSettled(w, v) ==
  /\ ~ SettledSo(w, v) /\ row[w] = v /\ deciding[w] = v
  /\ \A x \in Payment, u \in PaymentStatuses :
       SettledSo(x, u)' <=> SettledSo(x, u) \/ (x = w /\ u = v)
  /\ Moves(Payee[w], IF v = "APPROVED" THEN 0 ELSE Asked[w], 0 - Asked[w])
  /\ SameDeposits /\ SameEarned /\ SameRulings /\ SameReserved

\* A step moves no money, or it makes one of these movements.
Moved ==
  /\ BalancesTyped' /\ posted \subseteq posted'
  /\ \/ UNCHANGED moneyVars
     \/ \E d \in Deposit : Credits(d)
     \/ \E e \in Commission : Earns(e)
     \/ \E e \in Commission, v \in Verdicts : IsRuled(e, v)
     \/ \E w \in Payment : Reserves(w)
     \/ \E w \in Payment, v \in PaymentStatuses : IsSettled(w, v)

\* A movement asked for is posted, or it was posted before.
LEMMA PostedOrReplayed ==
  ASSUME BalancesTyped, NEW kind \in {"credit", "debit", "lock", "unlock"},
         NEW account, NEW user \in Users, NEW n \in Nat, NEW key,
         Book!PostOnce(Movement(kind, account, user, n, key))
  PROVE  /\ BalancesTyped' /\ posted \subseteq posted' /\ Spent(key)'
         /\ \/ Spent(key) /\ UNCHANGED moneyVars
            \/ ~ Spent(key) /\ Spends(key) /\ Book!Post(Movement(kind, account, user, n, key))
<1> DEFINE q == Movement(kind, account, user, n, key)
<1>1. /\ Book!Done(q) <=> Spent(key)
      /\ posted' = posted \union {<<key, "only">>}
  BY DoneIsSpent
<1>2. q.amount = n
  BY DEF Movement
<1> HIDE DEF q
<1>3. Book!PostOnce(q)
  BY DEF q
<1>4. CASE Book!Done(q)
  <2>1. UNCHANGED moneyVars
    BY <1>3, <1>4 DEF Book!PostOnce, Book!bookVars, moneyVars
  <2> QED
    BY <1>1, <1>4, <2>1 DEF BalancesTyped, moneyVars, Spent
<1>5. CASE ~ Book!Done(q)
  <2>1. Book!Post(q)
    BY <1>3, <1>5 DEF Book!PostOnce
  <2> QED
    BY <1>1, <1>2, <1>5, <2>1, PostKeepsBalances DEF Spends, Spent, q
<1> QED
  BY <1>4, <1>5

\* Crediting a deposit.
LEMMA CreditMoves ==
  ASSUME BalancesTyped, NEW d \in Deposit, CreditDeposit(d)
  PROVE  Moved /\ Credits(d)
<1>1. /\ ~ Confirmed(d) /\ Player[d] \in Users /\ Paid[d] \in Nat
      /\ Book!PostOnce(Movement("credit", "main", Player[d], Paid[d], <<"deposit-confirm", d>>))
  BY PlayerAssumption, PaidAssumption DEF CreditDeposit, DepositCredit
<1>2. ~ Spent(<<"deposit-confirm", d>>)
  BY <1>1, EventKeys
<1>3. /\ BalancesTyped' /\ posted \subseteq posted' /\ Spends(<<"deposit-confirm", d>>)
      /\ Book!Post(Movement("credit", "main", Player[d], Paid[d], <<"deposit-confirm", d>>))
  BY <1>1, <1>2, PostedOrReplayed
<1>4. Moves(Player[d], Paid[d], 0)
  BY <1>1, <1>3, PostMoves
<1>5. Credits(d)
  BY <1>1, <1>3, <1>4, CreditSpends DEF Credits
<1> QED
  BY <1>3, <1>5 DEF Moved

\* Crediting a commission.
LEMMA EarningMoves ==
  ASSUME BalancesTyped, NEW e \in Commission, Book!PostOnce(Earn(e))
  PROVE  Moved /\ (UNCHANGED moneyVars \/ Earns(e))
<1>1. /\ e.payee \in Users /\ e.amount \in Nat
      /\ Book!PostOnce(Movement("credit", "locked", e.payee, e.amount, EarnKey(e)))
  BY CommissionParts DEF Earn, EarnKey
<1>2. /\ BalancesTyped' /\ posted \subseteq posted'
      /\ \/ UNCHANGED moneyVars
         \/ /\ ~ Spent(EarnKey(e)) /\ Spends(EarnKey(e))
            /\ Book!Post(Movement("credit", "locked", e.payee, e.amount, EarnKey(e)))
  BY <1>1, PostedOrReplayed
<1>3. ASSUME ~ Spent(EarnKey(e)), Spends(EarnKey(e)),
             Book!Post(Movement("credit", "locked", e.payee, e.amount, EarnKey(e)))
      PROVE  Earns(e)
  <2>1. Moves(e.payee, 0, e.amount)
    BY <1>1, <1>3, PostMoves
  <2>2. ~ Earned(e)
    BY <1>3, CommissionKeys
  <2> QED
    BY <1>3, <2>1, <2>2, EarningSpends DEF Earns
<1> QED
  BY <1>2, <1>3 DEF Moved

\* A ruling's movement.
LEMMA RulingMoves ==
  ASSUME BalancesTyped, NEW e \in Commission, NEW v \in Verdicts, status[e] # "none",
         Book!PostOnce(Ruling(e, v))
  PROVE  Moved /\ (UNCHANGED moneyVars \/ IsRuled(e, v))
<1>1. PICK kind \in {"unlock", "debit"}, account \in {"main", "locked"} :
        /\ Ruling(e, v) = Movement(kind, account, e.payee, e.amount, RulingKey(e, v))
        /\ IF v = "AVAILABLE" THEN kind = "unlock" /\ account = "main"
           ELSE kind = "debit" /\ account = "locked"
  BY DEF Ruling, RulingKey, UnlockKey, Unlock, TakeBack
<1>2. e.payee \in Users /\ e.amount \in Nat
  BY CommissionParts
<1> DEFINE key == RulingKey(e, v)
<1>3. /\ BalancesTyped' /\ posted \subseteq posted'
      /\ \/ UNCHANGED moneyVars
         \/ /\ ~ Spent(key) /\ Spends(key)
            /\ Book!Post(Movement(kind, account, e.payee, e.amount, key))
  <2>1. Book!PostOnce(Movement(kind, account, e.payee, e.amount, key))
    BY <1>1
  <2> HIDE DEF key
  <2> QED
    BY <1>2, <2>1, PostedOrReplayed
<1>4. ASSUME ~ Spent(key), Spends(key),
             Book!Post(Movement(kind, account, e.payee, e.amount, key))
      PROVE  IsRuled(e, v)
  <2>1. Moves(e.payee, IF v = "AVAILABLE" THEN e.amount ELSE 0, 0 - e.amount)
    <3>1. CASE v = "AVAILABLE"
      <4> HIDE DEF key
      <4>1. Moves(e.payee, e.amount, 0 - e.amount)
        BY <1>1, <1>2, <1>4, <3>1, PostMoves
      <4> QED
        BY <3>1, <4>1
    <3>2. CASE v # "AVAILABLE"
      <4> HIDE DEF key
      <4>1. Moves(e.payee, 0, 0 - e.amount)
        BY <1>1, <1>2, <1>4, <3>2, PostMoves
      <4> QED
        BY <3>2, <4>1
    <3> QED
      BY <3>1, <3>2
  <2>2. ~ RuledSo(e, v)
    BY <1>4, CommissionKeys
  <2> QED
    BY <1>4, <2>1, <2>2, RulingSpends DEF IsRuled
<1> HIDE DEF key
<1> QED
  BY <1>3, <1>4 DEF Moved

\* A payout's reservation.
LEMMA LockMoves ==
  ASSUME BalancesTyped, NEW w \in Payment, Book!PostOnce(Lock(w))
  PROVE  Moved /\ (UNCHANGED moneyVars \/ Reserves(w))
<1> DEFINE key == <<"commercial-lock", w>>
<1>1. Payee[w] \in Users /\ Asked[w] \in Nat
  BY PaymentAssumption
<1>2. /\ BalancesTyped' /\ posted \subseteq posted'
      /\ \/ UNCHANGED moneyVars
         \/ /\ ~ Spent(key) /\ Spends(key)
            /\ Book!Post(Movement("lock", "main", Payee[w], Asked[w], key))
  <2>1. Book!PostOnce(Movement("lock", "main", Payee[w], Asked[w], key))
    BY DEF Lock
  <2> HIDE DEF key
  <2> QED
    BY <1>1, <2>1, PostedOrReplayed
<1>3. ASSUME ~ Spent(key), Spends(key),
             Book!Post(Movement("lock", "main", Payee[w], Asked[w], key))
      PROVE  Reserves(w)
  <2>1. Moves(Payee[w], 0 - Asked[w], Asked[w])
    BY <1>1, <1>3, PostMoves
  <2>2. ~ Reserved(w)
    BY <1>3, PaymentKeys
  <2> QED
    BY <1>3, <2>1, <2>2, LockSpends DEF Reserves
<1> HIDE DEF key
<1> QED
  BY <1>2, <1>3 DEF Moved

\* A payout's settlement.
LEMMA SettlementMoves ==
  ASSUME BalancesTyped, NEW w \in Payment, NEW v \in PaymentStatuses, row[w] = v,
         deciding[w] = v, Book!PostOnce(Settlement(w, v))
  PROVE  Moved /\ (UNCHANGED moneyVars \/ IsSettled(w, v))
<1>1. PICK kind \in {"unlock", "debit"}, account \in {"main", "locked"} :
        /\ Settlement(w, v) = Movement(kind, account, Payee[w], Asked[w], SettlementKey(w, v))
        /\ IF v = "APPROVED" THEN kind = "debit" /\ account = "locked"
           ELSE kind = "unlock" /\ account = "main"
  BY DEF Settlement, SettlementKey, PayOut, Return
<1>2. Payee[w] \in Users /\ Asked[w] \in Nat
  BY PaymentAssumption
<1> DEFINE key == SettlementKey(w, v)
<1>3. /\ BalancesTyped' /\ posted \subseteq posted'
      /\ \/ UNCHANGED moneyVars
         \/ /\ ~ Spent(key) /\ Spends(key)
            /\ Book!Post(Movement(kind, account, Payee[w], Asked[w], key))
  <2>1. Book!PostOnce(Movement(kind, account, Payee[w], Asked[w], key))
    BY <1>1
  <2> HIDE DEF key
  <2> QED
    BY <1>2, <2>1, PostedOrReplayed
<1>4. ASSUME ~ Spent(key), Spends(key),
             Book!Post(Movement(kind, account, Payee[w], Asked[w], key))
      PROVE  IsSettled(w, v)
  <2>1. Moves(Payee[w], IF v = "APPROVED" THEN 0 ELSE Asked[w], 0 - Asked[w])
    <3>1. CASE v = "APPROVED"
      <4> HIDE DEF key
      <4>1. Moves(Payee[w], 0, 0 - Asked[w])
        BY <1>1, <1>2, <1>4, <3>1, PostMoves
      <4> QED
        BY <3>1, <4>1
    <3>2. CASE v # "APPROVED"
      <4> HIDE DEF key
      <4>1. Moves(Payee[w], Asked[w], 0 - Asked[w])
        BY <1>1, <1>2, <1>4, <3>2, PostMoves
      <4> QED
        BY <3>2, <4>1
    <3> QED
      BY <3>1, <3>2
  <2>2. ~ SettledSo(w, v)
    BY <1>4, PaymentKeys
  <2> QED
    BY <1>4, <2>1, <2>2, SettlementSpends DEF IsSettled
<1> HIDE DEF key
<1> QED
  BY <1>3, <1>4 DEF Moved

\* The bus keeps its counts when it hands out an event, and when it does not.
LEMMA BusKept ==
  ASSUME EventsInv, BalancesTyped', faults' \in 0..MaxFaults,
         \/ UNCHANGED <<published, inbox>>
         \/ \E s \in Subscribers, d \in Deposit : Take(s, d)
  PROVE  EventsInv'
<1>1. /\ published \in [Deposit -> 0..Publications] /\ Publications \in Nat
      /\ inbox \in [Subscribers -> [Deposit -> 0..Publications]]
      /\ \A s \in Subscribers, d \in Deposit : inbox[s][d] <= published[d]
  BY PublicationsAssumption DEF EventsInv, EventsTypeOK
<1>2. CASE UNCHANGED <<published, inbox>>
  BY <1>1, <1>2 DEF EventsInv, EventsTypeOK, BalancesTyped
<1>3. ASSUME NEW s \in Subscribers, NEW d \in Deposit, Take(s, d)
      PROVE  EventsInv'
  <2>1. /\ inbox' = [inbox EXCEPT ![s][d] = @ - 1] /\ inbox[s][d] > 0
        /\ published' = published
    BY <1>3 DEF Take
  <2>2. ASSUME NEW x \in Subscribers, NEW e \in Deposit
        PROVE  inbox'[x][e] = inbox[x][e] \/ (inbox'[x][e] = inbox[x][e] - 1 /\ inbox[x][e] > 0)
    BY <1>1, <2>1
  <2>3. ASSUME NEW x \in Subscribers, NEW e \in Deposit
        PROVE  inbox'[x][e] \in 0..Publications /\ inbox'[x][e] <= published'[e]
    BY <1>1, <2>1, <2>2
  <2>4. inbox' \in [Subscribers -> [Deposit -> 0..Publications]]
    BY <1>1, <2>1, <2>3
  <2> QED
    BY <1>1, <2>1, <2>3, <2>4 DEF EventsInv, EventsTypeOK, BalancesTyped
<1> QED
  BY <1>2, <1>3

\* A fault stays within the bound.
LEMMA FaultsKept == EventsInv /\ (Fault \/ UNCHANGED faults) => faults' \in 0..MaxFaults
BY FaultsAssumption DEF EventsInv, EventsTypeOK, Fault

\* A step that moves no money.
LEMMA NoneMoved ==
  ASSUME EventsInv, UNCHANGED moneyVars
  PROVE  /\ Moved /\ SameDeposits /\ SameEarned /\ SameRulings /\ SameReserved /\ SameSettled
<1>1. UNCHANGED <<balance, posted>>
  BY DEF moneyVars
<1> QED
  BY <1>1, NothingSpent DEF Moved, EventsInv, EventsTypeOK, BalancesTyped

\* What the bus does.
LEMMA EventsStep ==
  ASSUME EventsInv, EventsNext
  PROVE  EventsInv' /\ Moved /\ SameEarned /\ SameRulings /\ SameReserved /\ SameSettled
<1>1. /\ BalancesTyped /\ published \in [Deposit -> 0..Publications]
      /\ inbox \in [Subscribers -> [Deposit -> 0..Publications]] /\ Publications \in Nat
      /\ \A s \in Subscribers, d \in Deposit : inbox[s][d] <= published[d]
  BY PublicationsAssumption DEF EventsInv, EventsTypeOK, BalancesTyped
<1>2. ASSUME NEW d \in Deposit, CreditDeposit(d)
      PROVE  EventsInv' /\ Moved /\ SameEarned /\ SameRulings /\ SameReserved /\ SameSettled
  <2>1. Moved /\ Credits(d)
    BY <1>1, <1>2, CreditMoves
  <2>2. UNCHANGED <<published, inbox, faults>>
    BY <1>2 DEF CreditDeposit, busVars
  <2> QED
    BY <2>1, <2>2, BusKept, FaultsKept DEF Credits, Moved
<1>3. ASSUME NEW d \in Deposit, Publish(d)
      PROVE  EventsInv' /\ Moved /\ SameEarned /\ SameRulings /\ SameReserved /\ SameSettled
  <2>1. /\ published' = [published EXCEPT ![d] = @ + 1] /\ published[d] < Publications
        /\ inbox' = [s \in Subscribers |-> [inbox[s] EXCEPT ![d] = @ + 1]]
        /\ UNCHANGED <<balance, posted, faults>> /\ UNCHANGED moneyVars
    BY <1>3 DEF Publish, moneyVars
  <2>2. ASSUME NEW s \in Subscribers, NEW e \in Deposit
        PROVE  /\ inbox'[s][e] = inbox[s][e] + (IF e = d THEN 1 ELSE 0)
               /\ published'[e] = published[e] + (IF e = d THEN 1 ELSE 0)
    BY <1>1, <2>1
  <2>3. ASSUME NEW s \in Subscribers, NEW e \in Deposit
        PROVE  inbox'[s][e] \in 0..Publications /\ inbox'[s][e] <= published'[e]
    BY <1>1, <2>1, <2>2
  <2>4. published' \in [Deposit -> 0..Publications]
    BY <1>1, <2>1
  <2>5. inbox' \in [Subscribers -> [Deposit -> 0..Publications]]
    BY <1>1, <2>1, <2>3
  <2>6. EventsInv'
    BY <2>1, <2>3, <2>4, <2>5 DEF EventsInv, EventsTypeOK
  <2> QED
    BY <2>1, <2>6, NoneMoved
<1>4. ASSUME NEW d \in Deposit, NEW s \in Subscribers, LoseEvent(s, d)
      PROVE  EventsInv' /\ Moved /\ SameEarned /\ SameRulings /\ SameReserved /\ SameSettled
  <2>1. Moved /\ SameEarned /\ SameRulings /\ SameReserved /\ SameSettled
    BY <1>4, NoneMoved DEF LoseEvent
  <2> QED
    BY <1>4, <2>1, BusKept, FaultsKept DEF LoseEvent, Moved
<1> QED
  BY <1>2, <1>3, <1>4 DEF EventsNext

\* What the commissions do to the book and to the bus.
LEMMA CommissionsStep ==
  ASSUME EventsInv, CommissionsInv, CommissionsNext
  PROVE  EventsInv' /\ Moved /\ SameDeposits /\ SameReserved /\ SameSettled
<1>1. PICK k \in Desks :
        \/ DeskStep(k) \/ DeskDies(k)
        \/ \E d \in Deposit, auto \in BOOLEAN : HandleDeposit(k, d, auto)
        \/ \E e \in Commission, v \in {"AVAILABLE", "REJECTED"} : Rule(k, e, v)
  BY DEF CommissionsNext
<1>2. ~ At(k, "idle") =>
        /\ Current(k) \in Commission /\ desk[k].verdict \in Verdicts
        /\ At(k, "move") => status[Current(k)] # "none"
  BY CurrentIsOne DEF CommissionsInv, DeskKnows, DesksTyped, DeskRecord, Deciding, At
<1>3. BalancesTyped
  BY DEF EventsInv, EventsTypeOK, BalancesTyped
<1>4. Moved /\ SameDeposits /\ SameReserved /\ SameSettled
  <2>1. CASE CreditLocked(k)
    <3>1. Current(k) \in Commission
      BY <1>2, <2>1 DEF CreditLocked, At
    <3>2. CASE Book!PostOnce(Earn(Current(k)))
      BY <1>3, <3>1, <3>2, EarningMoves, NoneMoved DEF Earns
    <3>3. CASE UNCHANGED moneyVars
      BY <3>3, NoneMoved
    <3> QED
      BY <2>1, <3>2, <3>3 DEF CreditLocked
  <2>2. CASE MoveRuled(k)
    <3>1. /\ Current(k) \in Commission /\ desk[k].verdict \in Verdicts
          /\ status[Current(k)] # "none"
      BY <1>2, <2>2 DEF MoveRuled, At
    <3>2. CASE Book!PostOnce(Ruling(Current(k), desk[k].verdict))
      BY <1>3, <3>1, <3>2, RulingMoves, NoneMoved DEF IsRuled
    <3>3. CASE UNCHANGED moneyVars
      BY <3>3, NoneMoved
    <3> QED
      BY <2>2, <3>2, <3>3 DEF MoveRuled
  <2>3. CASE ~ CreditLocked(k) /\ ~ MoveRuled(k)
    <3>1. UNCHANGED moneyVars
      BY <1>1, <2>3
      DEF DeskStep, FindExisting, CreateRow, ReadLocked, UpdateRow, DeskDies, HandleDeposit, Rule
    <3> QED
      BY <3>1, NoneMoved
  <2> QED
    BY <2>1, <2>2, <2>3
<1>5. /\ Fault \/ UNCHANGED faults
      /\ UNCHANGED <<published, inbox>> \/ \E s \in Subscribers, d \in Deposit : Take(s, d)
  BY <1>1, ListenerAssumption
  DEF DeskStep, FindExisting, CreditLocked, CreateRow, ReadLocked, MoveRuled, UpdateRow,
      DeskDies, HandleDeposit, Rule, busVars
<1> QED
  BY <1>4, <1>5, BusKept, FaultsKept DEF Moved

\* What the payouts do to the book and to the bus.
LEMMA PaymentsStep ==
  ASSUME EventsInv, PaymentsInv, PaymentsNext
  PROVE  EventsInv' /\ Moved /\ SameDeposits /\ SameEarned /\ SameRulings
<1>1. BalancesTyped
  BY DEF EventsInv, EventsTypeOK, BalancesTyped
<1>2. Moved /\ SameDeposits /\ SameEarned /\ SameRulings
  <2>1. ASSUME NEW w \in Payment, LockAmount(w)
        PROVE  Moved /\ SameDeposits /\ SameEarned /\ SameRulings
    <3>1. CASE Book!PostOnce(Lock(w))
      BY <1>1, <3>1, LockMoves, NoneMoved DEF Reserves
    <3>2. CASE UNCHANGED moneyVars
      BY <3>2, NoneMoved
    <3> QED
      BY <2>1, <3>1, <3>2 DEF LockAmount
  <2>2. ASSUME NEW w \in Payment, MovePayment(w)
        PROVE  Moved /\ SameDeposits /\ SameEarned /\ SameRulings
    <3>1. deciding[w] \in PaymentStatuses /\ row[w] = deciding[w]
      BY <2>2 DEF MovePayment, PaymentsInv, PaymentKnows
    <3>2. CASE Book!PostOnce(Settlement(w, deciding[w]))
      BY <1>1, <3>1, <3>2, SettlementMoves, NoneMoved DEF IsSettled
    <3>3. CASE UNCHANGED moneyVars
      BY <3>3, NoneMoved
    <3> QED
      BY <2>2, <3>2, <3>3 DEF MovePayment
  <2>3. CASE \A w \in Payment : ~ LockAmount(w) /\ ~ MovePayment(w)
    <3>1. UNCHANGED moneyVars
      BY <2>3
      DEF PaymentsNext, PaymentStep, AskPayment, FileRow, CreateThrows, ReleaseLock,
          RequestDies, LockLapses, DecidePayment, DecisionDies, CheckKeyUnused, DeleteKey
    <3> QED
      BY <3>1, NoneMoved
  <2> QED
    BY <2>1, <2>2, <2>3
<1>3. (Fault \/ UNCHANGED faults) /\ UNCHANGED <<published, inbox>>
  BY DEF PaymentsNext, PaymentStep, AskPayment, LockAmount, FileRow, CreateThrows,
         ReleaseLock, RequestDies, LockLapses, DecidePayment, MovePayment, DecisionDies, CheckKeyUnused, DeleteKey, busVars
<1> QED
  BY <1>2, <1>3, BusKept, FaultsKept DEF Moved
-----------------------------------------------------------------------------
(* The steps of a payout.                                                  *)

\* A payout that a step leaves alone knows what it knew.
LEMMA PaymentUntouched ==
  ASSUME NEW w \in Payment, PaymentKnows(w), keys' \subseteq keys,
         request'[w] = request[w], row'[w] = row[w], deciding'[w] = deciding[w],
         Reserved(w)' <=> Reserved(w),
         \A v \in PaymentStatuses : SettledSo(w, v)' <=> SettledSo(w, v)
  PROVE  PaymentKnows(w)'
BY DEF PaymentKnows

\* A step of one payout leaves all others, and the keys, alone.
OnlyOf(w) ==
  /\ request' \in [Payment -> {"new", "lock", "file", "release", "throw",
                              "ended", "threw", "dead"}]
  /\ row' \in [Payment -> {"none", "PENDING"} \union PaymentStatuses]
  /\ deciding' \in
       [Payment -> PaymentStatuses \union {"none", "moved", "refused", "dead"}]
  /\ \A x \in Payment \ {w} :
       request'[x] = request[x] /\ row'[x] = row[x] /\ deciding'[x] = deciding[x]
  /\ UNCHANGED <<keys, removing>>
  /\ \/ UNCHANGED holder
     \/ \E u \in Users, x \in {w, None} :
          holder' = [holder EXCEPT ![u] = x] /\ (x = w => u = Payee[w])
  /\ \A x \in Payment \ {w} :
       /\ Reserved(x)' <=> Reserved(x)
       /\ \A v \in PaymentStatuses : SettledSo(x, v)' <=> SettledSo(x, v)

\* It keeps what is known of all, if it keeps what is known of that one.
LEMMA PaymentStepInv ==
  ASSUME PaymentsInv, NEW w \in Payment, OnlyOf(w), PaymentKnows(w)'
  PROVE  PaymentsInv'
<1>1. /\ \A u \in Users : holder[u] \in {x \in Payment : Payee[x] = u} \union {None}
      /\ holder \in [Users -> Payment \union {None}]
      /\ removing \subseteq keys /\ keys \subseteq PixKeys
  BY DEF PaymentsInv, PaymentsTypeOK
<1>2. /\ \A u \in Users : holder'[u] \in {x \in Payment : Payee[x] = u} \union {None}
      /\ holder' \in [Users -> Payment \union {None}]
  BY <1>1 DEF OnlyOf
<1>3. ASSUME NEW x \in Payment, x # w PROVE PaymentKnows(x)'
  BY <1>3, PaymentUntouched DEF PaymentsInv, OnlyOf
<1> QED
  BY <1>1, <1>2, <1>3 DEF PaymentsInv, PaymentsTypeOK, OnlyOf

\* What is known of a payout before its step.
LEMMA PaymentTyped ==
  ASSUME PaymentsInv, NEW w \in Payment
  PROVE  /\ request \in [Payment -> {"new", "lock", "file", "release", "throw",
                                     "ended", "threw", "dead"}]
         /\ row \in [Payment -> {"none", "PENDING"} \union PaymentStatuses]
         /\ deciding \in
              [Payment -> PaymentStatuses \union {"none", "moved", "refused", "dead"}]
         /\ PaymentKnows(w) /\ Payee[w] \in Users
BY PaymentAssumption DEF PaymentsInv, PaymentsTypeOK

\* A request: it takes the lock, locks the amount, files its row, lets go.
LEMMA RequestInv ==
  ASSUME EventsInv, PaymentsInv, NEW w \in Payment,
         \/ AskPayment(w) \/ LockAmount(w) \/ FileRow(w) \/ CreateThrows(w)
         \/ ReleaseLock(w) \/ RequestDies(w)
  PROVE  PaymentsInv'
<1>1. PaymentKnows(w) /\ Payee[w] \in Users
  BY PaymentTyped
<1>2. CASE AskPayment(w)
  <2>1. PICK r \in {"ended", "lock", "release"} :
          request' = [request EXCEPT ![w] = r] /\ (r = "release" => PixKeyOf[w] \notin keys)
    BY <1>2 DEF AskPayment, Advance
  <2>2. /\ request[w] = "new" /\ UNCHANGED <<row, deciding, keys, removing, posted>>
        /\ UNCHANGED holder \/ holder' = [holder EXCEPT ![Payee[w]] = w]
    BY <1>2 DEF AskPayment, moneyVars
  <2>3. SameReserved /\ SameSettled
    BY <2>2, NothingSpent
  <2>4. OnlyOf(w)
    BY <1>1, <2>1, <2>2, <2>3, PaymentTyped
    DEF OnlyOf, SameReserved, SameSettled
  <2>5. PaymentKnows(w)'
    BY <1>1, <2>1, <2>2, <2>3, PaymentTyped
    DEF PaymentKnows, SameReserved, SameSettled, Advance
  <2> QED
    BY <2>4, <2>5, PaymentStepInv
<1>3. CASE LockAmount(w)
  <2>1. request[w] = "lock" /\ UNCHANGED <<holder, row, deciding, keys, removing>>
    BY <1>3 DEF LockAmount
  <2>2. CASE Book!PostOnce(Lock(w)) /\ Advance(w, "file")
    <3>1. Reserves(w)
      <4>1. ~ Reserved(w)
        BY <1>1, <2>1 DEF PaymentKnows
      <4>2. ~ UNCHANGED moneyVars
        <5>1. Spent(<<"commercial-lock", w>>)' /\ ~ Spent(<<"commercial-lock", w>>)
          BY <2>2, <4>1, DoneIsSpent, PaymentKeys DEF Lock, Spent
        <5> QED
          BY <5>1 DEF Spent, moneyVars
      <4> QED
        BY <2>2, <4>2, LockMoves DEF EventsInv, EventsTypeOK, BalancesTyped
    <3>2. OnlyOf(w)
      BY <2>1, <2>2, <3>1, PaymentTyped
      DEF OnlyOf, Reserves, SameSettled, Advance
    <3>3. PaymentKnows(w)'
      BY <1>1, <2>1, <3>1, <2>2, PaymentTyped
      DEF PaymentKnows, Reserves, SameSettled, Advance
    <3> QED
      BY <3>2, <3>3, PaymentStepInv
  <2>3. CASE Advance(w, "release") /\ UNCHANGED moneyVars
    <3>1. SameReserved /\ SameSettled
      BY <2>3, NothingSpent DEF moneyVars
    <3>2. OnlyOf(w)
      BY <2>1, <2>3, <3>1, PaymentTyped
      DEF OnlyOf, SameReserved, SameSettled, Advance
    <3>3. PaymentKnows(w)'
      BY <1>1, <2>1, <3>1, <2>3, PaymentTyped
      DEF PaymentKnows, SameReserved, SameSettled, Advance
    <3> QED
      BY <3>2, <3>3, PaymentStepInv
  <2> QED
    BY <1>3, <2>2, <2>3 DEF LockAmount
<1>4. CASE FileRow(w)
  <2>1. PICK s \in {"PENDING", row[w]} :
          /\ row' = [row EXCEPT ![w] = s]
          /\ s = IF PixKeyOf[w] \in keys THEN "PENDING" ELSE row[w]
    BY <1>4 DEF FileRow
  <2>2. /\ request[w] = "file" /\ UNCHANGED <<holder, deciding, keys, removing, posted>>
        /\ request' = [request EXCEPT ![w] = "release"]
    BY <1>4 DEF FileRow, Advance, moneyVars
  <2>3. SameReserved /\ SameSettled
    BY <2>2, NothingSpent
  <2>4. s \in {"none", "PENDING"} \union PaymentStatuses
    BY <2>1, PaymentTyped
  <2>5. OnlyOf(w)
    BY <2>1, <2>2, <2>3, <2>4, PaymentTyped
    DEF OnlyOf, SameReserved, SameSettled
  <2>6. PaymentKnows(w)'
    BY <1>1, <2>1, <2>2, <2>3, <2>4, PaymentTyped
    DEF PaymentKnows, SameReserved, SameSettled, PaymentStatuses, Advance
  <2> QED
    BY <2>5, <2>6, PaymentStepInv
<1>5. CASE ReleaseLock(w)
  <2>1. /\ UNCHANGED <<row, deciding, keys, removing, posted>>
        /\ \/ request[w] = "release" /\ request' = [request EXCEPT ![w] = "ended"]
           \/ request[w] = "throw" /\ request' = [request EXCEPT ![w] = "threw"]
        /\ \E x \in {holder[Payee[w]], None} : holder' = [holder EXCEPT ![Payee[w]] = x]
    BY <1>5 DEF ReleaseLock, Advance, moneyVars
  <2>2. UNCHANGED holder \/ holder' = [holder EXCEPT ![Payee[w]] = None]
    BY <2>1 DEF PaymentsInv
  <2>3. SameReserved /\ SameSettled
    BY <2>1, NothingSpent
  <2>4. OnlyOf(w)
    BY <1>1, <2>1, <2>2, <2>3, PaymentTyped
    DEF OnlyOf, SameReserved, SameSettled
  <2>5. PaymentKnows(w)'
    BY <1>1, <2>1, <2>3, <2>2, PaymentTyped
    DEF PaymentKnows, SameReserved, SameSettled, Advance
  <2> QED
    BY <2>4, <2>5, PaymentStepInv
<1>6. CASE RequestDies(w) \/ CreateThrows(w)
  <2>1. /\ \/ /\ request[w] \in {"lock", "file", "release", "throw"}
              /\ request' = [request EXCEPT ![w] = "dead"]
           \/ request[w] = "file" /\ request' = [request EXCEPT ![w] = "throw"]
        /\ UNCHANGED <<holder, row, deciding, keys, removing, posted>>
    BY <1>6 DEF RequestDies, CreateThrows, Advance, moneyVars
  <2>2. SameReserved /\ SameSettled
    BY <2>1, NothingSpent
  <2>3. OnlyOf(w)
    BY <2>1, <2>2, PaymentTyped
    DEF OnlyOf, SameReserved, SameSettled
  <2>4. PaymentKnows(w)'
    BY <1>1, <2>1, <2>2, PaymentTyped
    DEF PaymentKnows, SameReserved, SameSettled, Advance
  <2> QED
    BY <2>3, <2>4, PaymentStepInv
<1> QED
  BY <1>2, <1>3, <1>4, <1>5, <1>6

\* A decision: it swaps the status, moves the money or fails to.
LEMMA DecisionInv ==
  ASSUME EventsInv, PaymentsInv, NEW w \in Payment,
         \/ \E v \in PaymentStatuses : DecidePayment(w, v)
         \/ MovePayment(w) \/ DecisionDies(w)
  PROVE  PaymentsInv'
<1>1. PaymentKnows(w) /\ UNCHANGED <<request, holder, keys, removing>>
  BY PaymentTyped DEF DecidePayment, MovePayment, DecisionDies
<1>2. ASSUME NEW v \in PaymentStatuses, DecidePayment(w, v) PROVE PaymentsInv'
  <2>1. /\ row[w] = "PENDING" /\ UNCHANGED posted
        /\ row' = [row EXCEPT ![w] = v] /\ deciding' = [deciding EXCEPT ![w] = v]
    BY <1>2 DEF DecidePayment, moneyVars
  <2>2. SameReserved /\ SameSettled
    BY <2>1, NothingSpent
  <2>3. OnlyOf(w)
    BY <1>1, <2>1, <2>2, PaymentTyped
    DEF OnlyOf, SameReserved, SameSettled
  <2>4. PaymentKnows(w)'
    BY <1>1, <2>1, <2>2, PaymentTyped
    DEF PaymentKnows, SameReserved, SameSettled, PaymentStatuses, Advance
  <2> QED
    BY <2>3, <2>4, PaymentStepInv
<1>3. CASE MovePayment(w)
  <2>1. PICK v \in PaymentStatuses : v = deciding[w] /\ row[w] = v
    BY <1>1, <1>3 DEF MovePayment, PaymentKnows
  <2>2. UNCHANGED row
    BY <1>3 DEF MovePayment
  <2>3. ~ SettledSo(w, v)
    BY <1>1, <2>1 DEF PaymentKnows, PaymentStatuses
  <2>4. CASE /\ Book!PostOnce(Settlement(w, v))
             /\ deciding' = [deciding EXCEPT ![w] = "moved"]
    <3>1. IsSettled(w, v)
      <4>1. ~ UNCHANGED moneyVars
        <5>1. Spent(SettlementKey(w, v))' /\ ~ Spent(SettlementKey(w, v))
          BY <2>3, <2>4, DoneIsSpent, PaymentKeys
          DEF Settlement, SettlementKey, PayOut, Return, Spent
        <5> QED
          BY <5>1 DEF Spent, moneyVars
      <4> QED
        BY <2>1, <2>4, <4>1, SettlementMoves DEF EventsInv, EventsTypeOK, BalancesTyped
    <3>2. OnlyOf(w)
      BY <1>1, <2>2, <2>4, <3>1, PaymentTyped
      DEF OnlyOf, IsSettled, SameReserved
    <3>3. PaymentKnows(w)'
      BY <1>1, <2>1, <2>2, <3>1, <2>4, PaymentTyped
      DEF PaymentKnows, IsSettled, SameReserved, PaymentStatuses, Advance
    <3> QED
      BY <3>2, <3>3, PaymentStepInv
  <2>5. CASE deciding' = [deciding EXCEPT ![w] = "refused"] /\ UNCHANGED moneyVars
    <3>1. SameReserved /\ SameSettled
      BY <2>5, NothingSpent DEF moneyVars
    <3>2. OnlyOf(w)
      BY <1>1, <2>2, <2>5, <3>1, PaymentTyped
      DEF OnlyOf, SameReserved, SameSettled
    <3>3. PaymentKnows(w)'
      BY <1>1, <2>1, <2>2, <3>1, <2>5, PaymentTyped
      DEF PaymentKnows, SameReserved, SameSettled, PaymentStatuses, Advance
    <3> QED
      BY <3>2, <3>3, PaymentStepInv
  <2> QED
    BY <1>3, <2>1, <2>4, <2>5 DEF MovePayment
<1>4. CASE DecisionDies(w)
  <2>1. /\ deciding[w] \in PaymentStatuses /\ UNCHANGED <<row, posted>>
        /\ deciding' = [deciding EXCEPT ![w] = "dead"]
    BY <1>4 DEF DecisionDies, moneyVars
  <2>2. SameReserved /\ SameSettled
    BY <2>1, NothingSpent
  <2>3. OnlyOf(w)
    BY <1>1, <2>1, <2>2, PaymentTyped
    DEF OnlyOf, SameReserved, SameSettled
  <2>4. PaymentKnows(w)'
    BY <1>1, <2>1, <2>2, PaymentTyped
    DEF PaymentKnows, SameReserved, SameSettled, PaymentStatuses, Advance
  <2> QED
    BY <2>3, <2>4, PaymentStepInv
<1> QED
  BY <1>2, <1>3, <1>4

\* What touches no payout: the bus, the commissions, a lock that lapses, a key
\* that is deleted.
LEMMA PaymentsUntouched ==
  ASSUME PaymentsInv, UNCHANGED <<request, row, deciding>>, SameReserved, SameSettled,
         keys' \subseteq keys, removing' \subseteq keys',
         \/ UNCHANGED holder
         \/ \E u \in Users : holder' = [holder EXCEPT ![u] = None]
  PROVE  PaymentsInv'
<1>1. \A w \in Payment : PaymentKnows(w)'
  BY PaymentUntouched DEF PaymentsInv, SameReserved, SameSettled
<1> QED
  BY <1>1 DEF PaymentsInv, PaymentsTypeOK

\* Whatever happens to payouts keeps their rows and their money in order.
LEMMA PaymentsKept ==
  ASSUME EventsInv, PaymentsInv, PaymentsNext
  PROVE  PaymentsInv'
<1>1. ASSUME NEW w \in Payment,
             \/ AskPayment(w) \/ PaymentStep(w) \/ CreateThrows(w) \/ RequestDies(w)
             \/ DecisionDies(w)
             \/ \E v \in PaymentStatuses : DecidePayment(w, v)
      PROVE  PaymentsInv'
  BY <1>1, RequestInv, DecisionInv DEF PaymentStep
<1>2. ASSUME NEW u \in Users, LockLapses(u) PROVE PaymentsInv'
  <2>1. /\ UNCHANGED <<request, row, deciding, keys, removing, posted>>
        /\ holder' = [holder EXCEPT ![u] = None]
    BY <1>2 DEF LockLapses, moneyVars
  <2> QED
    BY <2>1, NothingSpent, PaymentsUntouched DEF PaymentsInv, PaymentsTypeOK
<1>3. ASSUME NEW x \in PixKeys, CheckKeyUnused(x) \/ DeleteKey(x) PROVE PaymentsInv'
  <2>1. /\ UNCHANGED <<request, holder, row, deciding, posted>>
        /\ keys' \subseteq keys /\ removing' \subseteq keys'
    BY <1>3 DEF CheckKeyUnused, DeleteKey, moneyVars, PaymentsInv, PaymentsTypeOK
  <2> QED
    BY <2>1, NothingSpent, PaymentsUntouched
<1> QED
  BY <1>1, <1>2, <1>3 DEF PaymentsNext
-----------------------------------------------------------------------------
(* The invariant, and what follows from it alone.                          *)

\* At first nothing is posted, and nobody has anything to do.
LEMMA EarningsInitInv == Init => EarningsInv
<1> SUFFICES ASSUME Init PROVE EarningsInv
  OBVIOUS
<1>1. /\ balance = Opening /\ posted = {} /\ published = [d \in Deposit |-> 0] /\ faults = 0
      /\ inbox = [s \in Subscribers |-> [d \in Deposit |-> 0]]
      /\ desk = [k \in Desks |-> Idle] /\ status = [e \in Commission |-> "none"]
      /\ early = {} /\ PaymentsInit
  BY DEF Init, EventsInit, CommissionsInit, Book!Init
<1>2. /\ \A e \in Commission : ~ Earned(e) /\ \A v \in Verdicts : ~ RuledSo(e, v)
      /\ \A w \in Payment : ~ Reserved(w) /\ \A v \in PaymentStatuses : ~ SettledSo(w, v)
  <2>1. \A key : ~ Spent(key)
    BY <1>1 DEF Spent
  <2> QED
    BY <2>1, CommissionKeys, PaymentKeys
<1>3. EventsInv
  BY <1>1, OpeningAssumption, PublicationsAssumption, FaultsAssumption
  DEF EventsInv, EventsTypeOK
<1>4. CommissionsInv
  <2>1. DesksTyped
    BY <1>1 DEF DesksTyped, DeskRecord, DeskSteps, Idle, Verdicts
  <2>2. \A k \in Desks : DeskKnows(k) /\ ~ Deciding(k)
    BY <1>1 DEF DeskKnows, At, Deciding, Handling, Idle
  <2>3. RowsFollowMoney
    BY <1>1, <1>2, RowsKnow DEF RowKnows, Verdicts
  <2> QED
    BY <2>1, <2>2, <2>3 DEF CommissionsInv, OneRuling, RulesOn
<1>5. PaymentsInv
  <2>1. PaymentsTypeOK /\ holder \in [Users -> Payment \union {None}]
    BY <1>1 DEF PaymentsInit, PaymentsTypeOK
  <2>2. \A w \in Payment : PaymentKnows(w)
    BY <1>1, <1>2 DEF PaymentsInit, PaymentKnows, PaymentStatuses
  <2> QED
    BY <2>1, <2>2 DEF PaymentsInv
<1> QED
  BY <1>3, <1>4, <1>5 DEF EarningsInv

\* Every step keeps it, and moves money in one of the ways there are.
LEMMA EarningsStep ==
  ASSUME EarningsInv, [Next]_vars
  PROVE  EarningsInv' /\ Moved /\ Lasting
<1>1. EventsInv /\ CommissionsInv /\ PaymentsInv
  BY DEF EarningsInv
<1>2. CASE EventsNext /\ UNCHANGED <<commissionVars, paymentVars>>
  <2>1. EventsInv' /\ Moved /\ SameEarned /\ SameRulings /\ SameReserved /\ SameSettled
    BY <1>1, <1>2, EventsStep
  <2>2. CommissionsInv' /\ Lasting
    BY <1>1, <1>2, <2>1, CommissionsUntouched DEF Moved
  <2>3. PaymentsInv'
    BY <1>1, <1>2, <2>1, PaymentsUntouched DEF paymentVars, PaymentsInv, PaymentsTypeOK
  <2> QED
    BY <2>1, <2>2, <2>3 DEF EarningsInv
<1>3. CASE CommissionsNext /\ UNCHANGED paymentVars
  <2>1. EventsInv' /\ Moved /\ SameReserved /\ SameSettled
    BY <1>1, <1>3, CommissionsStep
  <2>2. CommissionsInv' /\ Lasting
    BY <1>1, <1>3, CommissionsKept
  <2>3. PaymentsInv'
    BY <1>1, <1>3, <2>1, PaymentsUntouched DEF paymentVars, PaymentsInv, PaymentsTypeOK
  <2> QED
    BY <2>1, <2>2, <2>3 DEF EarningsInv
<1>4. CASE PaymentsNext /\ UNCHANGED commissionVars
  <2>1. EventsInv' /\ Moved /\ SameEarned /\ SameRulings
    BY <1>1, <1>4, PaymentsStep
  <2>2. CommissionsInv' /\ Lasting
    BY <1>1, <1>4, <2>1, CommissionsUntouched DEF Moved
  <2>3. PaymentsInv'
    BY <1>1, <1>4, PaymentsKept
  <2> QED
    BY <2>1, <2>2, <2>3 DEF EarningsInv
<1>5. CASE UNCHANGED vars
  <2>1. UNCHANGED <<moneyVars, busVars, commissionVars, paymentVars>>
    BY <1>5 DEF vars
  <2>2. Moved /\ SameEarned /\ SameRulings /\ SameReserved /\ SameSettled
    BY <1>1, <2>1, NoneMoved
  <2>3. EventsInv'
    BY <1>1, <2>1, <2>2, BusKept, FaultsKept DEF Moved, busVars
  <2>4. CommissionsInv' /\ Lasting
    BY <1>1, <2>1, <2>2, CommissionsUntouched DEF Moved
  <2>5. PaymentsInv'
    BY <1>1, <2>1, <2>2, PaymentsUntouched DEF paymentVars, PaymentsInv, PaymentsTypeOK
  <2> QED
    BY <2>2, <2>3, <2>4, <2>5 DEF EarningsInv
<1> QED
  BY <1>2, <1>3, <1>4, <1>5 DEF Next

\* The inductive invariant holds always.
THEOREM EarningsInvariance == Spec => []EarningsInv
<1>1. EarningsInv /\ [Next]_vars => EarningsInv'
  BY EarningsStep
<1> QED
  BY <1>1, EarningsInitInv, PTL DEF Spec

\* Every variable stays in its type: a desk has something to do exactly when it
\* is at work, a user's lock is held by a request of that user, and no deletion
\* waits for a key that is gone.
THEOREM EarningsTypeCorrect == Spec => []TypeOK
<1>1. EarningsInv => TypeOK
  <2> SUFFICES ASSUME EarningsInv PROVE TypeOK
    OBVIOUS
  <2>1. CommissionsTypeOK
    BY DEF EarningsInv, CommissionsInv, DesksTyped, DeskRecord, DeskSteps, DeskKnows,
           Verdicts, CommissionsTypeOK
  <2> QED
    BY <2>1 DEF EarningsInv, EventsInv, PaymentsInv, TypeOK
<1> QED
  BY <1>1, EarningsInvariance, PTL

\* A commission's row follows its money, however many handlers and rulings of it
\* overlap and wherever they die.
THEOREM RowsAlwaysFollowMoney == Spec => []RowsFollowMoney
<1>1. EarningsInv => RowsFollowMoney
  BY DEF EarningsInv, CommissionsInv
<1> QED
  BY <1>1, EarningsInvariance, PTL

\* A payout is settled one way, by whichever decision won the row, and only if
\* it was reserved; and what is reserved when its request has ended can be
\* decided, unless its PIX key was deleted.
THEOREM PayoutsAlwaysSettleOnce == Spec => [](SettledOneWay /\ ReservedIsFiled)
<1>1. EarningsInv => SettledOneWay /\ ReservedIsFiled
  <2> SUFFICES ASSUME EarningsInv PROVE SettledOneWay /\ ReservedIsFiled
    OBVIOUS
  <2>1. \A w \in Payment : PaymentKnows(w)
    BY DEF EarningsInv, PaymentsInv
  <2>2. ASSUME NEW w \in Payment
        PROVE  /\ SettledSo(w, "APPROVED") <=> Book!Done(PayOut(w))
               /\ SettledSo(w, "REJECTED") <=> Book!Done(Return(w))
               /\ \A v \in PaymentStatuses : SettledSo(w, v) => row[w] = v /\ Reserved(w)
    BY <2>1 DEF SettledSo, Settlement, PaymentKnows, PaymentStatuses
  <2>3. ASSUME NEW w \in Payment, Settled(w)
        PROVE  /\ row[w] \in PaymentStatuses /\ Reserved(w)
               /\ Book!Done(Settlement(w, row[w]))
    BY <2>2, <2>3, TwoWays DEF SettledSo
  <2>4. SettledOneWay
    BY <2>2, <2>3 DEF SettledOneWay, PaymentStatuses
  <2>5. ReservedIsFiled
    BY <2>1 DEF ReservedIsFiled, PaymentKnows
  <2> QED
    BY <2>4, <2>5
<1> QED
  BY <1>1, EarningsInvariance, PTL
-----------------------------------------------------------------------------
(* The locked buckets.                                                     *)

Balanced(u) ==
  /\ Summable(Pending(u), Amounts) /\ Summable(Awaiting(u), Asked)
  /\ balance[u].locked = Opening[u].locked + Owed(u)

\* What a commission and a payout are worth.
LEMMA AmountsAre ==
  /\ \A e \in Commission : Amounts[e] = e.amount /\ Amounts[e] \in Nat /\ e.payee \in Users
  /\ \A w \in Payment : Asked[w] \in Nat /\ Payee[w] \in Users
  /\ \A u \in Users :
       Opening[u].locked \in Nat /\ Opening[u].main \in Nat
BY CommissionParts, PaymentAssumption, OpeningAssumption DEF Amounts, Buckets

\* Wallets whose pending commissions and payouts a step leaves alone stay as
\* they are.
LEMMA SameOwed ==
  ASSUME NEW u \in Users, Balanced(u), balance'[u].locked = balance[u].locked,
         Pending(u)' = Pending(u), Awaiting(u)' = Awaiting(u)
  PROVE  Balanced(u)'
BY DEF Balanced, Owed

\* Wherever nothing is ruled on twice, a movement changes what a wallet owes by
\* what it changes in its locked bucket.
LEMMA BalancedStep ==
  ASSUME EarningsInv, \A u \in Users : Balanced(u), Moved, NobodyRulesTwice',
         NEW u \in Users
  PROVE  Balanced(u)'
<1>1. /\ \A e \in Commission : Ruled(e) => Earned(e)
      /\ \A e \in Commission : status[e] # "none" => Earned(e)
      /\ \A w \in Payment : PaymentKnows(w)
  BY RowsKnow, TwoWays DEF EarningsInv, CommissionsInv, PaymentsInv, RowKnows
<1>2. \A w \in Payment :
        /\ Settled(w) => Reserved(w) /\ deciding[w] = "moved"
        /\ row[w] \in PaymentStatuses => Reserved(w)
  <2>1. \A w \in Payment : Settled(w) <=> \E v \in PaymentStatuses : SettledSo(w, v)
    BY TwoWays
  <2> QED
    BY <1>1, <2>1 DEF PaymentKnows, PaymentStatuses
<1>3. Balanced(u) /\ balance[u].locked \in Nat /\ Opening[u].locked \in Nat
  BY AmountsAre DEF EarningsInv, EventsInv, EventsTypeOK, Buckets
<1>4. Total(Pending(u), Amounts) \in Nat /\ Total(Awaiting(u), Asked) \in Nat
  BY <1>3, TotalIsNat DEF Balanced
<1>5. SameEarned /\ SameRulings => Pending(u)' = Pending(u)
  BY TwoWays DEF Pending, SameEarned, SameRulings
<1>6. SameReserved /\ SameSettled => Awaiting(u)' = Awaiting(u)
  BY TwoWays DEF Awaiting, SameReserved, SameSettled
<1>7. CASE UNCHANGED moneyVars
  <2>1. SameEarned /\ SameRulings /\ SameReserved /\ SameSettled
    BY <1>7, NothingSpent DEF moneyVars
  <2> QED
    BY <1>3, <1>5, <1>6, <1>7, <2>1, SameOwed DEF moneyVars
<1>8. ASSUME NEW d \in Deposit, Credits(d) PROVE Balanced(u)'
  <2>1. balance'[u].locked = balance[u].locked
    BY <1>3, <1>8 DEF Credits, Moves
  <2> QED
    BY <1>3, <1>5, <1>6, <1>8, <2>1, SameOwed DEF Credits
<1>9. ASSUME NEW e \in Commission, Earns(e) PROVE Balanced(u)'
  <2>1. /\ Awaiting(u)' = Awaiting(u)
        /\ balance'[u].locked = balance[u].locked + (IF u = e.payee THEN e.amount ELSE 0)
        /\ \A f \in Commission : Earned(f)' <=> Earned(f) \/ f = e
        /\ \A f \in Commission : Ruled(f)' <=> Ruled(f)
        /\ ~ Earned(e) /\ ~ Ruled(e)
    BY <1>1, <1>6, <1>9, TwoWays DEF Earns, Moves, SameRulings
  <2>2. CASE u # e.payee
    <3>1. Pending(u)' = Pending(u)
      BY <2>1, <2>2 DEF Pending
    <3> QED
      BY <1>3, <2>1, <2>2, <3>1, SameOwed
  <2>3. CASE u = e.payee
    <3>1. Pending(u)' = Pending(u) \union {e} /\ e \notin Pending(u)
      BY <2>1, <2>3 DEF Pending
    <3>2. /\ Summable(Pending(u) \union {e}, Amounts)
          /\ Total(Pending(u) \union {e}, Amounts) = Total(Pending(u), Amounts) + e.amount
      BY <1>3, <3>1, AmountsAre, TotalGrows DEF Balanced
    <3> QED
      BY <1>3, <1>4, <2>1, <2>3, <3>1, <3>2, AmountsAre DEF Balanced, Owed
  <2> QED
    BY <2>2, <2>3
<1>10. ASSUME NEW e \in Commission, NEW v \in Verdicts, IsRuled(e, v) PROVE Balanced(u)'
  <2>1. /\ Awaiting(u)' = Awaiting(u)
        /\ balance'[u].locked = balance[u].locked + (IF u = e.payee THEN 0 - e.amount ELSE 0)
        /\ \A f \in Commission : Earned(f)' <=> Earned(f)
        /\ \A f \in Commission : Ruled(f)' <=> Ruled(f) \/ f = e
        /\ Earned(e)
    BY <1>1, <1>6, <1>10, TwoWays DEF IsRuled, Moves, SameEarned
  <2>2. ~ Ruled(e)
    <3>1. ~ \A x \in Verdicts : RuledSo(e, x)'
      BY TwoWays DEF NobodyRulesTwice
    <3>2. \A x \in Verdicts : RuledSo(e, x)' <=> RuledSo(e, x) \/ x = v
      BY <1>10 DEF IsRuled
    <3>3. \A x \in Verdicts : ~ RuledSo(e, x)
      BY <1>10, <3>1, <3>2 DEF IsRuled, Verdicts
    <3> QED
      BY <3>3, TwoWays
  <2>3. CASE u # e.payee
    <3>1. Pending(u)' = Pending(u)
      BY <2>1, <2>3 DEF Pending
    <3> QED
      BY <1>3, <2>1, <2>3, <3>1, SameOwed
  <2>4. CASE u = e.payee
    <3>1. Pending(u)' = Pending(u) \ {e} /\ e \in Pending(u)
      BY <2>1, <2>2, <2>4 DEF Pending
    <3>2. /\ Summable(Pending(u) \ {e}, Amounts)
          /\ Total(Pending(u) \ {e}, Amounts) = Total(Pending(u), Amounts) - e.amount
      BY <1>3, <3>1, AmountsAre, TotalShrinks DEF Balanced
    <3> QED
      BY <1>3, <1>4, <2>1, <2>4, <3>1, <3>2, AmountsAre DEF Balanced, Owed
  <2> QED
    BY <2>3, <2>4
<1>11. ASSUME NEW w \in Payment, Reserves(w) PROVE Balanced(u)'
  <2>1. /\ Pending(u)' = Pending(u)
        /\ balance'[u].locked = balance[u].locked + (IF u = Payee[w] THEN Asked[w] ELSE 0)
        /\ \A x \in Payment : Reserved(x)' <=> Reserved(x) \/ x = w
        /\ \A x \in Payment : Settled(x)' <=> Settled(x)
        /\ ~ Reserved(w) /\ ~ Settled(w)
    BY <1>2, <1>5, <1>11, TwoWays DEF Reserves, Moves, SameSettled
  <2>2. CASE u # Payee[w]
    <3>1. Awaiting(u)' = Awaiting(u)
      BY <2>1, <2>2 DEF Awaiting
    <3> QED
      BY <1>3, <2>1, <2>2, <3>1, SameOwed
  <2>3. CASE u = Payee[w]
    <3>1. Awaiting(u)' = Awaiting(u) \union {w} /\ w \notin Awaiting(u)
      BY <2>1, <2>3 DEF Awaiting
    <3>2. /\ Summable(Awaiting(u) \union {w}, Asked)
          /\ Total(Awaiting(u) \union {w}, Asked) = Total(Awaiting(u), Asked) + Asked[w]
      BY <1>3, <3>1, AmountsAre, TotalGrows DEF Balanced
    <3> QED
      BY <1>3, <1>4, <2>1, <2>3, <3>1, <3>2, AmountsAre DEF Balanced, Owed
  <2> QED
    BY <2>2, <2>3
<1>12. ASSUME NEW w \in Payment, NEW v \in PaymentStatuses, IsSettled(w, v)
       PROVE  Balanced(u)'
  <2>1. /\ Pending(u)' = Pending(u)
        /\ balance'[u].locked = balance[u].locked + (IF u = Payee[w] THEN 0 - Asked[w] ELSE 0)
        /\ \A x \in Payment : Reserved(x)' <=> Reserved(x)
        /\ \A x \in Payment : Settled(x)' <=> Settled(x) \/ x = w
        /\ Reserved(w) /\ ~ Settled(w)
    BY <1>2, <1>5, <1>12, TwoWays DEF IsSettled, Moves, SameReserved, PaymentStatuses
  <2>2. CASE u # Payee[w]
    <3>1. Awaiting(u)' = Awaiting(u)
      BY <2>1, <2>2 DEF Awaiting
    <3> QED
      BY <1>3, <2>1, <2>2, <3>1, SameOwed
  <2>3. CASE u = Payee[w]
    <3>1. Awaiting(u)' = Awaiting(u) \ {w} /\ w \in Awaiting(u)
      BY <2>1, <2>3 DEF Awaiting
    <3>2. /\ Summable(Awaiting(u) \ {w}, Asked)
          /\ Total(Awaiting(u) \ {w}, Asked) = Total(Awaiting(u), Asked) - Asked[w]
      BY <1>3, <3>1, AmountsAre, TotalShrinks DEF Balanced
    <3> QED
      BY <1>3, <1>4, <2>1, <2>3, <3>1, <3>2, AmountsAre DEF Balanced, Owed
  <2> QED
    BY <2>2, <2>3
<1> QED
  BY <1>7, <1>8, <1>9, <1>10, <1>11, <1>12 DEF Moved

\* What a user's locked bucket holds, as long as nothing was ruled on twice.
BalancedInv == NobodyRulesTwice => \A u \in Users : Balanced(u)

\* At first nothing is pending.
LEMMA BalancedInit == Init => BalancedInv
<1> SUFFICES ASSUME Init, NEW u \in Users PROVE Balanced(u)
  BY DEF BalancedInv
<1>1. balance = Opening /\ posted = {}
  BY DEF Init, EventsInit, Book!Init
<1>2. \A key : ~ Spent(key)
  BY <1>1 DEF Spent
<1>3. Pending(u) = {} /\ Awaiting(u) = {}
  BY <1>2, CommissionKeys, PaymentKeys DEF Pending, Awaiting
<1>4. Opening[u].locked \in Nat
  BY AmountsAre
<1> QED
  BY <1>1, <1>3, <1>4, TotalOfNone DEF Balanced, Owed

\* A second, opposite ruling is never taken back.
LEMMA RulingsLast ==
  ASSUME posted \subseteq posted', NobodyRulesTwice'
  PROVE  NobodyRulesTwice
BY TwoWays, DoneLasts DEF NobodyRulesTwice

\* Every step keeps the locked buckets in balance.
LEMMA BalancedKept ==
  ASSUME EarningsInv, BalancedInv, [Next]_vars
  PROVE  BalancedInv'
<1>1. Moved /\ (NobodyRulesTwice' => NobodyRulesTwice)
  BY EarningsStep, RulingsLast DEF Moved
<1> QED
  BY <1>1, BalancedStep DEF BalancedInv

\* Both are invariants.
THEOREM BalancedInvariance == Spec => [](EarningsInv /\ BalancedInv)
<1>1. EarningsInv /\ BalancedInv /\ [Next]_vars => BalancedInv'
  BY BalancedKept
<1> QED
  BY <1>1, EarningsInvariance, BalancedInit, PTL DEF Spec

\* A locked bucket always holds what it began with and what its commissions and
\* payouts still have in it, to the cent, as long as no commission was both
\* approved and rejected: nobody is paid out of what is another's.
THEOREM LockedIsAlwaysOwed == Spec => []LockedIsOwed
<1>1. BalancedInv => LockedIsOwed
  BY DEF BalancedInv, Balanced, LockedIsOwed
<1> QED
  BY <1>1, BalancedInvariance, PTL
-----------------------------------------------------------------------------
(* Columns that hold all there ever is to credit, and what cannot be       *)
(* refused then.                                                           *)

DepositsOf(u) == {d \in Deposit : Player[d] = u}
CommissionsOf(u) == {e \in Commission : e.payee = u}

\* Each user's opening balances, deposits and commissions add up to no more
\* than an Int column holds.
ColumnsHold ==
  \A u \in Users :
    /\ Summable(DepositsOf(u), Paid) /\ Summable(CommissionsOf(u), Amounts)
    /\ Opening[u].main + Opening[u].locked + Total(DepositsOf(u), Paid)
         + Total(CommissionsOf(u), Amounts) <= MaxInt

CreditedOf(u) == {d \in DepositsOf(u) : Confirmed(d)}
EarnedOf(u) == {e \in CommissionsOf(u) : Earned(e)}

\* A wallet has no more than was brought forward, deposited and earned.
Funded(u) ==
  balance[u].main + balance[u].locked <=
    Opening[u].main + Opening[u].locked + Total(CreditedOf(u), Paid)
      + Total(EarnedOf(u), Amounts)

\* All sums are of finitely many cents.
LEMMA SumsAreFinite ==
  ASSUME ColumnsHold, NEW u \in Users
  PROVE  /\ Summable(CreditedOf(u), Paid) /\ Summable(EarnedOf(u), Amounts)
         /\ Total(CreditedOf(u), Paid) \in Nat /\ Total(EarnedOf(u), Amounts) \in Nat
         /\ Total(CreditedOf(u), Paid) <= Total(DepositsOf(u), Paid)
         /\ Total(DepositsOf(u), Paid) \in Nat /\ Total(CommissionsOf(u), Amounts) \in Nat
<1>1. CreditedOf(u) \subseteq DepositsOf(u) /\ EarnedOf(u) \subseteq CommissionsOf(u)
  BY DEF CreditedOf, EarnedOf
<1>2. Summable(DepositsOf(u), Paid) /\ Summable(CommissionsOf(u), Amounts)
  BY DEF ColumnsHold
<1> QED
  BY <1>1, <1>2, TotalOfSubset, TotalIsNat

\* Nothing but a deposit or a commission brings a wallet more than it had.
LEMMA FundedStep ==
  ASSUME ColumnsHold, EarningsInv, NEW u \in Users, Funded(u), Moved
  PROVE  Funded(u)'
<1>1. /\ balance[u].main \in Nat /\ balance[u].locked \in Nat
      /\ Opening[u].main \in Nat /\ Opening[u].locked \in Nat
  BY AmountsAre DEF EarningsInv, EventsInv, EventsTypeOK, Buckets
<1>2. /\ Summable(CreditedOf(u), Paid) /\ Summable(EarnedOf(u), Amounts)
      /\ Total(CreditedOf(u), Paid) \in Nat /\ Total(EarnedOf(u), Amounts) \in Nat
  BY SumsAreFinite
<1>3. SameDeposits => CreditedOf(u)' = CreditedOf(u)
  BY DEF SameDeposits, CreditedOf, DepositsOf
<1>4. SameEarned => EarnedOf(u)' = EarnedOf(u)
  BY DEF SameEarned, EarnedOf, CommissionsOf
<1>5. ASSUME SameDeposits, SameEarned, NEW user, NEW main \in Int, NEW locked \in Int,
             Moves(user, main, locked), main + locked <= 0
      PROVE  Funded(u)'
  <2>1. balance'[u].main + balance'[u].locked <= balance[u].main + balance[u].locked
    BY <1>1, <1>5 DEF Moves
  <2>2. balance'[u].main \in Int /\ balance'[u].locked \in Int
    BY <1>1, <1>5 DEF Moves
  <2> QED
    BY <1>1, <1>2, <1>3, <1>4, <1>5, <2>1, <2>2 DEF Funded
<1>6. CASE UNCHANGED moneyVars
  <2>1. SameDeposits /\ SameEarned /\ balance' = balance
    BY <1>6, NothingSpent DEF moneyVars
  <2> QED
    BY <1>3, <1>4, <2>1 DEF Funded
<1>7. ASSUME NEW d \in Deposit, Credits(d) PROVE Funded(u)'
  <2>1. /\ EarnedOf(u)' = EarnedOf(u)
        /\ \A c \in Deposit : Confirmed(c)' <=> Confirmed(c) \/ c = d
        /\ ~ Confirmed(d) /\ Paid[d] \in Nat
        /\ balance'[u].main = balance[u].main + (IF u = Player[d] THEN Paid[d] ELSE 0)
        /\ balance'[u].locked = balance[u].locked
    BY <1>1, <1>4, <1>7, PaidAssumption DEF Credits, Moves
  <2>2. CASE u # Player[d]
    <3>1. CreditedOf(u)' = CreditedOf(u)
      BY <2>1, <2>2 DEF CreditedOf, DepositsOf
    <3> QED
      BY <1>1, <2>1, <2>2, <3>1 DEF Funded
  <2>3. CASE u = Player[d]
    <3>1. CreditedOf(u)' = CreditedOf(u) \union {d} /\ d \notin CreditedOf(u)
      BY <2>1, <2>3 DEF CreditedOf, DepositsOf
    <3>2. Total(CreditedOf(u) \union {d}, Paid) = Total(CreditedOf(u), Paid) + Paid[d]
      BY <1>2, <2>1, <3>1, TotalGrows
    <3> QED
      BY <1>1, <1>2, <2>1, <2>3, <3>1, <3>2 DEF Funded
  <2> QED
    BY <2>2, <2>3
<1>8. ASSUME NEW e \in Commission, Earns(e) PROVE Funded(u)'
  <2>1. /\ CreditedOf(u)' = CreditedOf(u)
        /\ \A f \in Commission : Earned(f)' <=> Earned(f) \/ f = e
        /\ ~ Earned(e) /\ e.amount \in Nat /\ Amounts[e] = e.amount
        /\ balance'[u].main = balance[u].main
        /\ balance'[u].locked = balance[u].locked + (IF u = e.payee THEN e.amount ELSE 0)
    BY <1>1, <1>3, <1>8, AmountsAre DEF Earns, Moves
  <2>2. CASE u # e.payee
    <3>1. EarnedOf(u)' = EarnedOf(u)
      BY <2>1, <2>2 DEF EarnedOf, CommissionsOf
    <3> QED
      BY <1>1, <2>1, <2>2, <3>1 DEF Funded
  <2>3. CASE u = e.payee
    <3>1. EarnedOf(u)' = EarnedOf(u) \union {e} /\ e \notin EarnedOf(u)
      BY <2>1, <2>3 DEF EarnedOf, CommissionsOf
    <3>2. Total(EarnedOf(u) \union {e}, Amounts) = Total(EarnedOf(u), Amounts) + e.amount
      BY <1>2, <2>1, <3>1, TotalGrows
    <3> QED
      BY <1>1, <1>2, <2>1, <2>3, <3>1, <3>2 DEF Funded
  <2> QED
    BY <2>2, <2>3
<1>9. ASSUME NEW e \in Commission, NEW v \in Verdicts, IsRuled(e, v) PROVE Funded(u)'
  <2>1. e.amount \in Nat
    BY CommissionParts
  <2>2. PICK main \in Int, locked \in Int :
          main + locked <= 0 /\ Moves(e.payee, main, locked)
    BY <1>9, <2>1 DEF IsRuled
  <2> QED
    BY <1>5, <1>9, <2>2 DEF IsRuled
<1>10. ASSUME NEW w \in Payment, Reserves(w) PROVE Funded(u)'
  <2>1. Asked[w] \in Nat
    BY AmountsAre
  <2>2. PICK main \in Int, locked \in Int :
          main + locked <= 0 /\ Moves(Payee[w], main, locked)
    BY <1>10, <2>1 DEF Reserves
  <2> QED
    BY <1>5, <1>10, <2>2 DEF Reserves
<1>11. ASSUME NEW w \in Payment, NEW v \in PaymentStatuses, IsSettled(w, v)
       PROVE  Funded(u)'
  <2>1. Asked[w] \in Nat
    BY AmountsAre
  <2>2. PICK main \in Int, locked \in Int :
          main + locked <= 0 /\ Moves(Payee[w], main, locked)
    BY <1>11, <2>1 DEF IsSettled
  <2> QED
    BY <1>5, <1>11, <2>2 DEF IsSettled
<1> QED
  BY <1>6, <1>7, <1>8, <1>9, <1>10, <1>11 DEF Moved

\* So there is room for whatever is still to be earned or given back ...
LEMMA RoomForAll ==
  ASSUME ColumnsHold, EarningsInv, NEW u \in Users, Funded(u)
  PROVE  /\ balance[u].main + balance[u].locked <= MaxInt
         /\ \A e \in CommissionsOf(u) :
              ~ Earned(e) => balance[u].locked + e.amount <= MaxInt
<1>1. /\ balance[u].main \in Nat /\ balance[u].locked \in Nat /\ MaxInt \in Nat
      /\ Opening[u].main \in Nat /\ Opening[u].locked \in Nat
  BY AmountsAre, OpeningAssumption DEF EarningsInv, EventsInv, EventsTypeOK, Buckets
<1>2. /\ Summable(EarnedOf(u), Amounts) /\ Total(EarnedOf(u), Amounts) \in Nat
      /\ Total(CreditedOf(u), Paid) \in Nat /\ Total(DepositsOf(u), Paid) \in Nat
      /\ Total(CommissionsOf(u), Amounts) \in Nat
      /\ Total(CreditedOf(u), Paid) <= Total(DepositsOf(u), Paid)
  BY SumsAreFinite
<1>3. /\ Summable(CommissionsOf(u), Amounts)
      /\ Opening[u].main + Opening[u].locked + Total(DepositsOf(u), Paid)
           + Total(CommissionsOf(u), Amounts) <= MaxInt
  BY DEF ColumnsHold
<1>4. EarnedOf(u) \subseteq CommissionsOf(u)
  BY DEF EarnedOf
<1>5. Total(EarnedOf(u), Amounts) <= Total(CommissionsOf(u), Amounts)
  BY <1>3, <1>4, TotalOfSubset
<1>6. balance[u].main + balance[u].locked <= MaxInt
  BY <1>1, <1>2, <1>3, <1>5 DEF Funded
<1>7. ASSUME NEW e \in CommissionsOf(u), ~ Earned(e)
      PROVE  balance[u].locked + e.amount <= MaxInt
  <2>1. e \in Commission /\ e \notin EarnedOf(u) /\ e.amount \in Nat /\ Amounts[e] = e.amount
    BY <1>7, AmountsAre DEF EarnedOf, CommissionsOf
  <2>2. Total(EarnedOf(u) \union {e}, Amounts) = Total(EarnedOf(u), Amounts) + e.amount
    BY <1>2, <2>1, TotalGrows
  <2>3. EarnedOf(u) \union {e} \subseteq CommissionsOf(u)
    BY <1>4
  <2>4. Total(EarnedOf(u) \union {e}, Amounts) <= Total(CommissionsOf(u), Amounts)
    BY <1>3, <2>3, TotalOfSubset
  <2> QED
    BY <1>1, <1>2, <1>3, <2>1, <2>2, <2>4 DEF Funded
<1> QED
  BY <1>6, <1>7

\* ... and the money that is owed is there, so nothing of it is refused.
LEMMA NothingRefused ==
  ASSUME ColumnsHold, EarningsInv, \A u \in Users : Funded(u)
  PROVE  /\ \A e \in Commission : ~ Book!Refused(Earn(e))
         /\ (\A u \in Users : Balanced(u)) =>
              /\ \A e \in Commission, v \in Verdicts :
                   Earned(e) /\ ~ Ruled(e) => ~ Book!Refused(Ruling(e, v))
              /\ \A w \in Payment, v \in PaymentStatuses :
                   Reserved(w) /\ ~ Settled(w) => ~ Book!Refused(Settlement(w, v))
<1>1. BalancesTyped
  BY DEF EarningsInv, EventsInv, EventsTypeOK, BalancesTyped
<1>2. \A u \in Users :
        /\ balance[u].main \in Nat /\ balance[u].locked \in Nat /\ MaxInt \in Nat
        /\ Opening[u].locked \in Nat
  BY <1>1, AmountsAre, OpeningAssumption DEF BalancesTyped, Buckets
<1>3. ASSUME NEW e \in Commission, Book!Refused(Earn(e)) PROVE FALSE
  <2>1. e.payee \in Users /\ e.amount \in Nat /\ e \in CommissionsOf(e.payee)
    BY CommissionParts DEF CommissionsOf
  <2>2. balance[e.payee].locked + e.amount > MaxInt
    BY <1>1, <1>3, <2>1, RefusedMeans DEF Earn
  <2>3. ~ Earned(e)
    BY <1>3 DEF Earned, Book!Refused
  <2>4. balance[e.payee].locked + e.amount <= MaxInt
    BY <2>1, <2>3, RoomForAll
  <2> QED
    BY <1>2, <2>1, <2>2, <2>4
<1>4. ASSUME NEW u \in Users, Balanced(u), NEW n \in Nat,
             \/ \E e \in Pending(u) : n = Amounts[e]
             \/ \E w \in Awaiting(u) : n = Asked[w]
      PROVE  balance[u].locked >= n /\ balance[u].main + n <= MaxInt
  <2>1. /\ Total(Pending(u), Amounts) \in Nat /\ Total(Awaiting(u), Asked) \in Nat
        /\ balance[u].locked =
             Opening[u].locked + (Total(Pending(u), Amounts) + Total(Awaiting(u), Asked))
    BY <1>4, TotalIsNat DEF Balanced, Owed
  <2>2. Total(Pending(u), Amounts) >= n \/ Total(Awaiting(u), Asked) >= n
    BY <1>4, TotalShrinks DEF Balanced
  <2>3. balance[u].locked >= n
    BY <1>2, <2>1, <2>2
  <2>4. balance[u].main + balance[u].locked <= MaxInt
    BY RoomForAll
  <2> QED
    BY <1>2, <2>3, <2>4
<1>5. ASSUME \A u \in Users : Balanced(u), NEW e \in Commission, NEW v \in Verdicts,
             Earned(e), ~ Ruled(e), Book!Refused(Ruling(e, v))
      PROVE  FALSE
  <2>1. e.payee \in Users /\ e.amount \in Nat /\ Amounts[e] = e.amount
    BY CommissionParts, AmountsAre
  <2>2. e \in Pending(e.payee)
    BY <1>5 DEF Pending
  <2>3. balance[e.payee].locked >= e.amount /\ balance[e.payee].main + e.amount <= MaxInt
    BY <1>4, <1>5, <2>1, <2>2
  <2>4. \/ balance[e.payee].locked < e.amount
        \/ balance[e.payee].main + e.amount > MaxInt
    BY <1>1, <1>5, <2>1, RefusedMeans DEF Ruling, Unlock, TakeBack
  <2> QED
    BY <1>2, <2>1, <2>3, <2>4
<1>6. ASSUME \A u \in Users : Balanced(u), NEW w \in Payment, NEW v \in PaymentStatuses,
             Reserved(w), ~ Settled(w), Book!Refused(Settlement(w, v))
      PROVE  FALSE
  <2>1. Payee[w] \in Users /\ Asked[w] \in Nat
    BY AmountsAre
  <2>2. w \in Awaiting(Payee[w])
    BY <1>6 DEF Awaiting
  <2>3. balance[Payee[w]].locked >= Asked[w] /\ balance[Payee[w]].main + Asked[w] <= MaxInt
    BY <1>4, <1>6, <2>1, <2>2
  <2>4. \/ balance[Payee[w]].locked < Asked[w]
        \/ balance[Payee[w]].main + Asked[w] > MaxInt
    BY <1>1, <1>6, <2>1, RefusedMeans DEF Settlement, PayOut, Return
  <2> QED
    BY <1>2, <2>1, <2>3, <2>4
<1> QED
  BY <1>3, <1>5, <1>6


\* No payout's movement was refused, as long as nothing was ruled on twice.
NoneRefused == NobodyRulesTwice => \A w \in Payment : deciding[w] # "refused"

\* What holds of the money when the columns hold it all.
MoneyInv == BalancedInv /\ (\A u \in Users : Funded(u)) /\ NoneRefused

\* At first nothing was deposited or earned, and nothing refused.
LEMMA MoneyInit == ColumnsHold /\ Init => MoneyInv
<1> SUFFICES ASSUME ColumnsHold, Init PROVE MoneyInv
  OBVIOUS
<1>1. balance = Opening /\ \A w \in Payment : deciding[w] = "none"
  BY DEF Init, EventsInit, Book!Init, PaymentsInit
<1>2. NoneRefused
  BY <1>1 DEF NoneRefused
<1>3. ASSUME NEW u \in Users PROVE Funded(u)
  <2>1. Total(CreditedOf(u), Paid) \in Nat /\ Total(EarnedOf(u), Amounts) \in Nat
    BY SumsAreFinite
  <2> QED
    BY <1>1, <2>1, AmountsAre DEF Funded
<1> QED
  BY <1>2, <1>3, BalancedInit DEF MoneyInv

\* A settlement is refused only if some commission was ruled on twice.
LEMMA NoneRefusedKept ==
  ASSUME ColumnsHold, EarningsInv, MoneyInv, [Next]_vars
  PROVE  NoneRefused'
<1> SUFFICES ASSUME NobodyRulesTwice', NEW w \in Payment, deciding'[w] = "refused"
             PROVE  FALSE
  BY DEF NoneRefused
<1>1. NobodyRulesTwice
  BY EarningsStep, RulingsLast DEF Moved
<1>2. deciding[w] # "refused" /\ \A u \in Users : Balanced(u) /\ Funded(u)
  BY <1>1 DEF MoneyInv, NoneRefused, BalancedInv
<1>3. /\ deciding[w] \in PaymentStatuses /\ Book!Refused(Settlement(w, deciding[w]))
  <2>1. deciding \in [Payment -> PaymentStatuses \union {"none", "moved", "refused", "dead"}]
    BY DEF EarningsInv, PaymentsInv, PaymentsTypeOK
  <2>2. PICK x \in Payment : MovePayment(x) \/ DecisionDies(x)
                             \/ \E v \in PaymentStatuses : DecidePayment(x, v)
    BY <1>2
    DEF Next, vars, paymentVars, PaymentsNext, PaymentStep, AskPayment, LockAmount, FileRow,
        CreateThrows, ReleaseLock, RequestDies, LockLapses, CheckKeyUnused, DeleteKey
  <2>3. ~ DecisionDies(x)
    BY <1>2, <2>1 DEF DecisionDies
  <2>4. \A v \in PaymentStatuses : ~ DecidePayment(x, v)
    BY <1>2, <2>1 DEF DecidePayment, PaymentStatuses
  <2>5. x = w /\ Book!Refused(Settlement(x, deciding[x])) /\ deciding[x] \in PaymentStatuses
    BY <1>2, <2>1, <2>2, <2>3, <2>4 DEF MovePayment
  <2> QED
    BY <2>5
<1>4. Reserved(w) /\ ~ Settled(w)
  <2>1. PaymentKnows(w)
    BY DEF EarningsInv, PaymentsInv
  <2>2. row[w] \in PaymentStatuses /\ row[w] # "none" /\ deciding[w] # "moved"
    BY <1>3, <2>1 DEF PaymentKnows, PaymentStatuses
  <2> QED
    BY <2>1, <2>2, TwoWays DEF PaymentKnows
<1> QED
  BY <1>2, <1>3, <1>4, NothingRefused

\* Every step keeps it.
LEMMA MoneyKept ==
  ASSUME ColumnsHold, EarningsInv, MoneyInv, [Next]_vars
  PROVE  MoneyInv'
<1>1. Moved
  BY EarningsStep
<1>2. \A u \in Users : Funded(u)'
  BY <1>1, FundedStep DEF MoneyInv
<1> QED
  BY <1>2, BalancedKept, NoneRefusedKept DEF MoneyInv

\* So it is invariant.
THEOREM MoneyInvariance ==
  ASSUME ColumnsHold
  PROVE  Spec => [](EarningsInv /\ MoneyInv)
<1>1. Init => EarningsInv /\ MoneyInv
  BY EarningsInitInv, MoneyInit
<1>2. EarningsInv /\ MoneyInv /\ [Next]_vars => EarningsInv' /\ MoneyInv'
  BY EarningsStep, MoneyKept
<1> QED
  BY <1>1, <1>2, PTL DEF Spec

\* A payout's row tells what became of its money, whatever overlaps and dies, as
\* long as the columns hold the money there is and no commission was both
\* approved and rejected: a decision is never turned down by the wallet.
THEOREM PayoutsAlwaysTellTheMoney ==
  ASSUME ColumnsHold
  PROVE  Spec => []PayoutsTellTheMoney
<1>1. /\ EarningsInv /\ MoneyInv /\ SettledOneWay /\ ReservedIsFiled
      => PayoutsTellTheMoney
  <2> SUFFICES ASSUME EarningsInv, MoneyInv, NobodyRulesTwice
               PROVE  StatusMatchesMovement
    BY DEF PayoutsTellTheMoney
  <2> SUFFICES ASSUME NEW w \in Payment, row[w] \in PaymentStatuses
               PROVE  Book!Done(Settlement(w, row[w])) \/ deciding[w] \in {row[w], "dead"}
    BY DEF StatusMatchesMovement
  <2>1. PaymentKnows(w) /\ deciding[w] # "refused"
    BY DEF EarningsInv, PaymentsInv, MoneyInv, NoneRefused
  <2>2. deciding[w] \in PaymentStatuses \union {"none", "moved", "refused", "dead"}
    BY DEF EarningsInv, PaymentsInv, PaymentsTypeOK
  <2> QED
    BY <2>1, <2>2 DEF PaymentKnows, SettledSo
<1> QED
  BY <1>1, MoneyInvariance, PayoutsAlwaysSettleOnce, PTL
-----------------------------------------------------------------------------
(* Every commission of an event that is handled is recorded.               *)

\* A handler that is to record the commissions of a deposit from the i-th on,
\* and whose row nobody wrote since it looked.
Carries(k, d, i) ==
  /\ Handling(k) /\ Handles(k, d, i) /\ Earlier(d, i)
  /\ desk[k].at \in {"credit", "create"} => status[Payouts(d)[i]] = "none"

OnItsWay(d) ==
  \/ inbox["commissions"][d] > 0
  \/ Recorded(d)
  \/ \E k \in Desks : \E i \in 1..Len(Payouts(d)) : Carries(k, d, i)

ArrivalInv ==
  NobodyRulesTwice /\ faults = 0 =>
    \A d \in Deposit \ early : published[d] > 0 => OnItsWay(d)

\* The commission before a handler is the next of its deposit.
LEMMA CurrentOfDeposit ==
  ASSUME DesksTyped, NEW k \in Desks, NEW d \in Deposit, NEW i \in 1..Len(Payouts(d)),
         Handles(k, d, i)
  PROVE  /\ Current(k) = Payouts(d)[i] /\ Current(k) \in Commission
         /\ Current(k).deposit = d /\ desk[k].todo # <<>>
<1>1. Payouts(d) \in Seq(Commission) /\ Len(Payouts(d)) \in Nat
  BY PayoutsAreCommissions
<1>2. Len(desk[k].todo) >= 1 /\ desk[k].todo \in Seq(Commission)
  BY <1>1 DEF Handles, DesksTyped, DeskRecord
<1>3. desk[k].todo # <<>>
  BY <1>2
<1>4. Current(k) = desk[k].todo[1] /\ 1 \in 1..Len(desk[k].todo) /\ i + 1 - 1 = i
  BY <1>2, <1>3, CurrentIsOne
<1>5. Current(k) = Payouts(d)[i]
  BY <1>4 DEF Handles
<1>6. Payouts(d)[i] \in Commission /\ Payouts(d)[i] \in Range(Payouts(d))
  BY <1>1 DEF Range
<1> QED
  BY <1>3, <1>5, <1>6, PayoutsAreCommissions

\* What has a row keeps it.
LEMMA RecordedLasts ==
  ASSUME Lasting, NEW d \in Deposit, Recorded(d)
  PROVE  Recorded(d)'
<1>1. Range(Payouts(d)) \subseteq Commission
  BY DEF Commission
<1> QED
  BY <1>1 DEF Recorded, Lasting

\* A handler that the step leaves alone carries on.
LEMMA CarriesOn ==
  ASSUME Lasting, NEW k \in Desks, NEW d \in Deposit, NEW i \in 1..Len(Payouts(d)),
         Carries(k, d, i), desk'[k] = desk[k],
         \/ status'[Payouts(d)[i]] = status[Payouts(d)[i]]
         \/ status[Payouts(d)[i]] # "none"
  PROVE  Carries(k, d, i)'
<1>1. Payouts(d) \in Seq(Commission)
  BY PayoutsAreCommissions
<1>2. \A j \in 1..(i - 1) : Payouts(d)[j] \in Commission
  BY <1>1
<1>3. Earlier(d, i)'
  BY <1>2 DEF Earlier, Lasting, Carries
<1>4. Handles(k, d, i)'
  BY DEF Carries, Handles
<1>5. Handling(k)'
  BY DEF Carries, Handling, At
<1>6. desk'[k].at \in {"credit", "create"} => status'[Payouts(d)[i]] = "none"
  BY DEF Carries
<1> QED
  BY <1>3, <1>4, <1>5, <1>6 DEF Carries

\* So does one that goes on with the commission before it.
LEMMA CarriesToStep ==
  ASSUME DesksTyped, Lasting, NEW k \in Desks, NEW d \in Deposit,
         NEW i \in 1..Len(Payouts(d)), Handles(k, d, i), Earlier(d, i),
         NEW s \in DeskSteps \ {"idle"}, Goto(k, s),
         \/ s \in {"credit", "create"} /\ status'[Payouts(d)[i]] = "none"
         \/ s \in {"read", "move", "update"} /\ desk[k].auto
  PROVE  Carries(k, d, i)'
<1>1. Payouts(d) \in Seq(Commission)
  BY PayoutsAreCommissions
<1>2. \A j \in 1..(i - 1) : Payouts(d)[j] \in Commission
  BY <1>1
<1>3. desk'[k].at = s /\ desk'[k].todo = desk[k].todo /\ desk'[k].auto = desk[k].auto
  BY DEF Goto, DesksTyped, DeskRecord
<1>4. Earlier(d, i)' /\ Handles(k, d, i)' /\ Handling(k)'
  BY <1>2, <1>3 DEF Earlier, Lasting, Handles, Handling, At
<1> QED
  BY <1>3, <1>4 DEF Carries

\* And one that is done with it, unless that was the last.
LEMMA CarriesToNext ==
  ASSUME DesksTyped, Lasting, NEW k \in Desks, DeskKnows(k), NEW d \in Deposit,
         NEW i \in 1..Len(Payouts(d)), Handling(k), Handles(k, d, i), Earlier(d, i),
         Finish(k), status'[Payouts(d)[i]] # "none"
  PROVE  OnItsWay(d)'
<1>1. ~ At(k, "idle")
  BY DEF Handling, At
<1>2. \A c : c = Current(k) => status'[c] # "none"
  BY CurrentOfDeposit
<1>3. \/ Recorded(d)'
      \/ i + 1 \in 1..Len(Payouts(d)) /\ At(k, "find")'
         /\ Handles(k, d, i + 1)' /\ Earlier(d, i + 1)'
  BY <1>1, <1>2, FinishKnows
<1>4. CASE /\ i + 1 \in 1..Len(Payouts(d)) /\ At(k, "find")'
           /\ Handles(k, d, i + 1)' /\ Earlier(d, i + 1)'
  <2>1. Carries(k, d, i + 1)'
    BY <1>4 DEF Carries, Handling, At
  <2> QED
    BY <1>4, <2>1 DEF OnItsWay
<1> QED
  BY <1>3, <1>4 DEF OnItsWay

\* The step of a desk that carries a deposit's commissions: nothing of it is
\* refused and no other ruling comes between.
LEMMA CarrierMoves ==
  ASSUME ColumnsHold, EarningsInv, MoneyInv, Lasting, NobodyRulesTwice,
         NEW k \in Desks, DeskStep(k), NEW d \in Deposit \ early,
         NEW i \in 1..Len(Payouts(d)), Carries(k, d, i)
  PROVE  OnItsWay(d)'
<1>1. /\ DesksTyped /\ DeskKnows(k) /\ Handling(k) /\ Handles(k, d, i) /\ Earlier(d, i)
      /\ \A u \in Users : Balanced(u) /\ Funded(u)
  BY DEF EarningsInv, CommissionsInv, MoneyInv, BalancedInv, Carries
<1>2. PICK c \in Commission : c = Current(k) /\ c = Payouts(d)[i] /\ c.deposit = d
  BY <1>1, CurrentOfDeposit
<1>3. Carries(k, d, i)' => OnItsWay(d)'
  BY DEF OnItsWay
<1>4. CASE Recorded(d)
  BY <1>4, RecordedLasts DEF OnItsWay
<1>5. CASE FindExisting(k)
  <2>1. status' = status
    BY <1>5 DEF FindExisting
  <2>2. CASE status[c] # "none"
    BY <1>1, <1>2, <1>5, <2>1, <2>2, CarriesToNext DEF FindExisting
  <2>3. CASE status[c] = "none"
    <3>1. Goto(k, "credit")
      BY <1>2, <1>5, <2>3 DEF FindExisting
    <3>2. Carries(k, d, i)'
      BY <1>1, <1>2, <2>1, <2>3, <3>1, CarriesToStep DEF DeskSteps
    <3> QED
      BY <1>3, <3>2
  <2> QED
    BY <2>2, <2>3
<1>6. CASE CreditLocked(k)
  <2>1. ~ Book!Refused(Earn(c))
    BY <1>1, NothingRefused
  <2>2. Goto(k, "create") /\ status' = status /\ At(k, "credit")
    BY <1>2, <1>6, <2>1 DEF CreditLocked
  <2>3. status[c] = "none"
    BY <1>2, <2>2 DEF Carries, At
  <2>4. Carries(k, d, i)'
    BY <1>1, <1>2, <2>2, <2>3, CarriesToStep DEF DeskSteps
  <2> QED
    BY <1>3, <2>4
<1>7. CASE CreateRow(k)
  <2>1. At(k, "create") /\ status[c] = "none"
    BY <1>2, <1>7 DEF CreateRow, Carries, At
  <2>2. status' = [status EXCEPT ![c] = "LOCKED"]
    BY <1>2, <1>7, <2>1 DEF CreateRow
  <2>3. status'[c] # "none"
    BY <1>1, <2>2 DEF DesksTyped
  <2>4. CASE desk[k].auto /\ Goto(k, "read")
    <3>1. Carries(k, d, i)'
      BY <1>1, <2>4, CarriesToStep DEF DeskSteps
    <3> QED
      BY <1>3, <3>1
  <2>5. CASE Finish(k)
    BY <1>1, <1>2, <2>3, <2>5, CarriesToNext
  <2> QED
    BY <1>2, <1>7, <2>1, <2>4, <2>5 DEF CreateRow
<1>8. ASSUME ~ Recorded(d), Deciding(k)
      PROVE  /\ status[c] = "LOCKED" /\ desk[k].auto
             /\ desk[k].at \in {"read", "move"} => ~ Ruled(c)
  <2>1. desk[k].auto
    BY <1>1, <1>8 DEF Handling, Deciding
  <2>2. RulesOn(k, c)
    BY <1>2, <1>8 DEF RulesOn
  <2> QED
    BY <1>2, <1>8, <2>1, <2>2 DEF EarningsInv, CommissionsInv, OneRuling
<1>9. CASE ReadLocked(k) /\ ~ Recorded(d)
  <2>1. Deciding(k)
    BY <1>9 DEF ReadLocked, At, Deciding
  <2>2. Goto(k, "move")
    BY <1>2, <1>8, <1>9, <2>1 DEF ReadLocked
  <2>3. Carries(k, d, i)'
    BY <1>1, <1>8, <1>9, <2>1, <2>2, CarriesToStep DEF DeskSteps
  <2> QED
    BY <1>3, <2>3
<1>10. CASE MoveRuled(k) /\ ~ Recorded(d)
  <2>1. Deciding(k) /\ desk[k].at = "move" /\ desk[k].verdict \in Verdicts
    BY <1>1, <1>10 DEF MoveRuled, At, Deciding, DesksTyped, DeskRecord
  <2>2. status[c] = "LOCKED" /\ ~ Ruled(c) /\ desk[k].auto
    BY <1>8, <1>10, <2>1
  <2>3. Earned(c)
    BY <2>2, RowsKnow DEF EarningsInv, CommissionsInv, RowKnows
  <2>4. ~ Book!Refused(Ruling(c, desk[k].verdict))
    BY <1>1, <2>1, <2>2, <2>3, NothingRefused
  <2>5. Goto(k, "update")
    BY <1>2, <1>10, <2>4 DEF MoveRuled
  <2>6. Carries(k, d, i)'
    BY <1>1, <2>2, <2>5, CarriesToStep DEF DeskSteps
  <2> QED
    BY <1>3, <2>6
<1>11. CASE UpdateRow(k)
  <2>1. Finish(k) /\ status' = [status EXCEPT ![c] = desk[k].verdict]
    BY <1>2, <1>11 DEF UpdateRow
  <2>2. status'[c] # "none"
    BY <1>1, <2>1 DEF DesksTyped, DeskRecord, Verdicts
  <2> QED
    BY <1>1, <1>2, <2>1, <2>2, CarriesToNext
<1> QED
  BY <1>4, <1>5, <1>6, <1>7, <1>9, <1>10, <1>11 DEF DeskStep

\* The step of another desk: if it records the commission that a handler was
\* about to, it carries the rest itself.
LEMMA OtherMoves ==
  ASSUME EarningsInv, Lasting, NEW k \in Desks, DeskStep(k),
         NEW m \in Desks \ {k}, NEW d \in Deposit \ early,
         NEW i \in 1..Len(Payouts(d)), Carries(m, d, i)
  PROVE  OnItsWay(d)'
<1>1. DesksTyped /\ DeskKnows(k) /\ desk'[m] = desk[m]
  <2>1. DesksTyped /\ DeskKnows(k)
    BY DEF EarningsInv, CommissionsInv
  <2> QED
    BY <2>1
    DEF DesksTyped, DeskStep, FindExisting, CreditLocked, CreateRow, ReadLocked, MoveRuled,
        UpdateRow, Goto, Abort, Finish
<1>2. Payouts(d)[i] \in Commission
  BY PayoutsAreCommissions
<1>3. CASE \/ status'[Payouts(d)[i]] = status[Payouts(d)[i]]
           \/ status[Payouts(d)[i]] # "none"
  BY <1>1, <1>3, CarriesOn DEF OnItsWay
<1>4. CASE /\ status'[Payouts(d)[i]] # status[Payouts(d)[i]]
           /\ status[Payouts(d)[i]] = "none"
  <2>1. PICK c \in Commission : c = Payouts(d)[i]
    BY <1>2
  <2>2. CreateRow(k) /\ status[Current(k)] = "none" /\ c = Current(k)
    <3>1. ~ UpdateRow(k)
      <4>1. ASSUME UpdateRow(k) PROVE FALSE
        <5>1. status' = [status EXCEPT ![Current(k)] = desk[k].verdict]
              /\ status[Current(k)] # "none"
          BY <1>1, <4>1 DEF UpdateRow, DeskKnows, Deciding, At
        <5> QED
          BY <1>1, <1>4, <2>1, <5>1 DEF DesksTyped
      <4> QED
        BY <4>1
    <3>2. CreateRow(k)
      BY <1>4, <3>1 DEF DeskStep, FindExisting, CreditLocked, ReadLocked, MoveRuled
    <3>3. status[Current(k)] = "none"
      BY <1>4, <3>2 DEF CreateRow
    <3>4. status' = [status EXCEPT ![Current(k)] = "LOCKED"]
      BY <3>2, <3>3 DEF CreateRow
    <3> QED
      BY <1>1, <1>4, <2>1, <3>2, <3>3, <3>4 DEF DesksTyped
  <2>3. Handling(k) /\ At(k, "create")
    BY <2>2 DEF CreateRow, Handling, At
  <2>4. PICK e \in Deposit : \E j \in 1..Len(Payouts(e)) : Handles(k, e, j) /\ Earlier(e, j)
    BY <1>1, <2>3 DEF DeskKnows
  <2>5. PICK j \in 1..Len(Payouts(e)) : Handles(k, e, j) /\ Earlier(e, j)
    BY <2>4
  <2>6. e = d
    <3>1. Current(k).deposit = e /\ Current(k) = Payouts(e)[j]
      BY <1>1, <2>5, CurrentOfDeposit
    <3>2. Handles(m, d, i)
      BY DEF Carries
    <3>3. Payouts(d)[i].deposit = d
      BY <1>1, <3>2, CurrentOfDeposit
    <3> QED
      BY <2>1, <2>2, <3>1, <3>3
  <2>7. j \in 1..Len(Payouts(d)) /\ Handles(k, d, j) /\ Earlier(d, j)
    BY <2>5, <2>6
  <2>8. Payouts(d)[j] = c
    BY <1>1, <2>2, <2>7, CurrentOfDeposit
  <2>9. status'[c] # "none"
    BY <1>4, <2>1
  <2>10. CASE desk[k].auto /\ Goto(k, "read")
    <3>1. Carries(k, d, j)'
      BY <1>1, <2>7, <2>10, CarriesToStep DEF DeskSteps
    <3> QED
      BY <2>7, <3>1 DEF OnItsWay
  <2>11. CASE Finish(k)
    BY <1>1, <2>3, <2>7, <2>8, <2>9, <2>11, CarriesToNext
  <2> QED
    BY <2>2, <2>10, <2>11 DEF CreateRow
<1> QED
  BY <1>3, <1>4


\* An event that is taken is carried, unless its deposit pays nothing out.
LEMMA TakerCarries ==
  ASSUME EarningsInv, NEW k \in Desks, NEW d \in Deposit, NEW auto \in BOOLEAN,
         HandleDeposit(k, d, auto)
  PROVE  OnItsWay(d)'
<1>1. DesksTyped /\ Payouts(d) \in Seq(Commission) /\ Len(Payouts(d)) \in Nat
  BY PayoutsAreCommissions DEF EarningsInv, CommissionsInv
<1>2. CASE Payouts(d) = <<>>
  <2>1. Range(Payouts(d)) = {}
    BY <1>2 DEF Range
  <2> QED
    BY <2>1 DEF OnItsWay, Recorded
<1>3. CASE Payouts(d) # <<>>
  <2>1. /\ desk'[k].at = "find" /\ desk'[k].todo = Payouts(d)
    BY <1>1, <1>3 DEF HandleDeposit, DesksTyped
  <2>2. 1 \in 1..Len(Payouts(d))
    <3>1. Len(Payouts(d)) # 0
      BY <1>1, <1>3, EmptySeq
    <3> QED
      BY <1>1, <3>1
  <2>3. Handles(k, d, 1)'
    <3>1. \A n \in Nat : n = n - 1 + 1
      OBVIOUS
    <3>2. \A j \in Nat : 1 + j - 1 = j
      OBVIOUS
    <3> QED
      BY <1>1, <2>1, <3>1, <3>2 DEF Handles
  <2>4. Carries(k, d, 1)'
    BY <2>1, <2>3 DEF Carries, Handling, Earlier
  <2> QED
    BY <2>2, <2>4 DEF OnItsWay
<1> QED
  BY <1>2, <1>3

\* What is on its way stays so, whatever desk makes a step.
LEMMA WayKept ==
  ASSUME ColumnsHold, EarningsInv, MoneyInv, Lasting, NobodyRulesTwice,
         CommissionsNext, faults' = 0, NEW d \in Deposit \ early, OnItsWay(d)
  PROVE  OnItsWay(d)'
<1>1. PICK k \in Desks :
        \/ DeskStep(k) \/ DeskDies(k)
        \/ \E c \in Deposit, auto \in BOOLEAN : HandleDeposit(k, c, auto)
        \/ \E e \in Commission, v \in {"AVAILABLE", "REJECTED"} : Rule(k, e, v)
  BY DEF CommissionsNext
<1>2. ~ DeskDies(k)
  <2>1. faults \in Nat
    BY FaultsAssumption DEF EarningsInv, EventsInv, EventsTypeOK
  <2> QED
    BY <2>1 DEF DeskDies, Fault
<1>3. /\ desk \in [Desks -> DeskRecord]
      /\ inbox \in [Subscribers -> [Deposit -> 0..Publications]]
  BY DEF EarningsInv, CommissionsInv, DesksTyped, EventsInv, EventsTypeOK
<1>4. CASE Recorded(d)
  BY <1>4, RecordedLasts DEF OnItsWay
<1>5. CASE DeskStep(k)
  <2>1. inbox' = inbox
    BY <1>5
    DEF DeskStep, FindExisting, CreditLocked, CreateRow, ReadLocked, MoveRuled, UpdateRow,
        busVars
  <2>2. CASE inbox["commissions"][d] > 0
    BY <2>1, <2>2 DEF OnItsWay
  <2>3. ASSUME NEW m \in Desks, NEW i \in 1..Len(Payouts(d)), Carries(m, d, i)
        PROVE  OnItsWay(d)'
    BY <1>5, <2>3, CarrierMoves, OtherMoves
  <2> QED
    BY <1>4, <2>2, <2>3 DEF OnItsWay
<1>6. ASSUME At(k, "idle"), \A m \in Desks \ {k} : desk'[m] = desk[m], status' = status,
             NEW m \in Desks, NEW i \in 1..Len(Payouts(d)), Carries(m, d, i)
      PROVE  OnItsWay(d)'
  <2>1. m # k
    BY <1>6 DEF Carries, Handling, At
  <2> QED
    BY <1>6, <2>1, CarriesOn DEF OnItsWay
<1>7. ASSUME NEW c \in Deposit, NEW auto \in BOOLEAN, HandleDeposit(k, c, auto)
      PROVE  OnItsWay(d)'
  <2>1. CASE c = d
    BY <1>7, <2>1, TakerCarries
  <2>2. CASE c # d
    <3>1. /\ inbox' = [inbox EXCEPT !["commissions"][c] = @ - 1]
          /\ At(k, "idle") /\ status' = status
          /\ \A m \in Desks \ {k} : desk'[m] = desk[m]
      BY <1>3, <1>7 DEF HandleDeposit, Take
    <3>2. inbox'["commissions"][d] = inbox["commissions"][d]
      BY <1>3, <2>2, <3>1, ListenerAssumption
    <3> QED
      BY <1>4, <1>6, <3>1, <3>2 DEF OnItsWay
  <2> QED
    BY <2>1, <2>2
<1>8. ASSUME NEW e \in Commission, NEW v \in {"AVAILABLE", "REJECTED"}, Rule(k, e, v)
      PROVE  OnItsWay(d)'
  <2>1. /\ inbox' = inbox /\ At(k, "idle") /\ status' = status
        /\ \A m \in Desks \ {k} : desk'[m] = desk[m]
    BY <1>3, <1>8 DEF Rule, busVars
  <2> QED
    BY <1>4, <1>6, <2>1 DEF OnItsWay
<1> QED
  BY <1>1, <1>2, <1>5, <1>7, <1>8

\* Whatever is done beside the commissions leaves them on their way.
LEMMA WayUntouched ==
  ASSUME UNCHANGED commissionVars, NEW d, OnItsWay(d),
         inbox'["commissions"][d] > 0 \/ inbox'["commissions"][d] = inbox["commissions"][d]
  PROVE  OnItsWay(d)'
<1>1. UNCHANGED <<desk, status>>
  BY DEF commissionVars
<1> QED
  BY <1>1 DEF OnItsWay, Recorded, Carries, Handling, Handles, Earlier, At

\* Every step keeps every event of a published deposit on its way.
LEMMA ArrivalKept ==
  ASSUME ColumnsHold, EarningsInv, MoneyInv, ArrivalInv, [Next]_vars
  PROVE  ArrivalInv'
<1> SUFFICES ASSUME NobodyRulesTwice', faults' = 0, NEW d \in Deposit, d \notin early',
                    published'[d] > 0
             PROVE  OnItsWay(d)'
  BY DEF ArrivalInv
<1>1. Lasting /\ NobodyRulesTwice
  BY EarningsStep, RulingsLast DEF Moved
<1>2. /\ faults \in Nat /\ published \in [Deposit -> 0..Publications] /\ Publications \in Nat
      /\ inbox \in [Subscribers -> [Deposit -> 0..Publications]]
  BY FaultsAssumption, PublicationsAssumption DEF EarningsInv, EventsInv, EventsTypeOK
<1>3. ~ Fault /\ d \in Deposit \ early
  BY <1>1, <1>2 DEF Fault, Lasting
<1>4. faults = 0 /\ published[d] > 0 => OnItsWay(d)
  BY <1>1, <1>3 DEF ArrivalInv
<1>5. CASE EventsNext /\ UNCHANGED <<commissionVars, paymentVars>>
  <2>1. ASSUME NEW c \in Deposit, CreditDeposit(c) PROVE OnItsWay(d)'
    <3>1. UNCHANGED <<published, inbox, faults>>
      BY <2>1 DEF CreditDeposit, busVars
    <3> QED
      BY <1>4, <1>5, <3>1, WayUntouched
  <2>2. ASSUME NEW c \in Deposit, Publish(c) PROVE OnItsWay(d)'
    <3>1. /\ inbox' = [s \in Subscribers |-> [inbox[s] EXCEPT ![c] = @ + 1]]
          /\ published' = [published EXCEPT ![c] = @ + 1] /\ faults' = faults
      BY <2>2 DEF Publish
    <3>2. /\ d = c => inbox'["commissions"][d] = inbox["commissions"][d] + 1
          /\ d # c => inbox'["commissions"][d] = inbox["commissions"][d]
                      /\ published'[d] = published[d]
      BY <1>2, <3>1, ListenerAssumption
    <3>3. inbox["commissions"][d] \in Nat
      BY <1>2, ListenerAssumption
    <3>4. CASE d = c
      BY <3>2, <3>3, <3>4 DEF OnItsWay
    <3>5. CASE d # c
      BY <1>4, <1>5, <3>1, <3>2, <3>5, WayUntouched
    <3> QED
      BY <3>4, <3>5
  <2>3. ASSUME NEW c \in Deposit, NEW s \in Subscribers, LoseEvent(s, c) PROVE OnItsWay(d)'
    BY <1>3, <2>3 DEF LoseEvent
  <2> QED
    BY <1>5, <2>1, <2>2, <2>3 DEF EventsNext
<1>6. CASE CommissionsNext /\ UNCHANGED paymentVars
  <2>1. UNCHANGED <<published, faults>>
    BY <1>3, <1>6
    DEF CommissionsNext, DeskStep, FindExisting, CreditLocked, CreateRow, ReadLocked,
        MoveRuled, UpdateRow, DeskDies, HandleDeposit, Rule, Take, busVars
  <2>2. OnItsWay(d)
    BY <1>4, <2>1
  <2> QED
    BY <1>1, <1>3, <1>6, <2>2, WayKept
<1>7. CASE PaymentsNext /\ UNCHANGED commissionVars
  <2>1. UNCHANGED <<published, inbox, faults>>
    BY <1>3, <1>7
    DEF PaymentsNext, PaymentStep, AskPayment, LockAmount, FileRow, CreateThrows, ReleaseLock,
        RequestDies, LockLapses, DecidePayment, MovePayment, DecisionDies, CheckKeyUnused, DeleteKey,
        busVars
  <2> QED
    BY <1>4, <1>7, <2>1, WayUntouched
<1>8. CASE UNCHANGED vars
  <2>1. UNCHANGED <<busVars, commissionVars>>
    BY <1>8 DEF vars
  <2> QED
    BY <1>4, <2>1, WayUntouched DEF busVars
<1> QED
  BY <1>5, <1>6, <1>7, <1>8 DEF Next

\* Every commission of a confirmed deposit is recorded in the end, however the
\* handlers of its events race: as long as the columns hold the money there is,
\* no process dies, no administrator overtakes the handler and no commission
\* is ruled on both ways.
THEOREM EarningsAlwaysArrive ==
  ASSUME ColumnsHold
  PROVE  Spec => []EarningsArrive
<1>1. Init => ArrivalInv
  BY DEF Init, EventsInit, ArrivalInv
<1>2. EarningsInv /\ MoneyInv /\ ArrivalInv /\ [Next]_vars => ArrivalInv'
  BY ArrivalKept
<1>3. EarningsInv /\ ArrivalInv => EarningsArrive
  <2> SUFFICES ASSUME EarningsInv, ArrivalInv, NobodyRulesTwice, faults = 0,
                      NEW d \in Deposit \ early, published[d] > 0,
                      inbox["commissions"][d] = 0,
                      \A k \in Desks : desk[k].todo # <<>> => Current(k).deposit # d
               PROVE  Recorded(d)
    BY DEF EarningsArrive
  <2>1. OnItsWay(d)
    BY DEF ArrivalInv
  <2>2. ASSUME NEW k \in Desks, NEW i \in 1..Len(Payouts(d)), Carries(k, d, i) PROVE FALSE
    <3>1. Handles(k, d, i) /\ DesksTyped
      BY <2>2 DEF Carries, EarningsInv, CommissionsInv
    <3> QED
      BY <3>1, CurrentOfDeposit
  <2> QED
    BY <2>1, <2>2 DEF OnItsWay
<1> QED
  BY <1>1, <1>2, <1>3, MoneyInvariance, PTL DEF Spec
=============================================================================
