---------------------------- MODULE AccountProofs ----------------------------
(***************************************************************************)
(* What the account ledger guarantees for every set of markets, capital    *)
(* and calendar.  The four invariants are inductive together: the type     *)
(* invariant carries the arithmetic of the other three.  The lemmas before *)
(* it count units of money: what Total, the sum of a function over the     *)
(* markets, does when one market's share changes.                          *)
(***************************************************************************)
EXTENDS Account, FiniteSetTheorems, TLAPS

\* The units from k + 1 to k + n of market m.
UnitsAbove(m, k, n) == {m} \X (k + 1 .. k + n)

LEMMA UnitsAboveCount ==
  ASSUME NEW m, NEW k \in Nat, NEW n \in Nat
  PROVE  IsFiniteSet(UnitsAbove(m, k, n)) /\ Cardinality(UnitsAbove(m, k, n)) = n
PROOF
  <1> DEFINE I == k + 1 .. k + n
             pair == [i \in I |-> <<m, i>>]
  <1>1. IsFiniteSet(I) /\ Cardinality(I) = n
    BY FS_Interval
  <1>2. pair \in Bijection(I, UnitsAbove(m, k, n))
    <2>1. UnitsAbove(m, k, n) = {m} \X I
      BY DEF UnitsAbove
    <2> HIDE DEF I
    <2>2. pair \in [I -> {m} \X I]
      OBVIOUS
    <2>3. \A i, j \in I : pair[i] = pair[j] => i = j
      OBVIOUS
    <2>4. \A u \in {m} \X I : \E i \in I : pair[i] = u
      OBVIOUS
    <2> QED
      BY <2>1, <2>2, <2>3, <2>4 DEF Bijection, Injection, Surjection, IsInjective
  <1>3. ExistsBijection(I, UnitsAbove(m, k, n))
    BY <1>2 DEF ExistsBijection
  <1> QED BY <1>1, <1>3, FS_Bijection

\* Raising one market's share adds exactly its new units.
LEMMA UnitsOfRaised ==
  ASSUME NEW f \in [Markets -> Nat], NEW m \in Markets, NEW n \in Nat
  PROVE  LET g == [f EXCEPT ![m] = @ + n]
         IN  /\ UnitsAtRisk(g) = UnitsAtRisk(f) \cup UnitsAbove(m, f[m], n)
             /\ UnitsAtRisk(f) \cap UnitsAbove(m, f[m], n) = {}
PROOF
  <1> DEFINE g == [f EXCEPT ![m] = @ + n]
  <1>1. \A x : x \in UnitsAtRisk(g) <=> \E k \in Markets : x \in {k} \X (1 .. g[k])
    BY DEF UnitsAtRisk
  <1>2. \A x : x \in UnitsAtRisk(f) <=> \E k \in Markets : x \in {k} \X (1 .. f[k])
    BY DEF UnitsAtRisk
  <1>3. {m} \X (1 .. g[m]) = ({m} \X (1 .. f[m])) \cup UnitsAbove(m, f[m], n)
    BY DEF UnitsAbove
  <1>4. \A k \in Markets : k # m => g[k] = f[k]
    OBVIOUS
  <1>5. UnitsAtRisk(g) = UnitsAtRisk(f) \cup UnitsAbove(m, f[m], n)
    BY <1>1, <1>2, <1>3, <1>4, Zenon
  <1>6. UnitsAtRisk(f) \cap UnitsAbove(m, f[m], n) = {}
    BY <1>2 DEF UnitsAbove
  <1> QED BY <1>5, <1>6

LEMMA UnitsFinite ==
  ASSUME NEW f \in [Markets -> Nat]
  PROVE  IsFiniteSet(UnitsAtRisk(f))
PROOF
  <1> DEFINE units == {{m} \X (1 .. f[m]) : m \in Markets}
             unitsOf == [m \in Markets |-> {m} \X (1 .. f[m])]
  <1>1. \A m \in Markets : IsFiniteSet({m} \X (1 .. f[m]))
    <2> TAKE m \in Markets
    <2>1. IsFiniteSet({m})
      BY FS_Singleton
    <2>2. IsFiniteSet(1 .. f[m])
      BY FS_Interval
    <2> QED BY <2>1, <2>2, FS_Product
  <1>2. unitsOf \in Surjection(Markets, units)
    BY DEF Surjection
  <1>3. IsFiniteSet(units)
    BY <1>2, MarketsFinite, FS_Surjection
  <1>4. \A u \in units : IsFiniteSet(u)
    BY <1>1
  <1>5. IsFiniteSet(UNION units)
    BY <1>3, <1>4, FS_UNION
  <1> QED BY <1>5 DEF UnitsAtRisk

(***************************************************************************)
(* The facts about Total that the proofs cite.                             *)
(***************************************************************************)
LEMMA TotalType ==
  ASSUME NEW f \in [Markets -> Nat]
  PROVE  Total(f) \in Nat
PROOF
  BY UnitsFinite, FS_CardinalityType DEF Total

LEMMA DisjointUnion ==
  ASSUME NEW S, IsFiniteSet(S), NEW T, IsFiniteSet(T), S \cap T = {}
  PROVE  Cardinality(S \cup T) = Cardinality(S) + Cardinality(T)
PROOF
  <1>1. Cardinality(S \cup T) = Cardinality(S) + Cardinality(T) - Cardinality(S \cap T)
    BY FS_Union
  <1>2. Cardinality(S \cap T) = 0
    BY FS_EmptySet
  <1>3. Cardinality(S) \in Nat /\ Cardinality(T) \in Nat
    BY FS_CardinalityType
  <1> QED BY <1>1, <1>2, <1>3

LEMMA TotalRaised ==
  ASSUME NEW f \in [Markets -> Nat], NEW m \in Markets, NEW n \in Nat
  PROVE  Total([f EXCEPT ![m] = @ + n]) = Total(f) + n
PROOF
  <1> DEFINE U == UnitsAtRisk(f)
             V == UnitsAbove(m, f[m], n)
             W == UnitsAtRisk([f EXCEPT ![m] = @ + n])
  <1>1. IsFiniteSet(U)
    BY UnitsFinite
  <1>2. IsFiniteSet(V) /\ Cardinality(V) = n
    BY UnitsAboveCount
  <1>3. W = U \cup V /\ U \cap V = {}
    BY UnitsOfRaised
  <1>4. Cardinality(W) = Cardinality(U) + n
    <2> HIDE DEF U, V, W
    <2> QED BY <1>1, <1>2, <1>3, DisjointUnion
  <1> QED BY <1>4 DEF Total

LEMMA TotalCleared ==
  ASSUME NEW f \in [Markets -> Nat], NEW m \in Markets
  PROVE  Total([f EXCEPT ![m] = 0]) = Total(f) - f[m]
PROOF
  <1> DEFINE g == [f EXCEPT ![m] = 0]
  <1>1. g \in [Markets -> Nat] /\ f[m] \in Nat
    OBVIOUS
  <1>2. [g EXCEPT ![m] = @ + f[m]] = f
    <2> DEFINE h == [g EXCEPT ![m] = @ + f[m]]
    <2>1. h \in [Markets -> Nat]
      OBVIOUS
    <2>2. \A k \in Markets : h[k] = f[k]
      OBVIOUS
    <2> HIDE DEF h
    <2>3. h = f
      BY <2>1, <2>2
    <2> QED BY <2>3 DEF h
  <1>3. Total(f) = Total(g) + f[m]
    <2> HIDE DEF g
    <2> QED BY <1>1, <1>2, TotalRaised
  <1>4. Total(g) \in Nat
    <2> HIDE DEF g
    <2> QED BY <1>1, TotalType
  <1> HIDE DEF g
  <1>5. Total(g) = Total(f) - f[m]
    BY <1>1, <1>3, <1>4
  <1> QED BY <1>5 DEF g

\* One market's share is part of the total.
LEMMA TotalCoversShare ==
  ASSUME NEW f \in [Markets -> Nat], NEW m \in Markets
  PROVE  f[m] <= Total(f)
PROOF
  <1>1. [f EXCEPT ![m] = 0] \in [Markets -> Nat]
    OBVIOUS
  <1>2. Total([f EXCEPT ![m] = 0]) \in Nat
    BY <1>1, TotalType
  <1>3. Total(f) \in Nat /\ f[m] \in Nat
    BY TotalType
  <1>4. Total([f EXCEPT ![m] = 0]) = Total(f) - f[m]
    BY TotalCleared
  <1> QED BY <1>2, <1>3, <1>4

LEMMA TotalOfNothing == Total([m \in Markets |-> 0]) = 0
PROOF
  <1>1. UnitsAtRisk([m \in Markets |-> 0]) = {}
    BY DEF UnitsAtRisk
  <1> QED BY <1>1, FS_EmptySet DEF Total

\* More in no market is not more in all.
LEMMA TotalMonotone ==
  ASSUME NEW f \in [Markets -> Nat], NEW g \in [Markets -> Nat],
         \A m \in Markets : f[m] <= g[m]
  PROVE  Total(f) <= Total(g)
PROOF
  <1>1. \A m \in Markets : 1 .. f[m] \subseteq 1 .. g[m]
    OBVIOUS
  <1>2. UnitsAtRisk(f) \subseteq UnitsAtRisk(g)
    <2>1. \A u \in UnitsAtRisk(f) : \E m \in Markets : u \in {m} \X (1 .. f[m])
      BY DEF UnitsAtRisk
    <2>2. \A m \in Markets : {m} \X (1 .. g[m]) \subseteq UnitsAtRisk(g)
      BY DEF UnitsAtRisk
    <2>3. \A m \in Markets : {m} \X (1 .. f[m]) \subseteq {m} \X (1 .. g[m])
      BY <1>1
    <2> QED BY <2>1, <2>2, <2>3
  <1>3. IsFiniteSet(UnitsAtRisk(g))
    BY UnitsFinite
  <1> QED BY <1>2, <1>3, FS_Subset DEF Total

-----------------------------------------------------------------------------

AccountInv ==
  /\ AccountTypeOK
  /\ CashConserved
  /\ AttributionMatchesExposure
  /\ LosingStreakIsReal

-----------------------------------------------------------------------------
(* A day has its week, and the ledger starts well. *)

LEMMA WeekOfDay == \A d \in Days : WeekOf(d) \in Weeks
PROOF
  BY DEF Weeks

LEMMA AccountInitInv == AccountInit => AccountInv
PROOF
  <1> SUFFICES ASSUME AccountInit PROVE AccountInv
    OBVIOUS
  <1> USE DEF AccountInit
  <1>1. AccountTypeOK
    BY MoneyAssumption DEF AccountTypeOK
  <1>2. CashConserved
    BY TotalOfNothing, MoneyAssumption DEF CashConserved, Equity, TotalExposure
  <1>3. AttributionMatchesExposure
    BY DEF AttributionMatchesExposure, IsOpen
  <1>4. LosingStreakIsReal
    BY DEF LosingStreakIsReal
  <1> QED BY <1>1, <1>2, <1>3, <1>4 DEF AccountInv

-----------------------------------------------------------------------------
(* record_open with any strategy and any cost. *)

LEMMA RecordOpenInv ==
  ASSUME AccountInv, NEW m \in Markets, NEW s \in Strategies, NEW n \in Nat,
         RecordOpen(m, s, n)
  PROVE  AccountInv'
PROOF
  <1> USE DEF AccountInv
  <1>1. AccountTypeOK'
    BY DEF AccountTypeOK, RecordOpen, CanOpen, OwnerAfterOpen
  <1>2. CashConserved'
    <2>1. Total(notional') = Total(notional) + n
      BY TotalRaised DEF AccountTypeOK, RecordOpen
    <2>2. Total(notional) \in Nat
      BY TotalType DEF AccountTypeOK
    <2> QED BY <2>1, <2>2
            DEF AccountTypeOK, CashConserved, Equity, TotalExposure, RecordOpen, CanOpen
  <1>3. AttributionMatchesExposure'
    BY NoStrategyAssumption
    DEF AccountTypeOK, AttributionMatchesExposure, IsOpen, RecordOpen, CanOpen, OwnerAfterOpen
  <1>4. LosingStreakIsReal'
    BY DEF LosingStreakIsReal, RecordOpen
  <1> QED BY <1>1, <1>2, <1>3, <1>4

(* record_close with any proceeds of at least nothing. *)

LEMMA RecordCloseInv ==
  ASSUME AccountInv, NEW m \in Markets, NEW p \in Nat, NEW d \in Days,
         RecordClose(m, p - notional[m], d)
  PROVE  AccountInv'
PROOF
  <1> DEFINE pnl == p - notional[m]
  <1> USE DEF AccountInv
  <1>0. notional[m] \in Nat /\ pnl \in Int
    BY DEF AccountTypeOK
  <1>1. AccountTypeOK'
    <2>1. cash' = cash + p
      BY DEF RecordClose, CashAfterClose, AccountTypeOK
    <2>2. losses' \in Nat
      BY <1>0 DEF RecordClose, StreakAfter, AccountTypeOK
    <2>3. /\ dayPnl' \in [Days -> Int]
          /\ weekPnl' \in [Weeks -> Int]
      BY <1>0, WeekOfDay DEF RecordClose, AccountTypeOK
    <2> QED BY <1>0, <2>1, <2>2, <2>3 DEF RecordClose, AccountTypeOK
  <1>2. CashConserved'
    <2>1. Total(notional') = Total(notional) - notional[m]
      BY TotalCleared DEF AccountTypeOK, RecordClose
    <2>2. Total(notional) \in Nat
      BY TotalType DEF AccountTypeOK
    <2>3. cash \in Nat /\ realized \in Int /\ StartingCapital \in Nat
      BY MoneyAssumption DEF AccountTypeOK
    <2>4. cash + Total(notional) = StartingCapital + realized
      BY DEF CashConserved, Equity, TotalExposure
    <2>5. cash' = cash + notional[m] + pnl /\ realized' = realized + pnl
      BY DEF RecordClose, CashAfterClose
    <2>6. cash' + Total(notional') = StartingCapital + realized'
      <3> DEFINE before == Total(notional)
                 after == Total(notional')
                 entry == notional[m]
      <3>1. /\ after = before - entry /\ before \in Nat /\ entry \in Nat
            /\ cash + before = StartingCapital + realized
            /\ cash' = cash + entry + pnl /\ realized' = realized + pnl
            /\ pnl \in Int /\ cash \in Nat /\ realized \in Int /\ StartingCapital \in Nat
        BY <1>0, <2>1, <2>2, <2>3, <2>4, <2>5
      <3> HIDE DEF pnl, before, after, entry, AccountInv
      <3>2. cash' + after = StartingCapital + realized'
        BY <3>1
      <3> QED BY <3>2 DEF after
    <2> QED BY <2>6 DEF CashConserved, Equity, TotalExposure
  <1>3. AttributionMatchesExposure'
    BY NoStrategyAssumption
    DEF AccountTypeOK, AttributionMatchesExposure, IsOpen, RecordClose
  <1>4. LosingStreakIsReal'
    BY <1>0 DEF AccountTypeOK, LosingStreakIsReal, RecordClose, StreakAfter
  <1> QED BY <1>1, <1>2, <1>3, <1>4

-----------------------------------------------------------------------------
LEMMA AccountStutterInv ==
  ASSUME AccountInv, UNCHANGED accountVars
  PROVE  AccountInv'
PROOF
  BY DEF AccountInv, accountVars, AccountTypeOK, CashConserved, Equity, TotalExposure,
         AttributionMatchesExposure, IsOpen, LosingStreakIsReal

LEMMA AccountNextInv == AccountInv /\ [AccountNext]_accountVars => AccountInv'
PROOF
  <1> SUFFICES ASSUME AccountInv, [AccountNext]_accountVars PROVE AccountInv'
    OBVIOUS
  <1>1. CASE Open
    <2> PICK m \in Markets, s \in Strategies, n \in Costs : RecordOpen(m, s, n)
      BY <1>1 DEF Open
    <2> QED BY RecordOpenInv, MoneyAssumption
  <1>2. CASE Close
    <2> PICK m \in Markets, p \in Proceeds, d \in Days : RecordClose(m, p - notional[m], d)
      BY <1>2 DEF Close
    <2> QED BY RecordCloseInv, MoneyAssumption
  <1>3. CASE UNCHANGED accountVars
    BY <1>3, AccountStutterInv
  <1> QED BY <1>1, <1>2, <1>3 DEF AccountNext

(* The inductive invariant of the ledger (account_state.py).               *)
THEOREM AccountInvariant == AccountSpec => []AccountInv
PROOF
  BY AccountInitInv, AccountNextInv, PTL DEF AccountSpec

(* The ledger's variables keep their types; in particular cash never goes  *)
(* below zero (record_open's insufficient-cash check, record_close).       *)
THEOREM AccountTyped == AccountSpec => []AccountTypeOK
PROOF
  <1>1. AccountInv => AccountTypeOK
    BY DEF AccountInv
  <1> QED BY <1>1, AccountInvariant, PTL

(* Cash plus money at risk is the starting capital plus the realized       *)
(* profit, for every ledger (AccountState.equity_usd).                     *)
THEOREM CashIsConserved == AccountSpec => []CashConserved
PROOF
  <1>1. AccountInv => CashConserved
    BY DEF AccountInv
  <1> QED BY <1>1, AccountInvariant, PTL

(* A market has an owner exactly while money is at risk in it              *)
(* (record_open, record_close).                                            *)
THEOREM AttributionIsComplete == AccountSpec => []AttributionMatchesExposure
PROOF
  <1>1. AccountInv => AttributionMatchesExposure
    BY DEF AccountInv
  <1> QED BY <1>1, AccountInvariant, PTL

(* A losing streak as long as the account's history has cost at least as   *)
(* many units (record_close's streak).                                     *)
THEOREM StreakIsReal == AccountSpec => []LosingStreakIsReal
PROOF
  <1>1. AccountInv => LosingStreakIsReal
    BY DEF AccountInv
  <1> QED BY <1>1, AccountInvariant, PTL

(* No add-on by another strategy takes over an open position, and no close *)
(* leaves it to someone else (record_open's attribution).                  *)
THEOREM AttributionIsFixed == AccountSpec => AttributionFixedByFirstOpen
PROOF
  <1> DEFINE Keeps == \A m \in Markets :
                        IsOpen(m) /\ IsOpen(m)' => strategyOf'[m] = strategyOf[m]
  <1>1. AccountInv /\ [AccountNext]_accountVars => [Keeps]_accountVars
    <2> SUFFICES ASSUME AccountInv, AccountNext PROVE Keeps
      OBVIOUS
    <2>1. CASE Open
      BY <2>1 DEF Open, RecordOpen, OwnerAfterOpen, IsOpen, AccountInv, AccountTypeOK
    <2>2. CASE Close
      BY <2>2 DEF Close, RecordClose, IsOpen, AccountInv, AccountTypeOK
    <2> QED BY <2>1, <2>2 DEF AccountNext
  <1> QED BY <1>1, AccountInvariant, PTL DEF AccountSpec, AttributionFixedByFirstOpen
=============================================================================
