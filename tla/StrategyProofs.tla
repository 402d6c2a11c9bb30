--------------------------- MODULE StrategyProofs ---------------------------
(***************************************************************************)
(* Proofs about Strategy for any number of paths, any configurations and   *)
(* any sequence of calls.                                                  *)
(*                                                                         *)
(* TypeOK alone is not inductive for the credits: that the path taken has  *)
(* a credit left needs the choice of the best path and the refill, and     *)
(* that a refill means exact shares needs the balance of used and credit.  *)
(***************************************************************************)
EXTENDS Strategy, FiniteSetTheorems, WellFoundedInduction, TLAPS

\* A quota is a positive integer.
LEMMA QuotaType == ASSUME NEW w \in Int PROVE Quota(w) \in Nat /\ Quota(w) >= 1
BY DEF Quota

\* The alpha in use lies in (0, 1].
LEMMA AlphaType == ASSUME NEW c \in ConfigType PROVE Alpha(c) \in 1..LossUnit
BY UnitAssumption DEF Alpha

\* A weighted mean of two values of 0..u lies in 0..u.
LEMMA MeanBounds ==
    ASSUME NEW u \in Nat \ {0}, NEW a \in 1..u, NEW x \in 0..u, NEW y \in 0..u
    PROVE  (a * x + (u - a) * y) \div u \in 0..u
<1>1. a * x \in Nat /\ a * x <= a * u
  <2>1. u - x \in Nat /\ a \in Nat /\ x \in Nat
    OBVIOUS
  <2>2. a * (u - x) \in Nat /\ a * x \in Nat
    BY <2>1
  <2>3. a * (u - x) = a * u - a * x
    BY <2>1
  <2> QED BY <2>1, <2>2, <2>3
<1>2. (u - a) * y \in Nat /\ (u - a) * y <= (u - a) * u
  <2>1. u - y \in Nat /\ u - a \in Nat /\ y \in Nat
    OBVIOUS
  <2>2. (u - a) * (u - y) \in Nat /\ (u - a) * y \in Nat
    BY <2>1
  <2>3. (u - a) * (u - y) = (u - a) * u - (u - a) * y
    BY <2>1
  <2> QED BY <2>1, <2>2, <2>3
<1>3. a * u + (u - a) * u = u * u
  OBVIOUS
<1>4. PICK s \in Nat : s = a * x + (u - a) * y /\ s <= u * u
  <2>1. a * u \in Nat /\ (u - a) * u \in Nat /\ u * u \in Nat
    OBVIOUS
  <2> QED BY <1>1, <1>2, <1>3, <2>1
<1>5. s \div u \in 0..u
  BY <1>4
<1> QED BY <1>4, <1>5

\* strategy_init establishes the invariant.
LEMMA InitInv == Init => IInv
<1> SUFFICES ASSUME Init PROVE IInv
  OBVIOUS
<1>1. InitialConfig \in ConfigType
  BY ConfigAssumption
<1>2. \A p \in Path : Quota(weight[p]) \in Nat
  BY <1>1, QuotaType DEF Init, ConfigType
<1>3. Alpha(InitialConfig) \in 1..LossUnit
  BY <1>1, AlphaType
<1>4. TypeOK
  BY <1>1, <1>2, <1>3, UnitAssumption DEF Init, TypeOK, ConfigType
<1>5. CreditBalance
  BY <1>2 DEF Init, CreditBalance
<1> QED BY <1>4, <1>5 DEF IInv

\* The path strategy_next_path returns has a credit after the refill.
LEMMA BestHasCredit ==
    ASSUME IInv, NEW p \in Path, Best(p)
    PROVE  Credit \in [Path -> Nat] /\ Credit[p] >= 1
<1>1. \A q \in Path : Quota(weight[q]) \in Nat /\ Quota(weight[q]) >= 1
  BY QuotaType DEF IInv, TypeOK
<1>2. Credit \in [Path -> Nat]
  BY <1>1 DEF Credit, Refilled, IInv, TypeOK
<1>3. CASE NeedRefill
  <2>1. Credit[p] = Quota(weight[p])
    BY <1>3 DEF Best, Credit, Refilled
  <2> QED BY <1>1, <1>2, <2>1
<1>4. CASE ~NeedRefill
  <2>1. PICK q \in Usable : ~(path_credit[q] <= 0)
    BY <1>4 DEF NeedRefill
  <2>2. q \in Path /\ Credit[q] = path_credit[q]
    BY <1>4 DEF Usable, Credit, Refilled
  <2>3. Credit[q] >= 1
    BY <2>1, <2>2 DEF IInv, TypeOK
  <2> QED BY <1>2, <2>1, <2>2, <2>3 DEF Best
<1> QED BY <1>2, <1>3, <1>4

\* strategy_next_path, with or without a refill.
LEMMA PickInv == ASSUME IInv, NEW p \in Path, Pick(p) PROVE IInv'
<1> DEFINE U == Refilled(used, [q \in Path |-> 0])
<1>1. Credit \in [Path -> Nat] /\ Credit[p] >= 1
  BY BestHasCredit DEF Pick
<1>2. U \in [Path -> Nat]
  BY DEF Refilled, IInv, TypeOK
<1>3. \A q \in Path : enabled[q] => U[q] + Credit[q] = Quota(weight[q])
  <2>1. \A q \in Path : Quota(weight[q]) \in Nat
    BY QuotaType DEF IInv, TypeOK
  <2> QED BY <2>1 DEF Refilled, Credit, IInv, CreditBalance
<1> HIDE DEF U
<1>4. /\ path_credit' = [Credit EXCEPT ![p] = Credit[p] - 1]
      /\ used' = [U EXCEPT ![p] = U[p] + 1]
      /\ UNCHANGED <<enabled, weight, alive, loss_rate, parameters, echoes>>
  BY <1>1, <1>2 DEF Pick, U
<1>5. TypeOK'
  BY <1>1, <1>2, <1>4 DEF IInv, TypeOK, parameters
<1>6. CreditBalance'
  <2> SUFFICES ASSUME NEW q \in Path, enabled[q]
               PROVE  used'[q] + path_credit'[q] = Quota(weight[q])
    BY <1>4 DEF CreditBalance
  <2>1. CASE q = p
    <3>1. used'[q] = U[p] + 1 /\ path_credit'[q] = Credit[p] - 1
      BY <1>1, <1>2, <1>4, <2>1
    <3> QED BY <1>1, <1>2, <1>3, <2>1, <3>1
  <2>2. CASE q # p
    BY <1>1, <1>2, <1>3, <1>4, <2>2
  <2> QED BY <2>1, <2>2
<1> QED BY <1>5, <1>6 DEF IInv

\* strategy_update_probe, for an echo or a loss.
LEMMA UpdateProbeInv ==
    ASSUME IInv, NEW p \in Path, NEW received \in BOOLEAN, UpdateProbe(p, received)
    PROVE  IInv'
<1> DEFINE l == Ewma(p, received)
<1>1. l \in 0..LossUnit
  <2>1. Observed(received) \in 0..LossUnit
    BY UnitAssumption DEF Observed
  <2>2. loss_rate[p] \in 0..LossUnit /\ ewma_alpha \in 1..LossUnit
    BY DEF IInv, TypeOK
  <2> QED BY <2>1, <2>2, UnitAssumption, MeanBounds DEF Ewma
<1>2. (Revives(l) \/ (alive[p] /\ ~Kills(l))) \in BOOLEAN
  BY DEF IInv, TypeOK, Revives, Kills
<1>3. Quota(weight[p]) \in Nat
  BY QuotaType DEF IInv, TypeOK
<1> HIDE DEF l
<1>4. /\ loss_rate' = [loss_rate EXCEPT ![p] = l]
      /\ alive' = [alive EXCEPT ![p] = Revives(l) \/ (alive[p] /\ ~Kills(l))]
      /\ \/ /\ path_credit' = [path_credit EXCEPT ![p] = Quota(weight[p])]
            /\ used' = [used EXCEPT ![p] = 0]
         \/ UNCHANGED <<path_credit, used>>
      /\ UNCHANGED <<enabled, weight, parameters>>
  BY DEF UpdateProbe, l, IInv, TypeOK
<1>5. echoes' \in [Path -> 0..DampEchoes]
  <2> DEFINE e == IF ~received /\ Kills(l) THEN 0
                  ELSE IF received /\ echoes[p] < DampEchoes THEN echoes[p] + 1
                  ELSE echoes[p]
  <2>1. echoes' = [echoes EXCEPT ![p] = e]
    BY DEF UpdateProbe, l, IInv, TypeOK
  <2>2. echoes[p] \in 0..DampEchoes /\ DampEchoes \in Nat
    BY UnitAssumption DEF IInv, TypeOK
  <2>3. e \in 0..DampEchoes
    BY <2>2
  <2> QED BY <2>1, <2>3 DEF IInv, TypeOK
<1>6. loss_rate' \in [Path -> 0..LossUnit]
  BY <1>1, <1>4 DEF IInv, TypeOK
<1>7. alive' \in [Path -> BOOLEAN]
  BY <1>2, <1>4 DEF IInv, TypeOK
<1>8. path_credit' \in [Path -> Nat] /\ used' \in [Path -> Nat]
  BY <1>3, <1>4 DEF IInv, TypeOK
<1>9. TypeOK'
  BY <1>4, <1>5, <1>6, <1>7, <1>8 DEF IInv, TypeOK, parameters
<1>10. CreditBalance'
  BY <1>3, <1>4 DEF IInv, TypeOK, CreditBalance
<1> QED BY <1>9, <1>10 DEF IInv

\* strategy_reload, for any configuration the file may hold.
LEMMA ReloadInv == ASSUME IInv, NEW c \in Config, Reload(c) PROVE IInv'
<1>1. c \in ConfigType
  BY ConfigAssumption
<1>2. Alpha(c) \in 1..LossUnit
  BY <1>1, AlphaType
<1>3. \A p \in Path : Quota(c.weight[p]) \in Nat
  BY <1>1, QuotaType DEF ConfigType
<1>4. TypeOK'
  BY <1>1, <1>2, <1>3, UnitAssumption DEF Reload, IInv, TypeOK, ConfigType
<1>5. CreditBalance'
  BY <1>1, <1>3 DEF Reload, IInv, CreditBalance, ConfigType
<1> QED BY <1>4, <1>5 DEF IInv

\* Every call preserves the invariant.
LEMMA NextInv == IInv /\ [Next]_svars => IInv'
<1> SUFFICES ASSUME IInv, [Next]_svars PROVE IInv'
  OBVIOUS
<1>1. CASE NextPath
  <2>1. CASE UNCHANGED svars
    BY <2>1 DEF svars, IInv, TypeOK, CreditBalance
  <2> QED BY <1>1, <2>1, PickInv DEF NextPath, PickNone
<1>2. CASE \E p \in Path, received \in BOOLEAN : UpdateProbe(p, received)
  BY <1>2, UpdateProbeInv
<1>3. CASE \E c \in Config : Reload(c)
  BY <1>3, ReloadInv
<1>4. CASE UNCHANGED svars
  BY <1>4 DEF svars, IInv, TypeOK, CreditBalance
<1> QED BY <1>1, <1>2, <1>3, <1>4 DEF Next

-----------------------------------------------------------------------------
\* Credits are never negative, loss rates stay in 0..1, and the shards given
\* to an enabled path and its credit add up to its quota.
THEOREM CreditInvariance == Spec => []IInv
<1> QED BY InitInv, NextInv, PTL DEF Spec

\* Loss rates stay between 0 and 1 and no credit becomes negative, whatever
\* configurations are loaded.
THEOREM TypeCorrect == Spec => []TypeOK
<1>1. IInv => TypeOK
  BY DEF IInv
<1> QED BY <1>1, CreditInvariance, PTL

\* The balance of shards given and credit left holds for every number of
\* paths, all weights and all reloads.
THEOREM CreditsBalance == Spec => []CreditBalance
<1>1. IInv => CreditBalance
  BY DEF IInv
<1> QED BY <1>1, CreditInvariance, PTL

\* strategy_next_path refills only when every usable path has been given
\* exactly its quota.
THEOREM SharesAreExact == Spec => ExactShares
<1>1. IInv /\ [Next]_svars =>
        [\A p \in Path : (Pick(p) /\ NeedRefill)
            => \A q \in Usable : used[q] = Quota(weight[q])]_svars
  <2> SUFFICES ASSUME IInv, NeedRefill, NEW q \in Usable
               PROVE  used[q] = Quota(weight[q])
    OBVIOUS
  <2>1. q \in Path /\ enabled[q]
    BY DEF Usable
  <2>2. path_credit[q] = 0 /\ used[q] \in Nat
    BY <2>1 DEF NeedRefill, IInv, TypeOK
  <2> QED BY <2>1, <2>2 DEF IInv, CreditBalance
<1> QED BY <1>1, CreditInvariance, PTL DEF Spec, ExactShares

-----------------------------------------------------------------------------
(***************************************************************************)
(* The number of shards of a block.                                        *)
(***************************************************************************)
\* A product of positive numbers is positive, and one that is too large has a
\* factor that is.
LEMMA Products ==
    /\ \A a, b \in Nat : a * b \in Nat
    /\ \A a, b \in Nat \ {0} : a * b \in Nat \ {0}
    /\ \A a, b, c \in Nat : a <= b => a * c <= b * c
    /\ \A a, b \in Nat, c \in Nat \ {0} : a * c <= b * c => a <= b
<1>1. \A a, b \in Nat : a * b \in Nat
  OBVIOUS
<1>2. \A a, b \in Nat \ {0} : a * b \in Nat \ {0}
  OBVIOUS
<1>3. ASSUME NEW a \in Nat, NEW b \in Nat, NEW c \in Nat, a <= b PROVE a * c <= b * c
  <2>1. b - a \in Nat /\ (b - a) * c \in Nat
    BY <1>3
  <2>2. (b - a) * c = b * c - a * c
    BY <1>3
  <2> QED BY <2>1, <2>2
<1>4. ASSUME NEW a \in Nat, NEW b \in Nat, NEW c \in Nat \ {0}, a > b PROVE a * c > b * c
  <2>1. a - b \in Nat \ {0}
    BY <1>4
  <2>2. (a - b) * c \in Nat \ {0}
    BY <1>2, <2>1
  <2>3. (a - b) * c = a * c - b * c
    BY <1>4
  <2> QED BY <2>2, <2>3
<1>5. ASSUME NEW a \in Nat, NEW b \in Nat, NEW c \in Nat \ {0}, a * c <= b * c PROVE a <= b
  BY <1>4, <1>5
<1> QED BY <1>1, <1>2, <1>3, <1>5

\* Ceil(a, b) is the least number whose b-fold is not below a.
LEMMA CeilLeast ==
    ASSUME NEW a \in Nat, NEW b \in Nat \ {0}
    PROVE  Ceil(a, b) \in Nat /\ \A n \in Nat : Ceil(a, b) <= n <=> a <= n * b
<1> DEFINE d == Ceil(a, b)
           r == (a + b - 1) % b
<1>1. d \in Nat /\ r \in 0..(b - 1) /\ a + b - 1 = b * d + r
  BY DEF Ceil
<1> HIDE DEF d, r
<1>2. ASSUME NEW n \in Nat, d <= n PROVE a <= n * b
  <2>1. d * b <= n * b /\ d * b = b * d /\ d * b \in Nat /\ n * b \in Nat
    BY <1>1, <1>2, Products
  <2> QED BY <1>1, <2>1
<1>3. ASSUME NEW n \in Nat, d > n PROVE a > n * b
  <2>1. (n + 1) * b <= d * b
    BY <1>1, <1>3, Products
  <2>2. (n + 1) * b = n * b + b /\ d * b = b * d /\ d * b \in Nat /\ n * b \in Nat
    BY <1>1
  <2> QED BY <1>1, <2>1, <2>2
<1>4. ASSUME NEW n \in Nat PROVE d <= n <=> a <= n * b
  <2>1. n * b \in Nat
    OBVIOUS
  <2> QED BY <1>1, <1>2, <1>3, <2>1
<1> QED BY <1>1, <1>4 DEF d

\* The paths are finitely many, and no more are usable than are enabled.
LEMMA PathCounts ==
    /\ NumUsable \in Nat /\ NumEnabled \in Nat /\ NumUsable <= NumEnabled
<1>1. IsFiniteSet(Path)
  BY PathAssumption, FS_Interval DEF Path
<1> DEFINE E == {p \in Path : enabled[p]}
<1>2. IsFiniteSet(E) /\ Cardinality(E) \in Nat
  BY <1>1, FS_Subset, FS_CardinalityType
<1>3. Usable \in SUBSET E
  BY DEF Usable
<1>4. IsFiniteSet(Usable) /\ Cardinality(Usable) \in Nat /\ Cardinality(Usable) <= Cardinality(E)
  <2> HIDE DEF E
  <2> QED BY <1>2, <1>3, FS_Subset, FS_CardinalityType
<1> QED BY <1>2, <1>4 DEF NumUsable, NumEnabled

\* The bounds of config_load and MAX_N keep larger numbers larger.
LEMMA ClampFacts ==
    /\ \A n \in Nat : Clamp(n) \in K..MaxN
    /\ \A m, n \in Nat : m <= n => Clamp(m) <= Clamp(n)
BY CodeAssumption DEF Clamp

\* The number of shards before it is clamped, for m live paths.
Shards(m) ==
    IF m = 0 THEN 3 * K
    ELSE IF m = NumEnabled THEN Ceil(K * base_redundancy, RatioUnit)
    ELSE IF base_redundancy * NumEnabled > 3 * RatioUnit * m THEN 3 * K
    ELSE Ceil(K * base_redundancy * NumEnabled, RatioUnit * m)

\* It is a natural number.
LEMMA ShardsType == ASSUME base_redundancy \in Nat, NEW m \in Nat PROVE Shards(m) \in Nat
<1>1. 3 * K \in Nat /\ K * base_redundancy \in Nat /\ RatioUnit \in Nat \ {0}
  BY CodeAssumption, UnitAssumption, Products
<1>2. K * base_redundancy * NumEnabled \in Nat
  BY <1>1, PathCounts, Products
<1>3. m # 0 => RatioUnit * m \in Nat \ {0}
  BY <1>1, Products
<1>4. Ceil(K * base_redundancy, RatioUnit) \in Nat
  BY <1>1, CeilLeast
<1>5. m # 0 => Ceil(K * base_redundancy * NumEnabled, RatioUnit * m) \in Nat
  BY <1>2, <1>3, CeilLeast
<1> QED BY <1>1, <1>4, <1>5, Zenon DEF Shards

\* A block has at least k shards and at most MAX_N.
LEMMA ComputeNType ==
    ASSUME IInv
    PROVE  ComputeN(NumUsable) \in K..MaxN
<1>1. Shards(NumUsable) \in Nat
  BY PathCounts, ShardsType DEF IInv, TypeOK
<1>2. ComputeN(NumUsable) = Clamp(Shards(NumUsable))
  BY DEF ComputeN, Shards
<1> QED BY <1>1, <1>2, ClampFacts

\* strategy_compute_n sends no fewer shards when paths are dead, or as many as
\* MAX_REDUNDANCY stands for, for every k, number of paths and ratio.
LEMMA MoreWhenDead ==
    ASSUME base_redundancy \in Nat, NEW m \in Nat, m <= NumEnabled
    PROVE  Shards(NumEnabled) <= Shards(m) \/ Shards(m) = 3 * K
<1> DEFINE r == base_redundancy
           e == NumEnabled
           u == RatioUnit
<1>1. /\ r \in Nat /\ e \in Nat /\ u \in Nat \ {0} /\ K \in Nat /\ K * r \in Nat
  BY PathCounts, CodeAssumption, UnitAssumption, Products
<1>5. CASE m = e
  <2>1. Shards(e) \in Nat
    BY <1>1, ShardsType
  <2> QED BY <1>5, <2>1
<1>6. CASE m # e /\ m # 0 /\ ~(r * e > 3 * u * m)
  <2> DEFINE n == Ceil(K * r * e, u * m)
  <2>0. e # 0 /\ Shards(e) = Ceil(K * r, u)
    <3>1. e # 0
      BY <1>1, <1>6
    <3> QED BY <3>1, Zenon DEF Shards
  <2>1. K * r * e \in Nat /\ u * m \in Nat \ {0}
    BY <1>1, <1>6, Products
  <2>2. n \in Nat /\ K * r * e <= n * (u * m)
    <3>1. ASSUME NEW a \in Nat, NEW b \in Nat \ {0}
          PROVE  Ceil(a, b) \in Nat /\ a <= Ceil(a, b) * b
      <4>1. Ceil(a, b) \in Nat /\ \A o \in Nat : Ceil(a, b) <= o <=> a <= o * b
        BY CeilLeast
      <4> QED BY <4>1
    <3> QED BY <2>1, <3>1
  <2> HIDE DEF n
  <2>3. n * u \in Nat /\ m * (n * u) <= e * (n * u)
    BY <1>1, <2>2, Products
  <2>4. n * (u * m) = m * (n * u) /\ e * (n * u) = (n * u) * e
    BY <1>1, <2>2
  <2>5. (K * r) * e <= (n * u) * e
    BY <1>1, <2>1, <2>2, <2>3, <2>4
  <2>6. K * r <= n * u
    BY <1>1, <2>0, <2>3, <2>5, Products
  <2>7. Shards(m) = n
    BY <1>6, Zenon DEF Shards, n
  <2>8. Ceil(K * r, u) <= n
    BY <1>1, <2>2, <2>6, CeilLeast
  <2> QED BY <2>0, <2>7, <2>8
<1>7. CASE m # e /\ (m = 0 \/ r * e > 3 * u * m)
  BY <1>7, Zenon DEF Shards
<1> QED BY <1>5, <1>6, <1>7

\* Adaptive redundancy: a block gets at least the shards it would get with
\* every enabled path alive, or those of MAX_REDUNDANCY (strategy_compute_n),
\* whichever paths are dead and whatever the ratio.
THEOREM DeadPathsAdd == Spec => []DeadPathsAddShards
<1>1. IInv => DeadPathsAddShards
  <2> SUFFICES ASSUME IInv PROVE DeadPathsAddShards
    OBVIOUS
  <2>1. base_redundancy \in Nat
    BY DEF IInv, TypeOK
  <2>2. Shards(NumEnabled) <= Shards(NumUsable) \/ Shards(NumUsable) = 3 * K
    BY <2>1, PathCounts, MoreWhenDead
  <2>3. Shards(NumEnabled) \in Nat /\ Shards(NumUsable) \in Nat /\ 3 * K \in Nat
    BY <2>1, PathCounts, ShardsType, CodeAssumption
  <2>4. \A m : ComputeN(m) = Clamp(Shards(m))
    BY Zenon DEF ComputeN, Shards
  <2>5. Clamp(3 * K) \in Nat
    BY CodeAssumption DEF Clamp
  <2>6. CASE Shards(NumEnabled) <= Shards(NumUsable)
    BY <2>3, <2>4, <2>6, ClampFacts DEF DeadPathsAddShards
  <2>7. CASE Shards(NumUsable) = 3 * K
    BY <2>4, <2>5, <2>7 DEF DeadPathsAddShards
  <2> QED BY <2>2, <2>6, <2>7
<1> QED BY <1>1, CreditInvariance, PTL

-----------------------------------------------------------------------------
(***************************************************************************)
(* Hysteresis.  After n echoes the loss rate of a path that loss has       *)
(* killed is still the n-fold fading of the threshold, or above.           *)
(***************************************************************************)
\* Every nonempty set of natural numbers has a least element.
LEMMA LeastNatural ==
    ASSUME NEW T, T \subseteq Nat, T # {}
    PROVE  \E n \in T : \A m \in T : n <= m
<1> DEFINE Less == {ss \in Nat \X Nat : ss[1] < ss[2]}
<1>1. IsWellFoundedOn(Less, Nat)
  BY NatLessThanWellFounded, Zenon DEF OpToRel
<1> HIDE DEF Less
<1>2. PICK n \in T : \A m \in T : ~(<<m, n>> \in Less)
  BY <1>1, WFMin
<1>3. \A m \in T : ~(m < n)
  BY <1>2 DEF Less
<1> QED BY <1>2, <1>3

\* Induction up to a bound.
LEMMA Induct ==
    ASSUME NEW n \in Nat, NEW T, 0 \in T,
           \A i \in 0..(n - 1) : i \in T => i + 1 \in T
    PROVE  0..n \subseteq T
<1> DEFINE Bad == {i \in 0..n : i \notin T}
<1> SUFFICES ASSUME Bad # {} PROVE FALSE
  OBVIOUS
<1>0. Bad \subseteq Nat
  OBVIOUS
<1> HIDE DEF Bad
<1>1. PICK i \in Bad : \A m \in Bad : i <= m
  BY <1>0, LeastNatural
<1> USE DEF Bad
<1>2. i # 0 /\ i - 1 \in 0..(n - 1) /\ i - 1 \notin Bad
  BY <1>1
<1> QED BY <1>1, <1>2

\* f holds the first m + 1 steps of a fading from z, by r in LossUnit a step.
IsFading(f, z, r, m) ==
    f = [n \in 0..m |-> IF n = 0 THEN z ELSE (r * f[n - 1]) \div LossUnit]

\* The recursion has a solution.
LEMMA FadingExists == ASSUME NEW z, NEW r, NEW m \in Nat PROVE \E f : IsFading(f, z, r, m)
<1> DEFINE Good == {j \in Nat : \E f : IsFading(f, z, r, j)}
<1>1. 0 \in Good
  <2> DEFINE f0 == [i \in 0..0 |-> z]
  <2>1. IsFading(f0, z, r, 0)
    BY DEF IsFading
  <2> QED BY <2>1
<1>2. ASSUME NEW j \in 0..(m - 1), j \in Good PROVE j + 1 \in Good
  <2>1. PICK f : IsFading(f, z, r, j)
    BY <1>2
  <2> DEFINE g == [i \in 0..(j + 1) |-> IF i = j + 1 THEN (r * f[j]) \div LossUnit ELSE f[i]]
  <2>2. \A i \in 0..(j + 1) : g[i] = IF i = 0 THEN z ELSE (r * g[i - 1]) \div LossUnit
    BY <2>1 DEF IsFading
  <2>3. IsFading(g, z, r, j + 1)
    BY <2>2 DEF IsFading
  <2> QED BY <2>3
<1> HIDE DEF Good
<1>3. 0..m \subseteq Good
  BY <1>1, <1>2, Induct
<1> QED BY <1>3 DEF Good

\* The rate a path starts from when it is killed.
Killed(c) == IF c.probe_loss_threshold < 0 THEN 0 ELSE c.probe_loss_threshold + 1

\* The fading step by step.
LEMMA FadedSteps ==
    ASSUME NEW c \in ConfigType
    PROVE  /\ Faded(c)[0] = Killed(c)
           /\ \A n \in 0..(DampEchoes - 1) :
                 Faded(c)[n + 1] = ((LossUnit - Alpha(c)) * Faded(c)[n]) \div LossUnit
           /\ \A n \in 0..DampEchoes : Faded(c)[n] \in Nat
<1> DEFINE f == Faded(c)
           r == LossUnit - Alpha(c)
<1>1. DampEchoes \in Nat /\ LossUnit \in Nat \ {0} /\ r \in Nat /\ Killed(c) \in Nat
  BY UnitAssumption, AlphaType DEF Killed, ConfigType
<1>2. IsFading(f, Killed(c), r, DampEchoes)
  <2>1. \E u : IsFading(u, Killed(c), r, DampEchoes)
    BY <1>1, FadingExists
  <2> QED BY <2>1 DEF Faded, IsFading, Killed
<1> HIDE DEF f, r
<1>3. f[0] = Killed(c)
  BY <1>1, <1>2 DEF IsFading
<1>4. ASSUME NEW n \in 0..(DampEchoes - 1) PROVE f[n + 1] = (r * f[n]) \div LossUnit
  <2>1. n + 1 \in 0..DampEchoes /\ n + 1 # 0 /\ (n + 1) - 1 = n
    BY <1>1
  <2> QED BY <1>2, <2>1 DEF IsFading
<1> DEFINE T == {n \in 0..DampEchoes : f[n] \in Nat}
<1>5. 0 \in T
  BY <1>1, <1>3
<1>6. ASSUME NEW n \in 0..(DampEchoes - 1), n \in T PROVE n + 1 \in T
  <2>1. r * f[n] \in Nat
    BY <1>1, <1>6
  <2>2. f[n + 1] \in Nat
    BY <1>1, <1>4, <2>1
  <2> QED BY <1>1, <2>2
<1> HIDE DEF T
<1>7. 0..DampEchoes \subseteq T
  BY <1>1, <1>5, <1>6, Induct
<1> QED BY <1>3, <1>4, <1>7 DEF T, f, r

\* The loss rate of each path is at least what the echoes since the last loss
\* that counted can have left, under the configuration in use.
Lingers(c) ==
    /\ loss_threshold = c.probe_loss_threshold /\ ewma_alpha = Alpha(c)
    /\ \A p \in Path : echoes[p] < DampEchoes => loss_rate[p] >= Faded(c)[echoes[p]]

LossInv == \E c \in Config \cup {InitialConfig} : Lingers(c)

\* An echo fades the rate, and a lost probe raises it.
LEMMA EwmaBounds ==
    ASSUME NEW u \in Nat \ {0}, NEW a \in 1..u, NEW x \in 0..u, NEW y \in 0..u
    PROVE  /\ y <= x => ((u - a) * y) \div u <= ((u - a) * x) \div u
           /\ x <= (a * u + (u - a) * x) \div u
<1>1. u - a \in Nat /\ (u - a) * y \in Nat /\ (u - a) * x \in Nat /\ a * (u - x) \in Nat
  OBVIOUS
<1>2. y <= x => (u - a) * y <= (u - a) * x
  <2> SUFFICES ASSUME y <= x PROVE (u - a) * y <= (u - a) * x
    OBVIOUS
  <2>1. x - y \in Nat /\ (u - a) * (x - y) = (u - a) * x - (u - a) * y
    OBVIOUS
  <2>2. (u - a) * (x - y) \in Nat
    BY <1>1, <2>1
  <2> QED BY <1>1, <2>1, <2>2
<1>3. a * u + (u - a) * x = a * (u - x) + u * x
  OBVIOUS
<1>4. \A v, w \in Nat : v <= w => v \div u <= w \div u
  OBVIOUS
<1>5. (u * x) \div u = x /\ u * x \in Nat
  OBVIOUS
<1>6. x <= (a * u + (u - a) * x) \div u
  <2>1. u * x <= a * (u - x) + u * x /\ a * (u - x) + u * x \in Nat
    BY <1>1, <1>5
  <2> QED BY <1>3, <1>4, <1>5, <2>1
<1> QED BY <1>1, <1>2, <1>4, <1>6

\* strategy_update_probe: a loss above the threshold begins a new count, any
\* other call moves the rate no further than the count.
LEMMA ProbeLingers ==
    ASSUME IInv, NEW c \in ConfigType, Lingers(c),
           NEW p \in Path, NEW received \in BOOLEAN, UpdateProbe(p, received)
    PROVE  Lingers(c)'
<1> DEFINE l == Ewma(p, received)
           e == echoes'[p]
<1>1. /\ LossUnit \in Nat \ {0} /\ DampEchoes \in Nat /\ ewma_alpha \in 1..LossUnit
      /\ loss_rate[p] \in 0..LossUnit /\ echoes[p] \in 0..DampEchoes
      /\ ewma_alpha = Alpha(c) /\ loss_threshold = c.probe_loss_threshold
      /\ loss_threshold \in Int
  BY UnitAssumption DEF IInv, TypeOK, Lingers
<1>2. /\ loss_rate'[p] = l
      /\ e = IF ~received /\ Kills(l) THEN 0
             ELSE IF received /\ echoes[p] < DampEchoes THEN echoes[p] + 1 ELSE echoes[p]
      /\ \A q \in Path \ {p} : loss_rate'[q] = loss_rate[q] /\ echoes'[q] = echoes[q]
      /\ UNCHANGED <<loss_threshold, ewma_alpha>>
  BY DEF UpdateProbe, IInv, TypeOK, parameters
<1>3. l \in 0..LossUnit
  <2>1. IInv'
    BY UpdateProbeInv
  <2> QED BY <1>2, <2>1 DEF IInv, TypeOK
<1>4. ASSUME e < DampEchoes PROVE l >= Faded(c)[e]
  <2>1. CASE ~received /\ Kills(l)
    <3>1. e = 0 /\ l >= Killed(c)
      BY <1>1, <1>2, <1>3, <2>1 DEF Kills, Killed
    <3> QED BY <3>1, FadedSteps
  <2>2. CASE ~received /\ ~Kills(l)
    <3>1. l = (ewma_alpha * LossUnit + (LossUnit - ewma_alpha) * loss_rate[p]) \div LossUnit
      BY <2>2 DEF Ewma, Observed
    <3>2. loss_rate[p] <= l
      BY <1>1, <3>1, EwmaBounds
    <3>3. e = echoes[p] /\ loss_rate[p] >= Faded(c)[echoes[p]] /\ Faded(c)[echoes[p]] \in Nat
      BY <1>1, <1>2, <1>4, <2>2, FadedSteps DEF Lingers
    <3> HIDE DEF l, e
    <3> QED BY <1>1, <1>3, <3>2, <3>3
  <2>3. CASE received
    <3>1. e = echoes[p] + 1 /\ echoes[p] \in 0..(DampEchoes - 1)
      BY <1>1, <1>2, <1>4, <2>3
    <3> DEFINE y == Faded(c)[echoes[p]]
    <3>2. Faded(c)[e] = ((LossUnit - ewma_alpha) * y) \div LossUnit
      BY <1>1, <3>1, FadedSteps
    <3>3. l = ((LossUnit - ewma_alpha) * loss_rate[p]) \div LossUnit
      BY <1>1, <2>3 DEF Ewma, Observed
    <3>4. y \in Nat /\ y <= loss_rate[p]
      BY <1>1, <3>1, FadedSteps DEF Lingers
    <3> HIDE DEF y, l, e
    <3>5. y \in 0..LossUnit
      BY <1>1, <3>4
    <3>6. ((LossUnit - ewma_alpha) * y) \div LossUnit
             <= ((LossUnit - ewma_alpha) * loss_rate[p]) \div LossUnit
      BY <1>1, <3>4, <3>5, EwmaBounds
    <3> QED BY <1>1, <1>3, <3>2, <3>3, <3>6
  <2> QED BY <2>1, <2>2, <2>3
<1> HIDE DEF l, e
<1>5. ASSUME NEW q \in Path, echoes'[q] < DampEchoes PROVE loss_rate'[q] >= Faded(c)[echoes'[q]]
  <2>1. CASE q = p
    BY <1>2, <1>4, <1>5, <2>1 DEF e
  <2>2. CASE q # p
    BY <1>2, <1>5, <2>2 DEF Lingers
  <2> QED BY <2>1, <2>2
<1> QED BY <1>1, <1>2, <1>5 DEF Lingers

\* Every call.
LEMMA LossNext == ASSUME IInv, LossInv, [Next]_svars PROVE LossInv'
<1>1. PICK c \in Config \cup {InitialConfig} : Lingers(c)
  BY DEF LossInv
<1>2. c \in ConfigType
  BY ConfigAssumption
<1>3. CASE UNCHANGED <<loss_threshold, ewma_alpha, echoes, loss_rate>>
  BY <1>1, <1>3 DEF LossInv, Lingers
<1>4. ASSUME NEW p \in Path, NEW received \in BOOLEAN, UpdateProbe(p, received) PROVE LossInv'
  BY <1>1, <1>2, <1>4, ProbeLingers DEF LossInv
<1>5. ASSUME NEW d \in Config, Reload(d) PROVE LossInv'
  <2>1. \A p \in Path : ~(echoes'[p] < DampEchoes)
    BY <1>5, UnitAssumption DEF Reload
  <2>2. Lingers(d)'
    BY <1>5, <2>1 DEF Reload, Lingers
  <2> QED BY <2>2 DEF LossInv
<1> QED BY <1>3, <1>4, <1>5 DEF Next, NextPath, PickNone, Pick, svars, parameters

\* A path that loss has killed is not used before DampEchoes echoes have come
\* back, for every threshold and alpha, every order of losses and echoes and
\* every reload in between: fewer cannot bring the loss rate that
\* strategy_update_probe keeps below half the threshold.
THEOREM HysteresisHolds == Spec => HysteresisDamps
<1>1. Init => LossInv
  <2> SUFFICES ASSUME Init PROVE Lingers(InitialConfig)
    BY DEF LossInv
  <2> QED BY UnitAssumption DEF Init, Lingers
<1>2. IInv /\ LossInv /\ [Next]_svars => LossInv'
  BY LossNext
<1>3. IInv /\ IInv' /\ LossInv /\ LossInv' /\ [Next]_svars
        => [\A p \in Path : (alive'[p] /\ ~alive[p]) => echoes'[p] >= DampEchoes]_svars
  <2> SUFFICES ASSUME IInv, IInv', LossInv', Next, NEW p \in Path, alive'[p], ~alive[p],
                      echoes'[p] < DampEchoes
               PROVE  FALSE
    BY UnitAssumption DEF IInv, TypeOK
  <2>1. PICK q \in Path, received \in BOOLEAN : UpdateProbe(q, received)
    BY DEF Next, NextPath, PickNone, Pick, Reload, svars
  <2>2. PICK c \in Config \cup {InitialConfig} : Lingers(c)'
    BY DEF LossInv
  <2>3. 2 * loss_rate'[p] < loss_threshold
    <3>1. q = p /\ Revives(loss_rate'[p])
      BY <2>1 DEF UpdateProbe, IInv, TypeOK
    <3>2. loss_threshold' = loss_threshold
      BY <2>1 DEF UpdateProbe, parameters
    <3> QED BY <3>1, <3>2 DEF Revives
  <2>4. loss_threshold' = loss_threshold /\ loss_threshold = c.probe_loss_threshold
    BY <2>1, <2>2 DEF UpdateProbe, parameters, Lingers
  <2> DEFINE n == echoes'[p]
  <2>5. n \in 0..(DampEchoes - 1) /\ loss_rate'[p] >= Faded(c)[n]
    BY <2>2, UnitAssumption DEF Lingers, IInv, TypeOK
  <2>6. 2 * Faded(c)[n] >= c.probe_loss_threshold
    BY <2>5, DampAssumption DEF Damping
  <2>7. Faded(c)[n] \in Nat /\ loss_rate'[p] \in Nat /\ loss_threshold \in Int
    <3>1. c \in ConfigType
      BY ConfigAssumption
    <3>2. loss_rate'[p] \in 0..LossUnit /\ LossUnit \in Nat
      BY UnitAssumption DEF IInv, TypeOK
    <3> QED BY <2>5, <3>1, <3>2, FadedSteps DEF IInv, TypeOK
  <2> HIDE DEF n
  <2> QED BY <2>3, <2>4, <2>5, <2>6, <2>7
<1> QED BY <1>1, <1>2, <1>3, CreditInvariance, PTL DEF Spec, HysteresisDamps
=============================================================================
