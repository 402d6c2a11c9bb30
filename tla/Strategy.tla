------------------------------ MODULE Strategy ------------------------------
(***************************************************************************)
(* The path scheduler, src/strategy.c: weighted round robin by credits,    *)
(* the redundancy of a block, the probe feedback with its hysteresis, and  *)
(* the hot reload.  One action per function; no call overlaps another.     *)
(*                                                                         *)
(* The floats of the code are integers here: weights count halves (so that *)
(* roundf still rounds), redundancy ratios count 1/RatioUnit, loss rates   *)
(* and the EWMA's alpha count 1/LossUnit, rounded down.  Round-trip times  *)
(* and probe counters decide nothing and are left out; so is the strategy  *)
(* type, which no function reads.                                          *)
(***************************************************************************)
EXTENDS Integers, FiniteSets

CONSTANTS
    NumPaths,       \* path_count of the configuration the process starts with
    MaxN,           \* MAX_N
    K,              \* cfg.k, clamped to 1..MAX_K by config_load
    Config,         \* the configurations the file may hold at a reload
    InitialConfig,  \* the one strategy_init is called with
    LossUnit,       \* loss_rate = 1.0f
    RatioUnit,      \* redundancy_ratio = 1.0f
    DampEchoes      \* echoes that bring a loss rate above 1x below 0.5x

Path == 0..(NumPaths - 1)

ConfigType == [path_count : Nat, enabled : [Path -> BOOLEAN], weight : [Path -> Int],
               redundancy_ratio : Nat, probe_loss_threshold : Int, ewma_alpha : Int]

ASSUME PathAssumption == NumPaths \in Nat
ASSUME CodeAssumption == MaxN \in Nat /\ K \in Nat \ {0} /\ K <= MaxN
ASSUME UnitAssumption ==
    /\ LossUnit \in Nat \ {0} /\ RatioUnit \in Nat \ {0} /\ DampEchoes \in Nat
    /\ LossUnit \div 5 \in 1..LossUnit
ASSUME ConfigAssumption == Config \subseteq ConfigType /\ InitialConfig \in ConfigType

\* An alpha outside (0, 1] is replaced by 0.2.
Alpha(c) == IF c.ewma_alpha \in 1..LossUnit THEN c.ewma_alpha ELSE LossUnit \div 5

\* The lowest loss rate after n echoes, once loss has killed a path under c.
Faded(c) ==
    LET t == c.probe_loss_threshold
        f[n \in 0..DampEchoes] == IF n = 0 THEN (IF t < 0 THEN 0 ELSE t + 1)
                                  ELSE ((LossUnit - Alpha(c)) * f[n - 1]) \div LossUnit
    IN  f

\* DampEchoes is what its name says: no fewer echoes bring the rate below half
\* the threshold, under any of the configurations.
Damping(c) == \A n \in 0..(DampEchoes - 1) : 2 * Faded(c)[n] >= c.probe_loss_threshold
ASSUME DampAssumption == \A c \in Config \cup {InitialConfig} : Damping(c)

VARIABLES
    enabled,          \* paths[i].cfg.enabled
    weight,           \* paths[i].weight_current
    alive,            \* paths[i].alive
    loss_rate,        \* paths[i].loss_rate
    path_credit,      \* path_credit[i]
    base_redundancy, loss_threshold, ewma_alpha,
    used,             \* history: shards given to i since its credit was last set
    echoes            \* history: echoes since i's loss rate was above the threshold

svars == <<enabled, weight, alive, loss_rate, path_credit,
           base_redundancy, loss_threshold, ewma_alpha, used, echoes>>

parameters == <<base_redundancy, loss_threshold, ewma_alpha>>

(***************************************************************************)
(* strategy_init.                                                          *)
(***************************************************************************)
\* Mutant: a weight below one half rounds to a quota of zero.
QuotaUnclamped(w) == (w + 1) \div 2

\* The credit of a weight: (int)roundf(weight), at least 1.
Quota(w) == IF (w + 1) \div 2 < 1 THEN 1 ELSE (w + 1) \div 2

Init ==
    /\ enabled = InitialConfig.enabled
    /\ weight = InitialConfig.weight
    /\ alive = InitialConfig.enabled
    /\ loss_rate = [p \in Path |-> 0]
    /\ path_credit = [p \in Path |-> Quota(weight[p])]
    /\ base_redundancy = InitialConfig.redundancy_ratio
    /\ loss_threshold = InitialConfig.probe_loss_threshold
    /\ ewma_alpha = Alpha(InitialConfig)
    /\ used = [p \in Path |-> 0]
    /\ echoes = [p \in Path |-> DampEchoes]

-----------------------------------------------------------------------------
(***************************************************************************)
(* strategy_next_path.                                                     *)
(***************************************************************************)
Usable == {p \in Path : enabled[p] /\ alive[p]}

\* Mutant: credits are refilled as soon as one path has none left.
NeedRefillAny == \E p \in Usable : path_credit[p] <= 0

NeedRefill == \A p \in Usable : path_credit[p] <= 0

Refilled(f, g) == [p \in Path |-> IF NeedRefill /\ p \in Usable THEN g[p] ELSE f[p]]
Credit == Refilled(path_credit, [p \in Path |-> Quota(weight[p])])

\* The usable path of highest credit, the lowest index among equals.
Best(p) == /\ p \in Usable
           /\ \A q \in Usable : Credit[q] < Credit[p] \/ (Credit[q] = Credit[p] /\ p <= q)

Pick(p) ==
    /\ Best(p)
    /\ path_credit' = [Credit EXCEPT ![p] = @ - 1]
    /\ used' = [Refilled(used, [q \in Path |-> 0]) EXCEPT ![p] = @ + 1]
    /\ UNCHANGED <<enabled, weight, alive, loss_rate, parameters, echoes>>

\* strategy_next_path returns -1.
PickNone == Usable = {} /\ UNCHANGED svars

NextPath == PickNone \/ \E p \in Path : Pick(p)

(***************************************************************************)
(* strategy_compute_n, for m live paths out of the enabled ones.           *)
(***************************************************************************)
NumEnabled == Cardinality({p \in Path : enabled[p]})
NumUsable  == Cardinality(Usable)

Ceil(a, b) == (a + b - 1) \div b
Clamp(n)   == IF n < K THEN K ELSE IF n > MaxN THEN MaxN ELSE n

\* Mutant: the ratio is scaled by the share of paths that live.
ComputeNScaledDown(m) ==
    Clamp(IF m = 0 \/ m = NumEnabled THEN Ceil(K * base_redundancy, RatioUnit)
          ELSE Ceil(K * base_redundancy * m, RatioUnit * NumEnabled))

\* The ratio is capped at MAX_REDUNDANCY = 3.0f only when paths are dead.
ComputeN(m) ==
    Clamp(IF m = 0 THEN 3 * K
          ELSE IF m = NumEnabled THEN Ceil(K * base_redundancy, RatioUnit)
          ELSE IF base_redundancy * NumEnabled > 3 * RatioUnit * m THEN 3 * K
          ELSE Ceil(K * base_redundancy * NumEnabled, RatioUnit * m))

(***************************************************************************)
(* strategy_update_probe.                                                  *)
(***************************************************************************)
Observed(received) == IF received THEN 0 ELSE LossUnit
Ewma(p, received) ==
    (ewma_alpha * Observed(received) + (LossUnit - ewma_alpha) * loss_rate[p]) \div LossUnit

\* Mutant: a path dies and revives at the same threshold.
RevivesAtThreshold(l) == l < loss_threshold

Kills(l)   == l > loss_threshold
Revives(l) == 2 * l < loss_threshold

UpdateProbe(p, received) ==
    LET l == Ewma(p, received)
    IN  /\ loss_rate' = [loss_rate EXCEPT ![p] = l]
        /\ alive' = [alive EXCEPT ![p] = Revives(l) \/ (@ /\ ~Kills(l))]
        /\ IF Revives(l)
           THEN /\ path_credit' = [path_credit EXCEPT ![p] = Quota(weight[p])]
                /\ used' = [used EXCEPT ![p] = 0]
           ELSE UNCHANGED <<path_credit, used>>
        /\ echoes' = [echoes EXCEPT ![p] =
                        IF ~received /\ Kills(l) THEN 0
                        ELSE IF received /\ @ < DampEchoes THEN @ + 1 ELSE @]
        /\ UNCHANGED <<enabled, weight, parameters>>

(***************************************************************************)
(* strategy_reload.  Only the paths of both configurations are updated.    *)
(***************************************************************************)
\* Mutant: the new weights leave the credits of the old ones.
ReloadKeepsCredit(c) ==
    LET common == {p \in Path : p < c.path_count}
    IN  /\ base_redundancy' = c.redundancy_ratio
        /\ loss_threshold' = c.probe_loss_threshold
        /\ ewma_alpha' = Alpha(c)
        /\ weight' = [p \in Path |-> IF p \in common THEN c.weight[p] ELSE weight[p]]
        /\ enabled' = [p \in Path |-> IF p \in common THEN c.enabled[p] ELSE enabled[p]]
        /\ alive' = [p \in Path |-> alive[p] /\ (p \in common => c.enabled[p])]
        /\ echoes' = [p \in Path |-> DampEchoes]
        /\ UNCHANGED <<loss_rate, path_credit, used>>

Reload(c) ==
    LET common == {p \in Path : p < c.path_count}
        set    == {p \in common : c.enabled[p]}
    IN  /\ base_redundancy' = c.redundancy_ratio
        /\ loss_threshold' = c.probe_loss_threshold
        /\ ewma_alpha' = Alpha(c)
        /\ weight' = [p \in Path |-> IF p \in common THEN c.weight[p] ELSE weight[p]]
        /\ enabled' = [p \in Path |-> IF p \in common THEN c.enabled[p] ELSE enabled[p]]
        /\ alive' = [p \in Path |-> alive[p] /\ (p \in common => c.enabled[p])]
        /\ path_credit' = [p \in Path |-> IF p \in set THEN Quota(c.weight[p])
                                                        ELSE path_credit[p]]
        /\ used' = [p \in Path |-> IF p \in set THEN 0 ELSE used[p]]
        /\ echoes' = [p \in Path |-> DampEchoes]
        /\ UNCHANGED loss_rate

Next ==
    \/ NextPath
    \/ \E p \in Path, received \in BOOLEAN : UpdateProbe(p, received)
    \/ \E c \in Config : Reload(c)

Spec == Init /\ [][Next]_svars

-----------------------------------------------------------------------------
(***************************************************************************)
(* Properties.                                                             *)
(***************************************************************************)

\* Every variable keeps its type; loss rates stay between 0 and 1 and a
\* credit is never negative: strategy_next_path never takes the credit of a
\* path that has none.
TypeOK ==
    /\ enabled \in [Path -> BOOLEAN]
    /\ weight \in [Path -> Int]
    /\ alive \in [Path -> BOOLEAN]
    /\ loss_rate \in [Path -> 0..LossUnit]
    /\ path_credit \in [Path -> Nat]
    /\ base_redundancy \in Nat
    /\ loss_threshold \in Int
    /\ ewma_alpha \in 1..LossUnit
    /\ used \in [Path -> Nat]
    /\ echoes \in [Path -> 0..DampEchoes]

\* What an enabled path was given and what it still may be given add up to
\* its quota, through refills, probe echoes and reloads of the weights.
CreditBalance ==
    \A p \in Path : enabled[p] => used[p] + path_credit[p] = Quota(weight[p])

IInv == TypeOK /\ CreditBalance

\* Weighted round robin is exact: credits are refilled only when every usable
\* path has been given, since its credit was last set, precisely as many
\* shards as its rounded weight (strategy_next_path).
ExactShares ==
    [][\A p \in Path : (Pick(p) /\ NeedRefill)
            => \A q \in Usable : used[q] = Quota(weight[q])]_svars

\* Hysteresis: a path that loss has killed is not used again before at least
\* DampEchoes echoes have come back, however losses and echoes alternate, as
\* long as the configuration stays (strategy_update_probe).
HysteresisDamps ==
    [][\A p \in Path : (alive'[p] /\ ~alive[p]) => echoes'[p] >= DampEchoes]_svars

\* strategy.h: "Adaptive mode scales redundancy up when paths are dead."  With
\* any ratio a block gets at least the shards it would get with every enabled
\* path alive, or those that MAX_REDUNDANCY stands for: the cap, which
\* strategy_compute_n applies only when paths are dead, takes no more away from
\* a ratio above it.
DeadPathsAddShards ==
    \/ ComputeN(NumUsable) >= ComputeN(NumEnabled)
    \/ ComputeN(NumUsable) >= Clamp(3 * K)
=============================================================================
