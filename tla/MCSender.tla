------------------------------ MODULE MCSender ------------------------------
(***************************************************************************)
(* TLC instances of Sender: k = 2 packets a block, times in ticks.         *)
(***************************************************************************)
EXTENDS Sender

CONSTANTS
    InitialWeights,   \* the weights at the start, counted in halves
    Ratio             \* redundancy_ratio, counted in halves

\* All paths enabled; short block timeout.
AllOn == [path_count |-> NumPaths, enabled |-> [p \in 0..(NumPaths - 1) |-> TRUE],
          weight |-> InitialWeights,
          redundancy_ratio |-> Ratio, probe_loss_threshold |-> 6, ewma_alpha |-> 4]

\* The last path disabled.
LastOff == [AllOn EXCEPT !.enabled[NumPaths - 1] = FALSE]

\* The first path disabled.
FirstOff == [AllOn EXCEPT !.enabled[0] = FALSE]

MCConfig == {AllOn, LastOff}

TwoOne == [p \in 0..1 |-> IF p = 0 THEN 4 ELSE 2]
Even   == [p \in 0..(NumPaths - 1) |-> 2]

MCBlockTimeout(c)  == IF c = AllOn THEN 2 ELSE 1
MCProbeInterval(c) == 2
OneTick(c) == 1

\* Every path has an address of its own, from which its echoes come.
OwnAddress == [p \in 0..(NumPaths - 1) |-> p]
OwnSource  == [p \in 0..(NumPaths - 1) |-> {p}]

\* An echo of the second path may also come from the address of the first.
CrossSource == [p \in 0..1 |-> 0..p]

\* Both paths have the address 7.  An echo of the second may also come from an
\* address of no path.
SharedAddress == [p \in 0..1 |-> 7]
StraySource   == [p \in 0..1 |-> IF p = 1 THEN {7, 9} ELSE {7}]
=============================================================================
