---------------------------- MODULE MCDataPath ------------------------------
(***************************************************************************)
(* TLC instances of DataPath: bytes, and packets of 20, 41 (IPv6) and 60   *)
(* bytes in blocks of three.                                               *)
(***************************************************************************)
EXTENDS DataPath

MCHeader == [x \in Elem |->
    CASE x = {6, 0} -> [version |-> 4, length |-> 20]
      [] x = {6, 1} -> [version |-> 4, length |-> 60]
      [] x = {6, 5} -> [version |-> 6, length |-> 1]
      [] OTHER      -> [version |-> 0, length |-> 0]]

Bytes(n, first, rest) == [x \in Below(n) |-> IF x = 0 THEN first ELSE rest]

MCTraffic == {[len |-> 20, bytes |-> Bytes(20, {6, 0}, {1})],
              [len |-> 41, bytes |-> Bytes(41, {6, 5}, {0, 7})],
              [len |-> 60, bytes |-> Bytes(60, {6, 1}, {3, 4, 5})]}
=============================================================================
