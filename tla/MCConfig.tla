------------------------------ MODULE MCConfig ------------------------------
(***************************************************************************)
(* TLC instances of Config: files of a few lines, in any order.            *)
(***************************************************************************)
EXTENDS Config

HeaderLine(s)  == [kind |-> "header", section |-> s]
KeyLine(x, t)  == [kind |-> "key", key |-> x, val |-> Plain(t)]
Commented(l)   == [l EXCEPT !.val.comment = TRUE]

MCLine == {
    HeaderLine("general"), HeaderLine("coding"), HeaderLine("forward"),
    HeaderLine("path.a"), HeaderLine("path.b"), [kind |-> "ignored"],
    KeyLine("mode", "both"), Commented(KeyLine("mode", "tx")),
    KeyLine("crypto_key", "64 hex"), Commented(KeyLine("crypto_key", "")),
    KeyLine("k", "99"), KeyLine("k", "0"), KeyLine("route", "10.20.0.0/24"),
    KeyLine("enabled", "false"), KeyLine("weight", "2")}

MCNumber == [t \in {v.text : v \in Value} |->
    CASE t = "4" -> 4 [] t = "8" -> 8 [] t = "99" -> 99 [] t = "1400" -> 1400
      [] t = "7000" -> 7000 [] t = "100" -> 100 [] t = "5" -> 5 [] t = "2" -> 2
      [] t \in {"1.0", "1.5"} -> 1 [] t = "64 hex" -> 64 [] t = "10.20.0.0/24" -> 10
      [] OTHER -> 0]
=============================================================================
