------------------------------- MODULE MCCalc -------------------------------
EXTENDS CalcLink

(* For an int of four bits: sums and products that overflow, quotients     *)
(* that are rounded, divisors 0 and -1, and an operator that is none.      *)
Lines == {<<7, "+", 1>>, <<-8, "-", 1>>, <<5, "*", -3>>, <<-7, "/", 2>>,
          <<-7, "%", 2>>, <<-8, "/", -1>>, <<-8, "%", -1>>, <<1, "/", 0>>,
          <<1, "%", 0>>, <<2, "?", 2>>}

(* The values of callback alone, for every pair of ints of four bits.      *)
ASSUME EveryValue ==
  \A x, y \in Ints, op \in {"+", "-", "*", "/", "%", "?"} :
    Traps(<<x, op, y>>) \/ Calc!IsAnswer(<<x, op, y>>, Callback(<<x, op, y>>))
=============================================================================
