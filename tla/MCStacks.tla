------------------------------ MODULE MCStacks ------------------------------
(***************************************************************************)
(* Adaptive limits with defaults, with marks and limits of their own, with *)
(* no room between the marks, and without a LoadFunc.                      *)
(***************************************************************************)
EXTENDS Stacks

MCAdaptiveConfigs ==
    {[BaseLimit |-> 3, MinLimit |-> 0, MaxLimit |-> 0,
      HighLoadMark |-> 0, LowLoadMark |-> 0, LoadFunc |-> TRUE],
     [BaseLimit |-> 3, MinLimit |-> 2, MaxLimit |-> 9,
      HighLoadMark |-> 90, LowLoadMark |-> 30, LoadFunc |-> TRUE],
     [BaseLimit |-> 3, MinLimit |-> 1, MaxLimit |-> 4,
      HighLoadMark |-> 50, LowLoadMark |-> 50, LoadFunc |-> TRUE],
     [BaseLimit |-> 3, MinLimit |-> 1, MaxLimit |-> 4,
      HighLoadMark |-> 0, LowLoadMark |-> 0, LoadFunc |-> FALSE]}
=============================================================================
