----------------------------- MODULE MCAnswers -----------------------------
(* Answers for TLC: two transactions, one of which has up to two parts     *)
(* when it is split, two dates, pages of one line or two.  Both kinds of   *)
(* line are of one category: one counts, though it is a transfer, and one  *)
(* does not, for its account is off budget.  The client asks for the       *)
(* first, with a filter nothing passes, and for either date as a whole     *)
(* when it cites.                                                          *)
EXTENDS Answers

MCParent     == [s \in Subs |-> 1]
MCCategoryOf == [k \in Kinds |-> "loans"]
MCFilters    == [from : {1}, to : {2}, kinds : {{"loan payment"}, {}}]
MCPeriod     == <<2, 2>>
MCBaseline   == <<1, 1>>
=============================================================================
