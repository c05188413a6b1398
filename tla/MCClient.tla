------------------------------- MODULE MCClient -------------------------------
(* Instances of module Client: the daemons of three versions, and one that   *)
(* says it has search3 and has not.                                         *)
EXTENDS Client

Old   == {"ping", "stats", "search", "rebuild"}
MCKinds ==
  {[lists |-> {}, knows |-> Old],
   [lists |-> {"search2"}, knows |-> Old \union {"capabilities", "search2", "count2"}],
   [lists |-> {"search2", "search3"}, knows |-> Old \union {"capabilities", "search2", "count2", "search3"}],
   [lists |-> {"search3"}, knows |-> Old \union {"capabilities"}]}
=============================================================================
