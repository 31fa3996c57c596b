--------------------------- MODULE MCCapabilities ---------------------------
(* Two capabilities with prefixes, one with rights and one with legacy     *)
(* actions, which may list and read and not open.  The file service runs   *)
(* in another directory.  An absolute path is refused even under a prefix. *)
EXTENDS Capabilities, TLC

CONSTANT c1

MCClaims ==
  [c \in Caps |->
     IF c = c1 THEN [Service |-> "fs", Rights |-> {<<"fs", "open">>, <<"fs", "read">>},
                     Actions |-> {}, PathPrefix |-> <<"", "tmp">>]
               ELSE [Service |-> "fs", Rights |-> {}, Actions |-> {"list", "read"},
                     PathPrefix |-> <<"", "srv">>]]

MCwd == <<"", "run">>

Relative == <<"notes">>
Absolute == <<"", "tmp", "notes">>

OnePath == {Relative}
TwoPaths == {Relative, Absolute}

CallSymmetry == Permutations(Calls)
=============================================================================
