------------------------------ MODULE MCPolicy ------------------------------
(* Tokens with a whole rate, a fractional rate, a rate_limit that          *)
(* parseRate refuses, and none at all; with an absolute, a relative, the   *)
(* root and no path_prefix.                                                *)
EXTENDS Policy

MCRate == [c \in Caps |-> CASE c = "2rps" -> 4 [] c = "1.5rps" -> 3 [] c = "0rps" -> 0]

claim(prefix) ==
  [Service |-> "fs", Rights |-> {<<"fs", "open">>}, Actions |-> {}, PathPrefix |-> prefix]

MCClaims ==
  [c \in Tokens |->
     CASE c = "1.5rps" -> claim(<<"", "data", "a">>)
       [] c = "2rps" -> [claim(<<>>) EXCEPT !.Rights = {}, !.Actions = {"open"}]
       [] c = "0rps" -> claim(<<"", "">>)
       [] c = "unlimited" -> claim(<<"a", ".", "b">>)]

MCPaths ==
  {<<"f">>, <<"f", "", "g">>, <<".">>, <<"", "data", "a", "f">>,
   <<"..", "a", "f">>, <<"f", "..", "..", "g">>, <<"..hidden">>}

\* All paths for one token, a few for the others, and requests without a token, a
\* right or a path.
MCRequests ==
  [cap : {"unlimited"}, method : {<<"fs", "open">>}, path : MCPaths]
  \cup [cap : {"0rps"}, method : {<<"fs", "open">>}, path : {<<"f">>, <<".">>}]
  \cup [cap : {"1.5rps"}, method : {<<"fs", "open">>}, path : {<<"f">>, <<"..", "a", "f">>}]
  \cup [cap : {"2rps"}, method : {<<"fs", "open">>, <<"fs", "list">>}, path : {<<>>}]
  \cup {[cap |-> nil, method |-> <<"fs", "list">>, path |-> <<>>]}

MCDotDotNames == {"..", "..hidden"}

MCwd == <<"", "srv">>
=============================================================================
