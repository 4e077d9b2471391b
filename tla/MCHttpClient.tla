---------------------------- MODULE MCHttpClient ----------------------------
(* Instances of HttpClient for TLC. *)
EXTENDS HttpClient

HttpReplies ==
  [status : {"s200", "s403", "garbage", "badstatus"},
   headers : {<<>>, <<"cookie">>, <<"length0">>, <<"length2">>, <<"badlength">>,
              <<"length1", "length2">>},
   body : {<<>>, <<"a">>, <<"a", "b", "c">>}]
=============================================================================
