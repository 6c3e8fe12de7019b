---------------------------- MODULE MCLLMClients ----------------------------
(* Values for checking LLMClients: answers with every form of arguments and *)
(* of ids, with and without words and thinking, and with two calls.         *)
EXTENDS LLMClients

Call(id, name, args) == [id |-> id, name |-> name, args |-> args]
Raw(thinking, text, calls) == [thinking |-> thinking, text |-> text, calls |-> calls]

MCRaws ==
    {Raw(<<>>, <<"done">>, <<>>),
     Raw(<<>>, <<>>, <<>>),
     Raw(<<>>, <<>>, Null),
     Raw(<<"hm">>, <<"see">>, <<Call("given", "bash", "object"), Call("given", "git", "object")>>),
     Raw(<<>>, <<>>, <<Call("given", "bash", "json"), Call("given", "git", "broken")>>),
     Raw(<<>>, <<"see">>, <<Call("missing", "bash", "object"), Call("missing", "git", "other")>>),
     Raw(<<>>, <<>>, <<Call("missing", "git", "object")>>),
     Raw(<<>>, <<>>, <<Call("missing", "", "object")>>),
     Raw(<<>>, <<>>, <<Call("null", "bash", "absent"), Call("null", "git", "json")>>)}
=============================================================================
