------------------------------- MODULE MCApp --------------------------------
(* Three providers (one of two sign-ins and categories, one of free names),
   four settings, and two runs of the agent, the first with two events. *)
EXTENDS App
MCEvents == <<2, 0>>
MCModel(name, id, of, sized) == [name |-> name, id |-> id, of |-> of, sized |-> sized]
MCGroups == <<
  [name |-> <<"a">>, key |-> "plain", auths |-> 1, categories |-> <<>>,
   models |-> <<MCModel(<<"a">>, "small", "plain", TRUE), MCModel(<<"b", "a">>, "", "plain", FALSE)>>],
  [name |-> <<"a", "b">>, key |-> "signed", auths |-> 2, models |-> <<>>,
   categories |-> <<[name |-> <<"a">>, models |-> <<MCModel(<<"b">>, "wide", "signed", FALSE)>>]>>],
  [name |-> <<"b">>, key |-> "", auths |-> 0, models |-> <<>>, categories |-> <<>>]>>
MCFields == <<[name |-> "mode", kind |-> "cycle"], [name |-> "helper", kind |-> "string"],
  [name |-> "window", kind |-> "int"], [name |-> "switch", kind |-> "bool"]>>
MCSaved == [mode |-> "llm", helper |-> "", window |-> "number", switch |-> "off"]
MCOptions == <<"llm", "off">>
MCFiles == {[provider |-> "", model |-> "", window |-> "file"]}
=============================================================================
