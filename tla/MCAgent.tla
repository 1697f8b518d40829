--------------------------------- MODULE MCAgent -------------------------------
(***************************************************************************)
(* Instances of Agent: what its client does and what its servers say.      *)
(***************************************************************************)
EXTENDS Agent

AddressDef ==
  [home |-> [host |-> <<"shop", "org">>, path |-> <<"">>, secure |-> TRUE],
   item |-> [host |-> <<"www", "shop", "org">>, path |-> <<"a", "b">>, secure |-> TRUE],
   cart |-> [host |-> <<"shop", "org">>, path |-> <<"a", "c">>, secure |-> FALSE]]

NewPage(doc, url, visited, load) ==
  [doc |-> doc, url |-> url, history |-> visited, pos |-> 0, load |-> load]
NewPagesDef ==
  {NewPage("empty", NoUrl, << >>, "Idle"), NewPage("html", NoUrl, << >>, "Loaded"),
   NewPage("html", "home", <<"home">>, "Loaded")}
ResourceListsDef == {<<"cart", "item">>}

Cookie(name, value, domain, path, life, secure) ==
  [name |-> name, value |-> value, domain |-> domain, path |-> path, life |-> life, secure |-> secure]
Set    == Cookie("id", "1", << >>, << >>, "session", FALSE)
Dated  == Cookie("id", "2", <<"shop", "org">>, <<"a">>, "dated", TRUE)
Delete == Cookie("id", "3", << >>, << >>, "past", FALSE)
NoName == Cookie("", "4", << >>, << >>, "session", FALSE)

Says(status, location, cookies) == [status |-> status, location |-> location, cookies |-> cookies]
Plain ==
  {Says(0, NoUrl, << >>), Says(200, NoUrl, << >>), Says(302, NoUrl, << >>), Says(301, "bad", << >>),
   Says(302, "item", << >>), Says(307, "cart", << >>)}
Setting ==
  {Says(0, NoUrl, << >>), Says(200, NoUrl, <<Set>>), Says(200, NoUrl, <<Delete, Dated>>),
   Says(303, "cart", <<Dated, NoName>>), Says(308, "home", <<Set>>), Says(302, "item", <<Delete>>)}

Plan(ids, calls, answers) == [ids |-> ids, calls |-> calls, answers |-> answers]
PlansDef ==
  {Plan({"s1"}, {"pages", "states"}, {}), Plan({"s1"}, {"pages", "file"}, {}),
   Plan({"s1", "s2"}, {"file"}, {}),
   Plan({"s1", "s2"}, {"navigate"}, Plain), Plan({"s1"}, {"fetch"}, Setting)}
================================================================================
