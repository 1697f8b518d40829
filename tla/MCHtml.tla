--------------------------------- MODULE MCHtml --------------------------------
(***************************************************************************)
(* Inputs for HtmlParser.                                                  *)
(***************************************************************************)
EXTENDS HtmlProperties

Html(goal, h) == [goal |-> goal, html |-> h, from |-> << >>]

\* Texts that lead into each state of the tokenizer, followed by one or two lexemes.
LeadIns ==
  { << >>, <<"<">>, <<"<", "/">>, <<"<", "a">>, <<"<", "a", " ">>, <<"<", "a", " ", "a">>,
    <<"<", "a", " ", "a", " ">>, <<"<", "a", " ", "a", "=">>, <<"<", "a", " ", "a", "=", "a">>,
    <<"<", "a", " ", "a", "=", "\"">>, <<"<", "a", " ", "a", "=", "'">>,
    <<"<", "a", " ", "a", "=", "\"", "\"">>, <<"<", "a", "/">>,
    <<"<", "!">>, <<"&", "#">>, <<"<", "!", "[", "cdata", "[">>,
    <<"<", "!", "[", "cdata", "[", "a", "]", "]">>,
    <<"<", "!", "-", "-">>, <<"<", "!", "-", "-", "-">>, <<"<", "!", "-", "-", "a">>,
    <<"<", "!", "-", "-", "a", "-">>, <<"<", "!", "-", "-", "a", "-", "-">>,
    <<"<", "!", "-", "-", "a", "-", "-", "!">>,
    <<"<", "!", "doctype">>, <<"<", "!", "doctype", " ">>, <<"<", "!", "doctype", " ", "A">>,
    <<"<", "!", "doctype", " ", "A", " ">> }
  \cup {<<"<", "!", "doctype", " ", "a", " ", "public">> \o s :
          s \in {<< >>, <<" ">>, <<"\"">>, <<"'">>, <<"\"", "\"">>, <<"\"", "\"", " ">>,
                 <<"\"", "\"", " ", "\"">>, <<"\"", "\"", " ", "'">>}}
  \cup {<<"<", "!", "doctype", " ", "a", " ", "system">> \o s :
          s \in {<< >>, <<" ">>, <<"\"">>, <<"'">>, <<"\"", "\"">>, <<"\"", "\"", "a">>}}
  \cup {<<"<", raw, ">">> \o s :
          raw \in {"title", "script"},
          s \in {<< >>, <<"a", "<">>, <<"<", "/">>, <<"a", "<", "/", "title">>, <<"<", "/", "script">>,
                 <<"<", "/", "script", ">">>, <<"<", "/", "title", "/">>}}
Common  == {"<", ">", "/", "-", "=", "\"", "'", "a", " "}
Lexemes == Common \cup {"!", "?", "&", ";", "NUL", "]", "A", "amp", "#", "x27", "title", "public",
                        "system"}
Raw == {Html("parse", p \o s) : p \in LeadIns, s \in BoundedSeq(Lexemes, 1) \cup BoundedSeq(Common, 2)}

Tag(name)       == <<StartTag(<<name>>, << >>, FALSE)>>
Closing(name)   == <<EndTag(<<name>>)>>
Txt(s)          == <<TextToken(s)>>
Whole(name, s)  == Tag(name) \o (IF s = << >> THEN << >> ELSE Txt(s)) \o Closing(name)
Attr(name, value, closed) == <<StartTag(<<name>>, <<[name |-> <<"a">>, value |-> value]>>, closed)>>

Units ==
  {Tag(n) : n \in {"p", "b", "li", "dd", "h1", "table", "div", "head", "body", "html", "template",
                   "hr", "br", "noscript", "frameset", "meta", "noframes"}}
  \cup {Closing(n) : n \in {"p", "b", "li", "dd", "h1", "table", "head", "body", "html", "template"}}
  \cup {Txt(<<"a">>), Txt(<<" ">>), Txt(<<"<", "&">>), Txt(<<"NUL">>),
        Whole("title", <<"a">>), Whole("script", <<"a">>), Whole("textarea", <<"a", "<", "&">>),
        Whole("title", << >>), Whole("script", << >>),
        Whole("script", <<"a", "<", "&", "<", "/", "p", ">", "&", "amp", ";">>),
        Whole("style", <<"<", "/", "A", ">">>),
        Attr("i", <<"\"", "a">>, TRUE), Attr("img", <<"'", "<">>, FALSE),
        <<CommentToken(<<"a">>)>>, <<DoctypeToken([NoDoctype EXCEPT !.name = <<"html">>])>>}

Blocks ==
  {Tag(n) : n \in {"p", "li", "dd", "dt", "table", "hr"}}
  \cup {Closing(n) : n \in {"p", "li", "table"}} \cup {Txt(<<"a">>)}
\* What belongs in the head, behind its end, also while a template is open there.
MisplacedHead ==
  {Closing("head") \o Tag(m) \o n :
     m \in {"template", "meta", "body"},
     n \in {Tag("template"), Tag("template") \o Closing("template"), Whole("script", <<"a">>),
            Whole("title", <<"a">>), Tag("meta"), Tag("p")}}
Nested == {FlattenSeq(u) : u \in (BoundedSeq(Units, 2) \cup BoundedSeq(Blocks, 3)) \ {<< >>}}
          \cup MisplacedHead

\* Pages for queries.
Div(attrs) == <<StartTag(<<"div">>, attrs, FALSE)>>
ClassDiv == Div(<<[name |-> <<"class">>, value |-> <<"c", " ", "d">>]>>)
Image    == <<StartTag(<<"img">>, <<[name |-> <<"id">>, value |-> <<"k">>],
                                    [name |-> <<"a">>, value |-> <<"u", "-", "v">>]>>, FALSE)>>
EndDiv   == Closing("div")
DivsAndImages == {FlattenSeq(u) : u \in BoundedSeq({ClassDiv, Div(<< >>), EndDiv, Image}, 4) \ {<< >>}}
Pages ==
  DivsAndImages \cup
  {FlattenSeq(u) : u \in
    {<<ClassDiv, Div(<< >>), Div(<< >>), Image>>,
     <<ClassDiv, EndDiv, Image, Image, Image>>,
     <<ClassDiv, Div(<< >>), EndDiv, Div(<< >>), EndDiv, EndDiv, Image, Div(<< >>), Image>>,
     <<Div(<< >>), Txt(<<" ">>), EndDiv, Txt(<<"a">>), Image>>,
     <<ClassDiv, <<CommentToken(<<"a">>)>>, EndDiv, Image>>,
     <<ClassDiv, Txt(<<"a">>), Image, Txt(<<"a">>), Image>>}}

Part(kind, arg) == [is |-> kind, arg |-> arg]
By(by, parts)   == [by |-> by, parts |-> parts]
DivC   == <<Part("class", "c")>>
AnyDiv == <<Part("type", "div")>>
AnyImg == <<Part("type", "img")>>
Nth(kind, step, start) == Part(kind, [a |-> step, b |-> start])
\* Sequences, for their members are of different kinds.
NthArgs == << <<2, 0>>, <<2, 1>>, <<0, 2>>, <<3, -1>>, <<-1, 2>> >>
Values  == << <<"]", << >> >>, <<"=", <<"u", "-", "v">> >>, <<"~", <<"u", "-", "v">> >>,
              <<"|", <<"u">> >>, <<"^", <<"u">> >>, <<"$", <<"v">> >>, <<"*", <<"-">> >>,
              <<"^", <<"v">> >> >>
Conditions ==
  <<Part("id", "k"), Part("class", "d"), Part("root", << >>), Part("empty", << >>),
    Part("first-child", << >>), Part("last-child", << >>), Part("only-child", << >>),
    Part("not", DivC), Part("not", <<Part("not", AnyDiv \o DivC)>>)>>
  \o [i \in 1 .. Len(NthArgs) |-> Nth("nth-child", NthArgs[i][1], NthArgs[i][2])]
  \o [i \in 1 .. Len(NthArgs) |-> Nth("nth-last-child", NthArgs[i][1], NthArgs[i][2])]
  \o [i \in 1 .. Len(Values) |->
        [is |-> "attr", name |-> "a", op |-> Values[i][1], arg |-> Values[i][2]]]
Combinators == <<" ", ">", "+", "~">>
QueriesDef ==
  [i \in 1 .. Len(Conditions) |-> << <<By(" ", <<Part("universal", << >>), Conditions[i]>>)>> >>]
  \o [i \in 1 .. 16 |->
        << <<By(" ", DivC), By(Combinators[(i + 3) \div 4], AnyDiv),
             By(Combinators[(i % 4) + 1], AnyImg)>> >>]
  \o << << <<By(" ", DivC), By("+", AnyImg), By("~", AnyImg)>>, <<By(" ", DivC)>> >> >>

Page == Attr("p", <<"a">>, FALSE) \o Txt(<<"a">>) \o Tag("b")

Markup(goal, tokens) == [goal |-> goal, html |-> WrittenAll(tokens), from |-> tokens]
InputsDef == Raw \cup {Markup("reparse", n) : n \in Nested} \cup {Markup("edit", Page)}
  \cup {Markup("query", p) : p \in Pages}

\* The nodes of Page are 1 the document, 2 html, 3 head, 4 body, 5 p, 6 its text and 7 b.
Observer(target, kinds, subtree, filter) ==
  [target |-> target, kinds |-> kinds, subtree |-> subtree, filter |-> filter, active |-> TRUE]
ObserversDef ==
  {Observer(5, {"ChildList", "Attributes", "CharacterData"}, TRUE, {}),
   Observer(5, {"ChildList", "Attributes"}, FALSE, {<<"class">>})}
TargetsDef    == {5, 6, 7}
AttrNamesDef  == {<<"a">>}
AttrValuesDef == {<<"v">>}
ClassesDef    == {"c"}
NewDataDef    == {TextData(<<"n">>)}
NewTextsDef   == {<<"v">>}
================================================================================
