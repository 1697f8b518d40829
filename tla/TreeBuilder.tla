------------------------------ MODULE TreeBuilder ------------------------------
(***************************************************************************)
(* The tree builder of the browser (04-browser, src/html/tree_builder.rs): *)
(* it reads the tokens of Tokenizer one by one and builds a document.      *)
(*                                                                         *)
(* One handler per insertion mode: the builder after a token.  A handler   *)
(* that calls process() again with the token leaves `at' alone, so that    *)
(* the next step has the same token in the new mode.  in_template and      *)
(* frameset_ok are only ever written and are left out.                     *)
(*                                                                         *)
(* The arms for h1..h6, for pre and listing and for form that follow the   *)
(* one for the tags that close a paragraph never match, because that one   *)
(* lists these tags: they are not modelled.                                *)
(***************************************************************************)
EXTENDS Document, FiniteSetsExt

VARIABLE b   \* the builder

NewBuilder ==
  [nodes |-> NewDocument, open |-> <<Root>>, mode |-> "Initial", head |-> None, at |-> 1]

White(k)        == k.type = "Text" /\ \A i \in 1 .. Len(k.text) : k.text[i] = " "
Start(k, words) == k.type = "StartTag" /\ Named(k.name, words)
End(k, words)   == k.type = "EndTag" /\ Named(k.name, words)

ToHead      == {"base", "basefont", "bgsound", "link", "meta"}
TextTags    == {"noframes", "script", "style", "title"}
HeadTags    == ToHead \cup TextTags \cup {"template"}
AfterHeadEnds == {"body", "html", "br"}
Words(names)  == {<<w>> : w \in names}
Headings    == {"h1", "h2", "h3", "h4", "h5", "h6"}
PClosingEnds ==
  {"address", "article", "aside", "blockquote", "button", "center", "details", "dialog", "dir",
   "div", "dl", "fieldset", "figcaption", "figure", "footer", "header", "hgroup", "listing",
   "main", "menu", "nav", "ol", "pre", "section", "summary", "table", "ul", "p"}
\* A rule ("hr") is here although it is void: it stays open.
PClosingStarts == (PClosingEnds \ {"button"}) \cup Headings \cup {"form", "hr"}
Implied  == Words({"dd", "dt", "li", "optgroup", "option", "p", "rb", "rp", "rt", "rtc"})
ScopeBoundary ==
  Words({"html", "table", "td", "th", "caption", "template", "applet", "marquee", "object"})

--------------------------------------------------------------------------------
(* Helpers.                                                                *)

Consume(r)      == [r EXCEPT !.at = @ + 1]
To(r, mode)     == [r EXCEPT !.mode = mode]
OpenTag(r, i)   == TagNameOf(r.nodes, r.open[i])
Insert(r, parent, data) ==
  [r EXCEPT !.nodes = AppendChild(CreateNode(@, data), parent, Len(@) + 1)]
InsertElement(r, tag, attrs) == Insert(r, Last(r.open), ElementData(tag, attrs))
InsertAndPush(r, tag, attrs) ==
  [InsertElement(r, tag, attrs) EXCEPT !.open = Append(@, Len(r.nodes) + 1)]
InsertComment(r, k) == Insert(r, Last(r.open), CommentData(k.text))

\* Text next to text is one node.
InsertText(r, text) ==
  LET last == LastChildOf(r.nodes, Last(r.open))
  IN IF text = << >> THEN r
     ELSE IF last # None /\ IsText(r.nodes, last)
     THEN [r EXCEPT !.nodes[last].data.text = @ \o text]
     ELSE Insert(r, Last(r.open), TextData(text))

Pop(r) == IF Len(r.open) > 1 THEN [r EXCEPT !.open = Front(@)] ELSE r
\* The positions in the stack of the elements of some names.
OpenAt(r, names) == {i \in 1 .. Len(r.open) : OpenTag(r, i) \in names}
InOpenStack(r, names) == OpenAt(r, names) # {}
InScope(r, name) ==
  InOpenStack(r, {name}) /\ OpenTag(r, Max(OpenAt(r, ScopeBoundary \cup {name}))) = name
PopUntil(r, names) ==
  [r EXCEPT !.open = SubSeq(@, 1, Max({1} \cup {i - 1 : i \in OpenAt(r, names)}))]
GenerateImpliedEndTags(r, except) ==
  LET stays == {i \in 1 .. Len(r.open) : OpenTag(r, i) \notin Implied \ {except}}
  IN [r EXCEPT !.open = SubSeq(@, 1, Max(stays))]

\* Any open p: the scan for the bounds of its scope goes on past them.
ClosePIfOpen(r) ==
  IF InOpenStack(r, {<<"p">>}) THEN PopUntil(GenerateImpliedEndTags(r, <<"p">>), {<<"p">>}) ELSE r

\* adoption_agency, and what the other end tags do.
CloseElement(r, name) ==
  IF InOpenStack(r, {name}) THEN PopUntil(GenerateImpliedEndTags(r, name), {name}) ELSE r

EnsureHtml(r) ==
  IF FindElement(r.nodes, <<"html">>) # None THEN r ELSE InsertAndPush(r, <<"html">>, << >>)

--------------------------------------------------------------------------------
(* The handlers.                                                           *)

ProcessInitial(r, k) ==
  CASE White(k)             -> Consume(r)
    [] k.type = "Comment"   -> Consume(InsertComment(r, k))
    [] k.type = "Doctype"   ->
         LET d == [k.doctype EXCEPT !.public = FlattenSeq(@), !.system = FlattenSeq(@)]
         IN Consume(To(Insert(r, Root, DoctypeData(d)), "BeforeHtml"))
    [] OTHER                -> To(r, "BeforeHtml")

\* An end tag that does nothing before the body.
StrayEnd(k) == k.type = "EndTag" /\ ~End(k, AfterHeadEnds \cup {"head"})

ProcessBeforeHtml(r, k) ==
  CASE White(k) \/ StrayEnd(k) \/ k.type = "Eof" -> Consume(r)
    [] k.type = "Comment"   -> Consume(InsertComment(r, k))
    [] Start(k, {"html"})   -> Consume(To(InsertAndPush(r, k.name, k.attrs), "BeforeHead"))
    [] OTHER                -> To(EnsureHtml(r), "BeforeHead")

\* process_in_body ignores <html>.
ProcessBeforeHead(r, k) ==
  LET pushed(attrs) == [InsertAndPush(r, <<"head">>, attrs) EXCEPT !.head = Len(r.nodes) + 1,
                                                                   !.mode = "InHead"]
  IN CASE White(k) \/ StrayEnd(k) \/ k.type = "Eof" \/ Start(k, {"html"}) -> Consume(r)
       [] k.type = "Comment"   -> Consume(InsertComment(r, k))
       [] Start(k, {"head"})   -> Consume(pushed(k.attrs))
       [] OTHER                -> pushed(<< >>)

\* The pop that ends the head takes the top of the stack, which may be another element.
ProcessInHead(r, k) ==
  CASE White(k)              -> Consume(InsertText(r, k.text))
    [] k.type = "Comment"    -> Consume(InsertComment(r, k))
    [] Start(k, {"html"})    -> Consume(r)
    [] Start(k, ToHead)      -> Consume(InsertElement(r, k.name, k.attrs))
    [] Start(k, TextTags)    -> Consume(To(InsertAndPush(r, k.name, k.attrs), "Text"))
    [] Start(k, {"noscript", "template"}) -> Consume(InsertAndPush(r, k.name, k.attrs))
    [] End(k, {"head"})      -> Consume(To(Pop(r), "AfterHead"))
    [] End(k, {"template"})  ->
         Consume(IF InOpenStack(r, {k.name}) THEN PopUntil(r, {k.name}) ELSE r)
    [] StrayEnd(k) /\ ~End(k, {"template"}) -> Consume(r)
    [] OTHER                 -> To(Pop(r), "AfterHead")

\* What belongs in the head goes there: the head is pushed for the time of the call.
ProcessAfterHead(r, k) ==
  CASE White(k)              -> Consume(InsertText(r, k.text))
    [] k.type = "Comment"    -> Consume(InsertComment(r, k))
    [] Start(k, {"html"}) \/ k.type = "Eof" -> Consume(r)
    [] Start(k, {"body", "frameset"}) -> Consume(To(InsertAndPush(r, k.name, k.attrs), "InBody"))
    [] Start(k, HeadTags)    ->
         IF r.head = None THEN Consume(r)
         ELSE [ProcessInHead([r EXCEPT !.open = Append(@, r.head)], k) EXCEPT
                 !.open = SelectSeq(@, LAMBDA id : id # r.head)]
    [] End(k, {"template"})  -> ProcessInHead(r, k)
    [] k.type = "EndTag" /\ ~End(k, AfterHeadEnds \cup {"template"}) -> Consume(r)
    [] OTHER                 -> To(InsertAndPush(r, <<"body">>, << >>), "InBody")

\* The start tags that have no arm of their own.
StartInBody(r, k) ==
  CASE Category(k.name) = "Void" -> InsertElement(r, k.name, k.attrs)
    [] Category(k.name) \in {"RawText", "EscapableRawText"} ->
         To(InsertAndPush(r, k.name, k.attrs), "Text")
    [] OTHER -> LET pushed == InsertAndPush(r, k.name, k.attrs)
                IN IF k.selfClosing THEN Pop(pushed) ELSE pushed

\* A new item closes the item that is open.
StartItem(r, k, names, kept) ==
  LET closed == IF InOpenStack(r, names) THEN PopUntil(GenerateImpliedEndTags(r, kept), names) ELSE r
  IN InsertAndPush(ClosePIfOpen(closed), k.name, k.attrs)

StartTagInBody(r, k) ==
  CASE Start(k, {"html", "body", "frameset"}) -> Consume(r)
    [] Start(k, HeadTags)       -> ProcessInHead(r, k)
    [] Start(k, PClosingStarts) -> Consume(InsertAndPush(ClosePIfOpen(r), k.name, k.attrs))
    [] Start(k, {"li"})         -> Consume(StartItem(r, k, {<<"li">>}, <<"li">>))
    [] Start(k, {"dt", "dd"})   -> Consume(StartItem(r, k, Words({"dt", "dd"}), k.name))
    [] OTHER                    -> Consume(StartInBody(r, k))

Close(r, name, names) == PopUntil(GenerateImpliedEndTags(r, name), names)

EndTagInBody(r, k) ==
  CASE End(k, {"body"}) -> Consume(IF InScope(r, <<"body">>) THEN To(r, "AfterBody") ELSE r)
    [] End(k, {"html"}) -> IF InScope(r, <<"body">>) THEN To(r, "AfterBody") ELSE Consume(r)
    [] End(k, PClosingEnds) ->
         Consume(CASE InScope(r, k.name) -> Close(r, k.name, {k.name})
                   [] ~InScope(r, k.name) /\ End(k, {"p"}) -> InsertElement(r, k.name, << >>)
                   [] OTHER -> r)
    [] End(k, {"li", "dt", "dd"}) ->
         Consume(IF InScope(r, k.name) THEN Close(r, k.name, {k.name}) ELSE r)
    [] End(k, Headings) ->
         Consume(IF \E h \in Words(Headings) : InScope(r, h)
                 THEN Close(r, k.name, Words(Headings)) ELSE r)
    [] OTHER -> Consume(CloseElement(r, k.name))

ProcessInBody(r, k) ==
  CASE k.type = "Text"     -> Consume(IF k.text = <<"NUL">> THEN r ELSE InsertText(r, k.text))
    [] k.type = "Comment"  -> Consume(InsertComment(r, k))
    [] k.type = "StartTag" -> StartTagInBody(r, k)
    [] k.type = "EndTag"   -> EndTagInBody(r, k)
    [] OTHER               -> Consume(r)

\* Inside script, style, textarea and title: any end tag ends the element.
ProcessText(r, k) ==
  CASE k.type = "Text"     -> Consume(InsertText(r, k.text))
    [] k.type = "Eof"      -> Consume(To(Pop(r), "InBody"))
    [] k.type = "EndTag"   ->
         Consume(To(Pop(r), IF /\ InOpenStack(Pop(r), {<<"body">>})
                               /\ FindElement(r.nodes, <<"body">>) # None
                            THEN "InBody" ELSE "AfterHead"))
    [] OTHER               -> To(Pop(r), "InBody")


ProcessAfterBody(r, k) ==
  CASE White(k) \/ Start(k, {"html"}) -> ProcessInBody(r, k)
    [] k.type = "Comment"  ->
         LET html == FindElement(r.nodes, <<"html">>)
         IN Consume(Insert(r, IF html = None THEN Root ELSE html, CommentData(k.text)))
    [] End(k, {"html"})    -> Consume(To(r, "AfterAfterBody"))
    [] k.type = "Eof"      -> Consume(r)
    [] OTHER               -> To(r, "InBody")

ProcessAfterAfterBody(r, k) ==
  CASE White(k) \/ Start(k, {"html"}) -> ProcessInBody(r, k)
    [] k.type = "Comment"  -> Consume(Insert(r, Root, CommentData(k.text)))
    [] k.type = "Eof"      -> Consume(r)
    [] OTHER               -> To(r, "InBody")

--------------------------------------------------------------------------------
(* process(): the handler of the mode, with the token k.                   *)

Initial(k)        == b.mode = "Initial"        /\ b' = ProcessInitial(b, k)
BeforeHtml(k)     == b.mode = "BeforeHtml"     /\ b' = ProcessBeforeHtml(b, k)
BeforeHead(k)     == b.mode = "BeforeHead"     /\ b' = ProcessBeforeHead(b, k)
InHead(k)         == b.mode = "InHead"         /\ b' = ProcessInHead(b, k)
AfterHead(k)      == b.mode = "AfterHead"      /\ b' = ProcessAfterHead(b, k)
InBody(k)         == b.mode = "InBody"         /\ b' = ProcessInBody(b, k)
InText(k)         == b.mode = "Text"           /\ b' = ProcessText(b, k)
AfterBody(k)      == b.mode = "AfterBody"      /\ b' = ProcessAfterBody(b, k)
AfterAfterBody(k) == b.mode = "AfterAfterBody" /\ b' = ProcessAfterAfterBody(b, k)

Process(k) ==
  \/ Initial(k) \/ BeforeHtml(k) \/ BeforeHead(k) \/ InHead(k) \/ AfterHead(k)
  \/ InBody(k) \/ InText(k) \/ AfterBody(k) \/ AfterAfterBody(k)
================================================================================
