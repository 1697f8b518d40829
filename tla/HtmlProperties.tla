----------------------------- MODULE HtmlProperties ----------------------------
(***************************************************************************)
(* What the parser and the document promise.                               *)
(***************************************************************************)
EXTENDS HtmlParser, Selectors

\* The sequence of the selectors that are looked for in the documents whose goal is "query".
CONSTANT Queries

--------------------------------------------------------------------------------
(* Tokens.                                                                 *)

\* tokenize() returns for every input, unless the input ends inside an identifier of a
\* document type or behind its system identifier: there the same doctype is emitted again
\* and again (tokenizer.rs 1419, 1439, 1555, 1575, 1594), against "Tokenize the entire input
\* and return all tokens" (179).
Returned   == doc # << >> /\ (in.goal = "reparse" => Parsed)
Terminates == <>(NeverEnds \/ Returned)

WrittenTag(k) ==
  <<"<">> \o k.name
  \o FlattenSeq([i \in 1 .. Len(k.attrs) |->
       <<" ">> \o k.attrs[i].name \o <<"=", "\"">> \o EscapeQuotes(k.attrs[i].value) \o <<"\"">>])
  \o (IF k.selfClosing THEN <<"/", ">">> ELSE <<">">>)
\* A token as HTML.
Written(k) ==
  CASE k.type = "Text"     -> HtmlEscape(k.text)
    [] k.type = "Comment"  -> <<"<", "!", "-", "-">> \o k.text \o <<"-", "-", ">">>
    [] k.type = "StartTag" -> WrittenTag(k)
    [] k.type = "EndTag"   -> <<"<", "/">> \o k.name \o <<">">>
    [] k.type = "Doctype"  -> <<"<", "!", "doctype", " ">> \o k.doctype.name \o <<">">>

\* Does token i begin an element whose content is text: raw, or with references in it?
Opens(tokens, i, names) == i \in 1 .. Len(tokens) /\ tokens[i].type = "StartTag" /\ tokens[i].name \in names
\* Raw text is written as it is.
WrittenAll(tokens) ==
  FlattenSeq([i \in 1 .. Len(tokens) |->
    IF tokens[i].type = "Text" /\ Opens(tokens, i - 1, RawNames) THEN tokens[i].text
    ELSE Written(tokens[i])])

\* Texts next to each other are read as one.
Merged(tokens) ==
  FoldLeft(LAMBDA read, k :
             IF read # << >> /\ k.type = "Text" /\ Last(read).type = "Text"
             THEN Append(Front(read), TextToken(Last(read).text \o k.text))
             ELSE Append(read, k),
           << >>, tokens)

\* Where s occurs in u, without a gap.
Places(s, u) == {i \in 1 .. Len(u) : IsPrefix(s, SubSeq(u, i, Len(u)))}

\* An element of text that is empty: its end tag is put behind the token that follows, or
\* dropped before Eof, because the step that queues it reads on (tokenizer.rs 461-474, 599-613),
\* against "return the tag from pending next iteration" (612).
EmptyText(tokens) ==
  \E i \in 1 .. Len(tokens) :
    Opens(tokens, i, RawNames \cup RCDataNames) /\ tokens[i + 1] = EndTag(tokens[i].name)
\* Text of such an element that looks like an end tag with a capital, which becomes a small
\* letter (tokenizer.rs 427), against "content returned verbatim" (9).
CapitalInText(tokens) ==
  \E i \in 1 .. Len(tokens) :
    Opens(tokens, i - 1, RawNames) /\ tokens[i].type = "Text" /\ Places(<<"<", "/", "A">>, tokens[i].text) # {}

FirstRead == Tokenized /\ in.from # << >> /\ doc = << >>
ReadBack  == t.tokens = Append(Merged(in.from), EofToken)

\* The tokens of a text that was written from tokens are those tokens: tags, attributes with
\* quoted values, comments, escaped text and the elements whose content is text, with '<', '&'
\* and other end tags in it, come back as they were; but for the two slips above.
TokensRead == FirstRead /\ ~EmptyText(in.from) /\ ~CapitalInText(in.from) => ReadBack

--------------------------------------------------------------------------------
(* Trees.                                                                  *)

WordsOf(text) == SelectSeq(text, LAMBDA c : c \notin {" ", "NUL"})
TextOf(tokens) ==
  FlattenSeq([i \in 1 .. Len(tokens) |-> IF tokens[i].type = "Text" THEN tokens[i].text ELSE << >>])

\* Does the sequence s occur in u, perhaps with more between its members?
InOrder(s, u) ==
  FoldLeft(LAMBDA k, c : IF k < Len(s) /\ s[k + 1] = c THEN k + 1 ELSE k, 0, u) = Len(s)

\* The words of an input that are text whatever is around them: those with no '<' before them
\* that is not closed, when nothing in the input can hide a '>' or stand for another word.
PlainWords(html) ==
  LET outside(i) == \A j \in 1 .. i : html[j] = "<" => \E k \in j .. i : html[k] = ">"
  IN IF ToSet(html) \cap ({"!", "?", "&"} \cup Quotes) # {} THEN << >>
     ELSE FlattenSeq([i \in 1 .. Len(html) |->
            IF Letter(html[i]) /\ outside(i) THEN <<html[i]>> ELSE << >>])
DocumentText  == TextContent(b.nodes, Root)
PlainTextKept == InOrder(PlainWords(in.html), DocumentText)

\* The input ends in an end tag of an element of text, behind its slash: the text of the
\* element is lost, for Eof is returned before it (tokenizer.rs 621-624, 781-783), against "all
\* open elements get their text content kept" (tree_builder.rs 866).
CutEndTag(html) ==
  \E name \in RawNames \cup RCDataNames :
    \E i \in Places(<<"<", "/">> \o name \o <<"/">>, html) : ">" \notin ToSet(SubSeq(html, i, Len(html)))


\* A node is listed once, by its parent, and a node without a parent is listed nowhere.
ListedOnce(d) ==
  \A id \in 1 .. Len(d) :
    /\ \A i \in 1 .. Len(d[id].children) : d[d[id].children[i]].parent = id
    /\ Cardinality(ToSet(d[id].children)) = Len(d[id].children)
    /\ d[id].parent # None => Contains(d[d[id].parent].children, id)

\* The nodes form a tree while it is built and while it is edited; every node that the
\* parser makes is in it, and each open element is younger than the one below it in the stack
\* and lies inside it: or inside the head, where misplaced content of the head goes whatever
\* is open (tree_builder.rs 471-482).  replace_node() of a node that is no child of its
\* parent is not among the edits: it leaves a new node that its parent does not list.
TreeOK ==
  /\ ListedOnce(b.nodes)
  /\ \A id \in 2 .. Len(b.nodes) : b.nodes[id].parent \in 1 .. id - 1
  /\ \A i \in 2 .. Len(b.open) :
       /\ b.open[i - 1] < b.open[i]
       /\ \/ IsDescendant(b.nodes, b.open[i], b.open[i - 1])
          \/ b.head # None /\ IsDescendant(b.nodes, b.open[i], b.head)
  /\ doc # << >> => ListedOnce(doc) /\ \A id \in 2 .. Len(doc) : doc[id].parent < id

--------------------------------------------------------------------------------
(* Writing and parsing again.                                              *)

\* A document as a tree, without the numbers of its nodes.
Shape(d) ==
  LET shape[id \in 1 .. Len(d)] ==
        [data |-> d[id].data,
         children |-> [i \in 1 .. Len(d[id].children) |-> shape[d[id].children[i]]]]
  IN shape[Root]

\* What the builder leaves in a tree that HTML cannot say: no body, as when the head never
\* ends; a body inside the head, which an end tag of script, style or title leaves open, or
\* inside a template; content in a rule, which is put on the stack although it is void; and
\* elements next to <html>, because dd after dt empties the stack.
Sayable(d) ==
  LET body == FindElement(d, <<"body">>)
  IN /\ body # None /\ HasTag(d, d[body].parent, {"html"})
     /\ \A id \in 1 .. Len(d) : HasTag(d, id, {"hr"}) => d[id].children = << >>
     /\ \A i \in 1 .. Len(d[Root].children) :
          IsElement(d, d[Root].children[i]) => HasTag(d, d[Root].children[i], {"html"})
\* No element of text is empty: it would not be read back (EmptyText).
Filled(d) == \A id \in 1 .. Len(d) : TagNameOf(d, id) \in RawNames \cup RCDataNames => d[id].children # << >>
\* No raw text has a character that is escaped: it is escaped (dom.rs 563) and read as it
\* is written (tokenizer.rs 382-402), so "a < b" in a script comes back as "a &lt; b": what
\* outer_html() gives is not the document as HTML (549).
NothingEscaped(d) ==
  \A id \in 1 .. Len(d) : TagNameOf(d, id) \in RawNames => HtmlEscape(TextContent(d, id)) = TextContent(d, id)
Writable(d) == Sayable(d) /\ Filled(d) /\ NothingEscaped(d)

Again     == in.goal = "reparse" /\ doc # << >> /\ Parsed
SameShape == Shape(b.nodes) = Shape(doc)


--------------------------------------------------------------------------------
(* Records of changes.                                                     *)

\* The document before a change, as far as its record tells.
Undone(d, r) ==
  CASE r.kind = "CharacterData" -> [d EXCEPT ![r.target].data.text = r.old]
    [] r.kind = "Attributes" ->
         IF ~IsElement(d, r.target) THEN d
         ELSE IF r.old = << >>
         THEN [d EXCEPT ![r.target].data.attrs = SelectSeq(@, LAMBDA a : a.name # r.name)]
         ELSE [d EXCEPT ![r.target].data.attrs = WithAttribute(@, r.name, r.old[1])]
    [] r.kind = "ChildList" ->
         LET kept == SelectSeq(d[r.target].children, LAMBDA c : ~Contains(r.added, c))
             next == SelectInSeq(kept, LAMBDA c : c = r.next)
         IN IF r.removed = << >> THEN [d EXCEPT ![r.target].children = kept]
            ELSE [d EXCEPT ![r.target].children =
                    InsertAt(kept, IF next = 0 THEN Len(kept) + 1 ELSE next, r.removed[1])]

\* The siblings that a record names stood next to each other, the changed nodes apart.  A new
\* node that was to go before a node that is no child of the parent is exempt.
NamesSiblings(d, r) ==
  r.kind = "ChildList" =>
    LET kept == <<None>> \o SelectSeq(d[r.target].children, LAMBDA c : ~Contains(r.added, c)) \o <<None>>
    IN \/ r.next \notin ToSet(kept)
       \/ \E i \in 1 .. Len(kept) - 1 : kept[i] = r.prev /\ kept[i + 1] = r.next

\* The records that were taken and those that wait are together the whole history: undoing
\* them from the last to the first gives the document that parse() returned, whichever
\* records an observer took and when, and each names the siblings of its time.
HistoryKept ==
  Editing =>
    LET undo(r, past) == [doc |-> Undone(past.doc, r), fit |-> past.fit /\ NamesSiblings(past.doc, r)]
        before == FoldRight(undo, taken \o pending, [doc |-> doc, fit |-> TRUE])
    IN /\ before.fit
       /\ \A id \in 1 .. Len(b.nodes) :
            /\ before.doc[id].children = b.nodes[id].children
            /\ IF IsElement(b.nodes, id)
               THEN ToSet(before.doc[id].data.attrs) = ToSet(b.nodes[id].data.attrs)
               ELSE before.doc[id].data = b.nodes[id].data

--------------------------------------------------------------------------------
(* Queries.                                                                *)

WrittenSigned(n) == IF n < 0 THEN <<"-", Digits[1 - n]>> ELSE <<"+", Digits[n + 1]>>
WrittenNth(arg) ==
  CASE arg.a = 2 /\ arg.b = 0 -> <<"even">>
    [] arg.a = 2 /\ arg.b = 1 -> <<"odd">>
    [] arg.a = 0              -> <<Digits[arg.b + 1]>>
    [] OTHER -> <<" ">> \o WrittenSigned(arg.a) \o <<"n", " ">> \o WrittenSigned(arg.b) \o <<" ">>

RECURSIVE WrittenCompound(_)
WrittenPart(s) ==
  CASE s.is = "universal" -> <<"*">>
    [] s.is = "type"      -> <<s.arg>>
    [] s.is = "class"     -> <<".", s.arg>>
    [] s.is = "id"        -> <<"#", s.arg>>
    [] s.is = "attr" /\ s.op = "]" -> <<"[", s.name, "]">>
    [] s.is = "attr" /\ s.op = "=" -> <<"[", " ", s.name, "=">> \o s.arg \o <<" ", "i", "]">>
    [] s.is = "attr" /\ s.op \notin {"]", "="} ->
         <<"[", s.name, " ", s.op, "=", "'">> \o s.arg \o <<"'", "]">>
    [] s.is \in Plain -> <<":", s.is>>
    [] s.is \in {"nth-child", "nth-last-child"} ->
         <<":", s.is, "(">> \o WrittenNth(s.arg) \o <<")">>
    [] s.is = "not" -> <<":", "not", "(", " ">> \o WrittenCompound(s.arg) \o <<")">>
WrittenCompound(parts) == FlattenSeq([i \in 1 .. Len(parts) |-> WrittenPart(parts[i])])

\* A list of selectors as text.
WrittenSelector(list) ==
  LET complex(sel) ==
        FlattenSeq([i \in 1 .. Len(sel) |->
          (CASE i = 1                       -> << >>
             [] i > 1 /\ sel[i].by = " "    -> <<" ", " ">>
             [] i > 1 /\ sel[i].by # " "    -> <<" ", sel[i].by, " ">>)
          \o WrittenCompound(sel[i].parts)])
  IN FlattenSeq([i \in 1 .. Len(list) |->
       (IF i = 1 THEN << >> ELSE <<" ", ",">>) \o complex(list[i])])

ParsedQueries == [q \in 1 .. Len(Queries) |-> With(WrittenSelector(Queries[q]), ParseSelector)]

\* What a compound means for an element.  Positions are counted among the elements.
Meant(d, id, s) ==
  LET before == {x \in Earlier(d, id) : IsElement(d, x)}
      after  == {x \in ToSet(Siblings(d, id)) \ {id} : id \in Earlier(d, x) /\ IsElement(d, x)}
      nth(place) == \E k \in 0 .. Len(d) : place = s.arg.a * k + s.arg.b
  IN CASE s.is = "first-child"    -> before = {}
       [] s.is = "last-child"     -> after = {}
       [] s.is = "only-child"     -> before \cup after = {}
       [] s.is = "nth-child"      -> nth(Cardinality(before) + 1)
       [] s.is = "nth-last-child" -> nth(Cardinality(after) + 1)
       [] s.is = "not"            -> ~MatchesCompound(d, id, s.arg)
       [] OTHER                   -> MatchesPart(d, id, s)
Means(d, id, parts) == IsElement(d, id) /\ \A i \in 1 .. Len(parts) : Meant(d, id, parts[i])

\* What a combinator means: y is where x wants it.
Stands(d, x, by, y) ==
  CASE by = " " -> IsDescendant(d, y, x)
    [] by = ">" -> d[y].parent = x
    [] by = "~" -> x \in Earlier(d, y)
    [] by = "+" -> x \in Earlier(d, y) /\ Earlier(d, y) \ Earlier(d, x) = {x}

\* A node is selected when there is a chain of elements that ends at it.
Chained(d, id, sel) ==
  LET fit(i) == {x \in 1 .. Len(d) : Means(d, x, sel[i].parts)}
      ends[i \in 1 .. Len(sel)] ==
        IF i = 1 THEN fit(1)
        ELSE {y \in fit(i) : \E x \in ends[i - 1] : Stands(d, x, sel[i].by, y)}
  IN id \in ends[Len(sel)]

\* Texts count as siblings for these, so between elements they say nothing.
Positional(list) ==
  \E i \in 1 .. Len(list) : \E k \in 1 .. Len(list[i]) :
    \/ list[i][k].by = "+"
    \/ \E p \in 1 .. Len(list[i][k].parts) :
         list[i][k].parts[p].is \in {"first-child", "last-child"}
OnlyElements(d) == \A id \in 2 .. Len(d) : IsElement(d, id)

\* A selector that is written and parsed again is the same, and query_selector_all() finds,
\* once each, exactly the nodes below the document at which a chain of elements ends that match
\* its compounds and stand to each other as its combinators say; query_selector() finds one
\* of them whenever there is one.
Selected ==
  in.goal = "query" /\ doc # << >> =>
    \A q \in 1 .. Len(Queries) :
      LET list   == Queries[q]
          parsed == ParsedQueries[q]
          found  == QuerySelectorAllWith(doc, Root, parsed)
          meant  == {id \in 2 .. Len(doc) : \E i \in 1 .. Len(list) : Chained(doc, id, list[i])}
      IN /\ parsed = list
         /\ OnlyElements(doc) \/ ~Positional(list) =>
              /\ ToSet(found) = meant /\ Len(found) = Cardinality(meant)
              /\ QuerySelectorWith(doc, Root, parsed) \in meant \/ meant = {}
================================================================================
