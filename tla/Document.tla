-------------------------------- MODULE Document -------------------------------
(***************************************************************************)
(* The document of the browser (04-browser, src/html/dom.rs): an arena of  *)
(* nodes, the operations that change it, each with the mutation record it  *)
(* leaves, and the way a document is written as HTML.                      *)
(*                                                                         *)
(* A document is the sequence of its nodes; a node is its index, 1 is the  *)
(* document itself and 0 stands for None.  Names, values and texts are     *)
(* sequences of lexemes, as in Tokenizer.  Roles, used by access.rs only,  *)
(* are left out.                                                           *)
(***************************************************************************)
EXTENDS Naturals, Sequences, SequencesExt

Root == 1
None == 0

ElementData(tag, attrs) == [kind |-> "Element", tag |-> tag, attrs |-> attrs]
TextData(s)    == [kind |-> "Text", text |-> s]
CommentData(s) == [kind |-> "Comment", text |-> s]
DoctypeData(d) == [kind |-> "Doctype", doctype |-> d]

NewDocument == << [parent |-> None, children |-> << >>, data |-> [kind |-> "Document"]] >>

IsElement(doc, id) == doc[id].data.kind = "Element"
IsText(doc, id)    == doc[id].data.kind = "Text"
TagNameOf(doc, id) == IF IsElement(doc, id) THEN doc[id].data.tag ELSE << >>
\* Element names in the tables of the code are single words.
Named(name, words) == Len(name) = 1 /\ name[1] \in words
HasTag(doc, id, words) == Named(TagNameOf(doc, id), words)

VoidTags == {"area", "base", "br", "col", "embed", "hr", "img", "input", "link", "meta",
             "param", "source", "track", "wbr"}
Category(tag) ==
  CASE Named(tag, VoidTags)              -> "Void"
    [] Named(tag, {"script", "style"})   -> "RawText"
    [] Named(tag, {"textarea", "title"}) -> "EscapableRawText"
    [] Named(tag, {"template"})          -> "Template"
    [] OTHER                             -> "Normal"

--------------------------------------------------------------------------------
(* The arena.                                                              *)

CreateNode(doc, data) == Append(doc, [parent |-> None, children |-> << >>, data |-> data])

AppendChild(doc, parent, child) ==
  [doc EXCEPT ![child].parent = parent, ![parent].children = Append(@, child)]

\* Mutant: the parent keeps the child in its list.
DetachOneWay(doc, child) == [doc EXCEPT ![child].parent = None]

DetachFromParent(doc, child) ==
  LET parent == doc[child].parent
  IN IF parent = None THEN doc
     ELSE [doc EXCEPT ![parent].children = SelectSeq(@, LAMBDA c : c # child), ![child].parent = None]

\* A node and what is below it, breadth first: level by level.
BreadthFirst(doc, id) ==
  LET Below(level) == FlattenSeq([i \in 1 .. Len(level) |-> doc[level[i]].children])
      from[level \in Seq(1 .. Len(doc))] == IF level = << >> THEN level ELSE level \o from[Below(level)]
  IN from[<<id>>]

FindAllElements(doc, tag) ==
  SelectSeq(BreadthFirst(doc, Root), LAMBDA id : IsElement(doc, id) /\ TagNameOf(doc, id) = tag)
FindElement(doc, tag) ==
  LET all == FindAllElements(doc, tag) IN IF all = << >> THEN None ELSE Head(all)

TextContent(doc, id) ==
  LET text[i \in 1 .. Len(doc)] ==
        IF IsText(doc, i) THEN doc[i].data.text
        ELSE FlattenSeq([c \in 1 .. Len(doc[i].children) |-> text[doc[i].children[c]]])
  IN text[id]

--------------------------------------------------------------------------------
(* Navigation and attributes.                                              *)

LastChildOf(doc, id) == IF doc[id].children = << >> THEN None ELSE Last(doc[id].children)

Siblings(doc, id) == IF doc[id].parent = None THEN << >> ELSE doc[doc[id].parent].children
NextSiblingOf(doc, id) ==
  LET at == SelectInSeq(Siblings(doc, id), LAMBDA c : c = id)
  IN IF at \in {0, Len(Siblings(doc, id))} THEN None ELSE Siblings(doc, id)[at + 1]
PreviousSiblingOf(doc, id) ==
  LET at == SelectInSeq(Siblings(doc, id), LAMBDA c : c = id)
  IN IF at \in {0, 1} THEN None ELSE Siblings(doc, id)[at - 1]

AttributesOf(doc, id) == IF IsElement(doc, id) THEN doc[id].data.attrs ELSE << >>
\* << >> when there is no such attribute, <<value>> when there is.
GetAttribute(doc, id, name) ==
  LET found == SelectSeq(AttributesOf(doc, id), LAMBDA a : a.name = name)
  IN IF found = << >> THEN << >> ELSE <<Head(found).value>>
HasAttribute(doc, id, name) == GetAttribute(doc, id, name) # << >>

--------------------------------------------------------------------------------
(* Changes.  Each returns the document and the records it adds.            *)

AttributeRecord(id, name, old) ==
  [kind |-> "Attributes", target |-> id, name |-> name, old |-> old]
ChildListRecord(parent, added, removed, prev, next) ==
  [kind |-> "ChildList", target |-> parent, added |-> added, removed |-> removed,
   prev |-> prev, next |-> next]

WithAttribute(attrs, name, value) ==
  LET at == SelectInSeq(attrs, LAMBDA a : a.name = name)
  IN IF at = 0 THEN Append(attrs, [name |-> name, value |-> value])
     ELSE [attrs EXCEPT ![at].value = value]

SetAttribute(doc, id, name, value) ==
  [doc |-> IF IsElement(doc, id)
           THEN [doc EXCEPT ![id].data.attrs = WithAttribute(@, name, value)] ELSE doc,
   records |-> << AttributeRecord(id, name, GetAttribute(doc, id, name)) >>]

RemoveAttribute(doc, id, name) ==
  [doc |-> IF IsElement(doc, id)
           THEN [doc EXCEPT ![id].data.attrs = SelectSeq(@, LAMBDA a : a.name # name)] ELSE doc,
   records |-> IF HasAttribute(doc, id, name)
               THEN << AttributeRecord(id, name, GetAttribute(doc, id, name)) >> ELSE << >>]

InsertChild(doc, parent, data) ==
  LET new == Len(doc) + 1
  IN [doc |-> AppendChild(CreateNode(doc, data), parent, new),
      records |-> << ChildListRecord(parent, <<new>>, << >>, LastChildOf(doc, parent), None) >>]

\* Mutant: the siblings are looked up after the node was detached.
RemoveNodeLate(doc, child) ==
  LET rest == DetachFromParent(doc, child)
  IN [doc |-> rest,
      records |-> IF doc[child].parent = None THEN << >>
                  ELSE << ChildListRecord(doc[child].parent, << >>, <<child>>,
                            PreviousSiblingOf(rest, child), NextSiblingOf(rest, child)) >>]

RemoveNode(doc, child) ==
  [doc |-> DetachFromParent(doc, child),
   records |-> IF doc[child].parent = None THEN << >>
               ELSE << ChildListRecord(doc[child].parent, << >>, <<child>>,
                         PreviousSiblingOf(doc, child), NextSiblingOf(doc, child)) >>]

\* A reference that is no child of the parent is taken for the end of its children.
InsertNodeBefore(doc, parent, ref, data) ==
  LET new == Len(doc) + 1
      pos == SelectInSeq(doc[parent].children, LAMBDA c : c = ref)
      at  == IF pos = 0 THEN Len(doc[parent].children) + 1 ELSE pos
  IN [doc |-> [CreateNode(doc, data) EXCEPT ![parent].children = InsertAt(@, at, new),
                                            ![new].parent = parent],
      records |-> << ChildListRecord(parent, <<new>>, << >>, PreviousSiblingOf(doc, ref), ref) >>]

ReplaceNode(doc, parent, old, data) ==
  LET new == Len(doc) + 1
  IN [doc |-> [CreateNode(doc, data) EXCEPT
                 ![parent].children = [i \in 1 .. Len(@) |-> IF @[i] = old THEN new ELSE @[i]],
                 ![new].parent = parent,
                 ![old].parent = None],
      records |-> << ChildListRecord(parent, <<new>>, <<old>>,
                       PreviousSiblingOf(doc, old), NextSiblingOf(doc, old)) >>]

SetTextContent(doc, id, text) ==
  IF ~IsText(doc, id) THEN [doc |-> doc, records |-> << >>]
  ELSE [doc |-> [doc EXCEPT ![id].data.text = text],
        records |-> << [kind |-> "CharacterData", target |-> id, old |-> doc[id].data.text] >>]

\* The class attribute is a text of classes with blanks between.
ClassList(doc, id) ==
  LET class == GetAttribute(doc, id, <<"class">>)
  IN IF class = << >> THEN << >> ELSE SelectSeq(class[1], LAMBDA c : c # " ")
ClassText(classes) ==
  [i \in 1 .. (IF classes = << >> THEN 0 ELSE 2 * Len(classes) - 1) |->
     IF i % 2 = 1 THEN classes[(i + 1) \div 2] ELSE " "]
ClassListAdd(doc, id, class) ==
  IF Contains(ClassList(doc, id), class) THEN [doc |-> doc, records |-> << >>]
  ELSE SetAttribute(doc, id, <<"class">>, ClassText(Append(ClassList(doc, id), class)))
ClassListRemove(doc, id, class) ==
  SetAttribute(doc, id, <<"class">>, ClassText(SelectSeq(ClassList(doc, id), LAMBDA c : c # class)))

--------------------------------------------------------------------------------
(* Mutation observers (dom/mutation.rs).                                   *)

\* The parents are read in the tree as it is now, not as it was at the change.
IsDescendant(doc, id, ancestor) ==
  LET under[i \in 0 .. Len(doc)] ==
        i # None /\ (doc[i].parent = ancestor \/ under[doc[i].parent])
  IN under[id]

Matches(doc, o, record) ==
  /\ \/ record.target = o.target
     \/ o.subtree /\ IsDescendant(doc, record.target, o.target)
  /\ record.kind \in o.kinds
  /\ record.kind = "Attributes" /\ o.filter # {} => record.name \in o.filter

--------------------------------------------------------------------------------
(* The document as HTML.                                                   *)

HtmlEscape(text) ==
  FlattenSeq([i \in 1 .. Len(text) |->
    CASE text[i] = "&"  -> <<"&", "amp", ";">>
      [] text[i] = "<"  -> <<"&", "lt", ";">>
      [] text[i] = ">"  -> <<"&", "gt", ";">>
      [] text[i] = "\"" -> <<"&", "quot", ";">>
      [] text[i] = "'"  -> <<"&", "#", "x27", ";">>
      [] OTHER          -> <<text[i]>>])

EscapeQuotes(value) ==
  FlattenSeq([i \in 1 .. Len(value) |->
    IF value[i] = "\"" THEN <<"&", "quot", ";">> ELSE <<value[i]>>])


OpeningTag(tag, attrs) ==
  <<"<">> \o tag
  \o FlattenSeq([i \in 1 .. Len(attrs) |->
       <<" ">> \o attrs[i].name \o <<"=", "\"">> \o EscapeQuotes(attrs[i].value) \o <<"\"">>])
  \o <<">">>

\* What a void element has for children is not written.
OuterHtml(doc, id) ==
  LET html[i \in 1 .. Len(doc)] ==
        LET d == doc[i].data
            inner == FlattenSeq([c \in 1 .. Len(doc[i].children) |-> html[doc[i].children[c]]])
        IN CASE d.kind = "Document" -> inner
             [] d.kind = "Text"     -> HtmlEscape(d.text)
             [] d.kind = "Comment"  -> <<"<", "!", "-", "-">> \o d.text \o <<"-", "-", ">">>
             [] d.kind = "Doctype"  -> <<"<", "!", "doctype", " ">> \o d.doctype.name \o <<">">>
             [] d.kind = "Element" /\ Category(d.tag) = "Void" -> OpeningTag(d.tag, d.attrs)
             [] d.kind = "Element" /\ Category(d.tag) # "Void" ->
                  OpeningTag(d.tag, d.attrs) \o inner \o <<"<", "/">> \o d.tag \o <<">">>
  IN html[id]
================================================================================
