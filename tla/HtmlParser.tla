------------------------------- MODULE HtmlParser ------------------------------
(***************************************************************************)
(* parse() of the browser and what is done with its document: the          *)
(* tokenizer reads the whole input, the tree builder takes its tokens one  *)
(* by one, and then, as the goal of the input says, the document is left,  *)
(* or written as HTML and parsed again, or edited under the eyes of a      *)
(* mutation observer, or searched with selectors (HtmlProperties).         *)
(***************************************************************************)
EXTENDS Tokenizer, TreeBuilder, FiniteSets

CONSTANTS
  Inputs,     \* [goal, html, from]: from is << >>, or the tokens html was written from
  Observers,  \* [target, kinds, subtree, filter]
  Targets,    \* the nodes that edits name
  AttrNames, AttrValues, Classes, NewData, NewTexts,
  MaxEdits    \* bound on the edits

VARIABLES
  in,         \* the input
  doc,        \* the document that parse() returned first, << >> before
  observer,   \* a mutation observer; active is FALSE after disconnect
  pending,    \* pending_mutations
  taken,      \* the records the observer took
  edits       \* how many edits there were

rest == <<in, doc, observer, pending, taken, edits>>
vars == <<t, b, in, doc, observer, pending, taken, edits>>

Idle == [target |-> None, kinds |-> {}, subtree |-> FALSE, filter |-> {}, active |-> FALSE]

Init ==
  /\ in \in Inputs
  /\ t = Fresh(in.html)
  /\ b = NewBuilder
  /\ doc = << >> /\ observer = Idle /\ pending = << >> /\ taken = << >> /\ edits = 0

--------------------------------------------------------------------------------
Parsed == Tokenized /\ b.at > Len(t.tokens)

Tokenize == TokenizerNext /\ UNCHANGED <<b, rest>>

Build == Tokenized /\ b.at <= Len(t.tokens) /\ Process(t.tokens[b.at]) /\ UNCHANGED <<t, rest>>

\* parse() returns; its document is parsed again, observed, or neither.
Return ==
  /\ Parsed /\ doc = << >>
  /\ doc' = b.nodes
  /\ IF in.goal = "reparse" THEN t' = Fresh(OuterHtml(b.nodes, Root)) /\ b' = NewBuilder
     ELSE UNCHANGED <<t, b>>
  /\ IF in.goal = "edit" THEN \E o \in Observers : observer' = o ELSE UNCHANGED observer
  /\ UNCHANGED <<in, pending, taken, edits>>

--------------------------------------------------------------------------------
(* Edits and observation.                                                  *)

Editing == in.goal = "edit" /\ doc # << >>
Nodes   == {id \in Targets : id <= Len(doc)}

Edit(change) ==
  /\ Editing /\ edits < MaxEdits
  /\ doc' = change.doc
  /\ pending' = pending \o change.records
  /\ edits' = edits + 1
  /\ UNCHANGED <<t, b, in, observer, taken>>

EditAttribute ==
  \E id \in Nodes, name \in AttrNames :
    \/ \E value \in AttrValues : Edit(SetAttribute(doc, id, name, value))
    \/ Edit(RemoveAttribute(doc, id, name))

EditClasses ==
  \E id \in Nodes, class \in Classes :
    \/ Edit(ClassListAdd(doc, id, class))
    \/ Edit(ClassListRemove(doc, id, class))

\* Only a child of the parent is replaced: of another node replace_node() detaches the old one
\* and gives the new one a parent that does not list it (dom.rs 497-501).
EditChildren ==
  \E parent \in Nodes :
    \/ \E data \in NewData : Edit(InsertChild(doc, parent, data))
    \/ \E ref \in Nodes, data \in NewData : Edit(InsertNodeBefore(doc, parent, ref, data))
    \/ \E old \in ToSet(doc[parent].children), data \in NewData :
         Edit(ReplaceNode(doc, parent, old, data))

EditRemove == \E id \in Nodes \ {Root} : Edit(RemoveNode(doc, id))

EditText == \E id \in Nodes, text \in NewTexts : Edit(SetTextContent(doc, id, text))

TakeRecords ==
  /\ Editing /\ observer.active /\ pending # << >>
  /\ taken' = taken \o SelectSeq(pending, LAMBDA r : Matches(doc, observer, r))
  /\ pending' = SelectSeq(pending, LAMBDA r : ~Matches(doc, observer, r))
  /\ UNCHANGED <<t, b, in, doc, observer, edits>>

Disconnect ==
  /\ Editing /\ observer.active
  /\ observer' = [observer EXCEPT !.active = FALSE]
  /\ UNCHANGED <<t, b, in, doc, pending, taken, edits>>

--------------------------------------------------------------------------------
Parse == Tokenize \/ Build \/ Return
Next  ==
  \/ Parse
  \/ EditAttribute \/ EditClasses \/ EditChildren \/ EditRemove \/ EditText
  \/ TakeRecords \/ Disconnect

\* parse() is one call: it runs on until it returns.
Spec == Init /\ [][Next]_vars /\ WF_vars(Parse)
================================================================================
