------------------------------- MODULE Tokenizer -------------------------------
(***************************************************************************)
(* The HTML tokenizer of the browser (04-browser, src/html/tokenizer.rs).  *)
(* One action per state of its machine; a step handles one character, as   *)
(* one turn of the loop in step() does.                                    *)
(*                                                                         *)
(* The input is a sequence of lexemes.  A lexeme is one of the characters  *)
(* the machine looks at, or a word: a run of ordinary letters, which every *)
(* state treats letter by letter in the same way.  A name, a value or a    *)
(* text is a sequence of lexemes.  Parse errors are diagnostics and are    *)
(* left out.                                                               *)
(***************************************************************************)
EXTENDS Naturals, Sequences, SequencesExt

CONSTANTS
  MaxTokens   \* bound on the tokens of an input that never ends

ASSUME MaxTokensAssumption == MaxTokens \in Nat

VARIABLE t    \* the tokenizer, its input and the tokens so far

\* Lexemes that are no letters; " " stands for every blank.
Marks  == {"<", ">", "/", "!", "?", "-", "=", "'", "\"", "&", ";", "#", "[", "]", " ",
           "NUL", "EOF"}
Letter(c) == c \notin Marks
Quotes == {"'", "\""}

\* to_ascii_lowercase; "A" stands for the words that have capitals.
Lower(c) == IF c = "A" THEN "a" ELSE c
Clean(c) == IF c = "NUL" THEN "U+FFFD" ELSE c

Entities == [amp |-> "&", lt |-> "<", gt |-> ">", quot |-> "\""]
Numerics == [x27 |-> "'", x3c |-> "<"]

TextToken(s)    == [type |-> "Text", text |-> s]
CommentToken(s) == [type |-> "Comment", text |-> s]
EndTag(n)       == [type |-> "EndTag", name |-> n]
StartTag(n, a, closed) == [type |-> "StartTag", name |-> n, attrs |-> a, selfClosing |-> closed]
DoctypeToken(d) == [type |-> "Doctype", doctype |-> d]
EofToken        == [type |-> "Eof"]

NoTag     == [name |-> << >>, attrs |-> << >>, isEnd |-> FALSE, selfClosing |-> FALSE]
NoAttr    == [name |-> << >>, value |-> << >>]
\* An identifier is << >> when absent (None) and <<id>> when present.
NoDoctype == [name |-> << >>, public |-> << >>, system |-> << >>, quirks |-> FALSE]

Fresh(html) ==
  [input |-> html, pos |-> 1, state |-> "Data", raw |-> << >>, rawBuf |-> << >>,
   pending |-> << >>, tag |-> NoTag, attr |-> NoAttr, text |-> << >>, comment |-> << >>,
   doctype |-> NoDoctype, tokens |-> << >>]

At(r, p) == IF p > Len(r.input) THEN "EOF" ELSE r.input[p]
Cur      == At(t, t.pos)
Other(seen) == Cur \notin seen \cup {"EOF"}

--------------------------------------------------------------------------------
(* Helpers.                                                                *)

Go(r, s)         == [r EXCEPT !.state = s]
Advance(r)       == [r EXCEPT !.pos = @ + 1]
AddText(r, s)    == [r EXCEPT !.text = @ \o s]
AddComment(r, s) == [r EXCEPT !.comment = @ \o s]

\* tokenize() takes the token that step() returned and then drains the pending one,
\* unless the token was Eof, which ends the loop.
Emit(r, token) ==
  [r EXCEPT !.tokens  = Append(@, token) \o (IF token.type = "Eof" THEN << >> ELSE r.pending),
            !.pending = IF token.type = "Eof" THEN @ ELSE << >>]

EmitText(r) ==
  IF r.text = << >> THEN r ELSE [Emit(r, TextToken(r.text)) EXCEPT !.text = << >>]

EmitComment(r) == [Emit(r, CommentToken(r.comment)) EXCEPT !.comment = << >>]

EmitDoctype(r) == [Emit(r, DoctypeToken(r.doctype)) EXCEPT !.doctype = NoDoctype]

\* Mutant: the loop of tokenize() goes on after Eof.
EmitEofOnly(r) == Emit(r, EofToken)

EmitEof(r) == Go(Emit(r, EofToken), "Done")

\* Eof, or the text that is left and Eof at the next step.
EndOfText(r) == IF r.text = << >> THEN EmitEof(r) ELSE Go(EmitText(r), "Data")

\* Of several attributes with one name the first is kept.
FinishAttribute(r) ==
  [r EXCEPT !.attr = NoAttr,
            !.tag.attrs = IF \/ r.attr = NoAttr
                             \/ \E i \in 1 .. Len(@) : @[i].name = r.attr.name
                          THEN @ ELSE Append(@, r.attr)]

TagToken(tag) ==
  IF tag.isEnd THEN EndTag(tag.name) ELSE StartTag(tag.name, tag.attrs, tag.selfClosing)

EmitTag(r) == [Emit(r, TagToken(FinishAttribute(r).tag)) EXCEPT !.tag = NoTag, !.attr = NoAttr]

RawNames    == {<<"script">>, <<"style">>}
RCDataNames == {<<"textarea">>, <<"title">>}

SetRawEndTag(r) ==
  [r EXCEPT !.raw = IF ~r.tag.isEnd
                    THEN IF r.tag.name \in RawNames \cup RCDataNames THEN r.tag.name ELSE @
                    ELSE IF r.tag.name = @ THEN << >> ELSE @]

StateAfterTag(raw) ==
  IF raw \in RawNames THEN "RawText" ELSE IF raw \in RCDataNames THEN "RCData" ELSE "Data"

\* The '>' that ends a tag: emit_tag_and_set_raw_state, then next_state_after_tag.
EndOfTag(r) ==
  LET set == SetRawEndTag(Advance(r)) IN Go(EmitTag(set), StateAfterTag(set.raw))

\* Mutant: the ';' behind a reference is read again.
EntityKeepsSemicolon(r, p) ==
  LET c == At(r, p)
  IN IF c \in DOMAIN Entities /\ ~Letter(At(r, p + 1))
     THEN [is |-> Entities[c], next |-> p + 1]
     ELSE [is |-> "&", next |-> p]

\* What an '&' before position p stands for, and where reading goes on.
Entity(r, p) ==
  LET c == At(r, p)  d == At(r, p + 1)
      past(q) == IF At(r, q) = ";" THEN q + 1 ELSE q
  IN IF c = "#" /\ d \in DOMAIN Numerics
     THEN [is |-> Numerics[d], next |-> past(p + 2)]
     ELSE IF c \in DOMAIN Entities /\ ~Letter(d) /\ d # "-"
     THEN [is |-> Entities[c], next |-> past(p + 1)]
     ELSE [is |-> "&", next |-> p]

Decode(r) ==
  [AddText(r, <<Entity(r, r.pos + 1).is>>) EXCEPT !.pos = Entity(r, r.pos + 1).next]
DecodeValue(r) ==
  [r EXCEPT !.attr.value = Append(@, Entity(r, r.pos + 1).is), !.pos = Entity(r, r.pos + 1).next]

\* The position of the next '>', or of the end, and what is read up to there.
CloseAt(r) ==
  LET closing == {i \in r.pos .. Len(r.input) : r.input[i] = ">"}
  IN IF closing = {} THEN Len(r.input) + 1 ELSE CHOOSE i \in closing : \A j \in closing : i <= j
Skip(r, p) == [r EXCEPT !.pos = IF p > Len(r.input) THEN p ELSE p + 1]
BogusComment(r) ==
  EmitComment(Skip([r EXCEPT !.comment = SubSeq(r.input, r.pos, CloseAt(r) - 1)], CloseAt(r)))

--------------------------------------------------------------------------------
(* Text, and the raw text of script, style, textarea and title.            *)

Data ==
  /\ t.state = "Data"
  /\ \/ Cur = "EOF" /\ t' = EndOfText(t)
     \/ Cur = "<"   /\ t' = Go(EmitText(Advance(t)), "TagOpen")
     \/ Cur = "&"   /\ t' = Decode(t)
     \/ Other({"<", "&"}) /\ t' = Advance(AddText(t, <<Cur>>))

RawText ==
  /\ t.state = "RawText"
  /\ \/ Cur = "EOF" /\ t' = EndOfText(t)
     \/ Cur = "<"   /\ t' = Go([Advance(t) EXCEPT !.rawBuf = <<"<">>], "RawTextLessThanSign")
     \/ Other({"<"}) /\ t' = Advance(AddText(t, <<Cur>>))

RCData ==
  /\ t.state = "RCData"
  /\ \/ Cur = "EOF" /\ t' = EndOfText(t)
     \/ Cur = "&"   /\ t' = Decode(t)
     \/ Cur = "<"   /\ t' = Go([Advance(t) EXCEPT !.rawBuf = <<"<">>], "RCDataLessThanSign")
     \/ Other({"<", "&"}) /\ t' = Advance(AddText(t, <<Cur>>))

\* What looked like an end tag is text; the character is read again.
NotAnEndTag(text) == [Go(AddText(t, t.rawBuf), text) EXCEPT !.rawBuf = << >>]

LessThanSign(text, open) ==
  \/ Cur = "/" /\ t' = Go([Advance(t) EXCEPT !.rawBuf = Append(@, "/")], open)
  \/ Cur # "/" /\ t' = NotAnEndTag(text)

RawTextLessThanSign ==
  t.state = "RawTextLessThanSign" /\ LessThanSign("RawText", "RawTextEndTagOpen")
RCDataLessThanSign ==
  t.state = "RCDataLessThanSign" /\ LessThanSign("RCData", "RCDataEndTagOpen")

BeginTag(r, isEnd) == [Advance(r) EXCEPT !.tag = [NoTag EXCEPT !.name = <<Lower(Cur)>>, !.isEnd = isEnd]]

RawEndTagOpen(text, name) ==
  \/ Letter(Cur) /\ t' = Go([BeginTag(t, TRUE) EXCEPT !.rawBuf = Append(@, Lower(Cur))], name)
  \/ ~Letter(Cur) /\ t' = NotAnEndTag(text)

RawTextEndTagOpen ==
  t.state = "RawTextEndTagOpen" /\ RawEndTagOpen("RawText", "RawTextEndTagName")
RCDataEndTagOpen ==
  t.state = "RCDataEndTagOpen" /\ RawEndTagOpen("RCData", "RCDataEndTagName")

\* A '>' queues the end tag behind the text; without text the same step goes on to
\* the next token, which then comes first.
RawEndTagName(text) ==
  LET ends   == t.tag.name = t.raw
      isText == [NotAnEndTag(text) EXCEPT !.tag = NoTag]
  IN \/ /\ Letter(Cur) \/ Cur = "-"
        /\ t' = [Advance(t) EXCEPT !.tag.name = Append(@, Lower(Cur)), !.rawBuf = Append(@, Cur)]
     \/ Cur = " " /\ ends /\ t' = Go(EmitText(t), "BeforeAttributeName")
     \/ /\ Cur = ">" /\ ends
        /\ t' = Go(EmitText([Advance(t) EXCEPT !.raw = << >>, !.tag = NoTag,
                                               !.pending = <<TagToken(t.tag)>>]), "Data")
     \/ Cur = "/" /\ ends /\ t' = Go(Advance(t), "SelfClosingStartTag")
     \/ Cur \in {" ", ">", "/"} /\ ~ends /\ t' = isText
     \/ Cur = "EOF" /\ t' = EndOfText(isText)
     \/ Other({"-", " ", ">", "/"}) /\ ~Letter(Cur) /\ t' = isText

RawTextEndTagName == t.state = "RawTextEndTagName" /\ RawEndTagName("RawText")
RCDataEndTagName  == t.state = "RCDataEndTagName" /\ RawEndTagName("RCData")

--------------------------------------------------------------------------------
(* Tags and attributes.                                                    *)

\* After a processing instruction the state is still TagOpen.
TagOpen ==
  /\ t.state = "TagOpen"
  /\ \/ Cur = "/" /\ t' = Go(Advance(t), "EndTagOpen")
     \/ Letter(Cur) /\ t' = Go(BeginTag(t, FALSE), "TagName")
     \/ Cur = "!" /\ t' = Go(Advance(t), "MarkupDeclarationOpen")
     \/ Cur = "?" /\ t' = BogusComment(t)
     \/ Cur = "EOF" /\ t' = EndOfText(AddText(t, <<"<">>))
     \/ Other({"/", "!", "?"}) /\ ~Letter(Cur) /\ t' = Go(AddText(t, <<"<">>), "Data")

EndTagOpen ==
  /\ t.state = "EndTagOpen"
  /\ \/ Letter(Cur) /\ t' = Go(BeginTag(t, TRUE), "TagName")
     \/ Cur = ">" /\ t' = Go(Advance(t), "Data")
     \/ Cur = "EOF" /\ t' = EndOfText(AddText(t, <<"<", "/">>))
     \/ Other({">"}) /\ ~Letter(Cur) /\ t' = Go(BogusComment(t), "Data")

TagName ==
  /\ t.state = "TagName"
  /\ \/ Cur = " " /\ t' = Go(Advance(t), "BeforeAttributeName")
     \/ Cur = "/" /\ t' = Go(Advance(t), "SelfClosingStartTag")
     \/ Cur = ">" /\ t' = EndOfTag(t)
     \/ Cur = "EOF" /\ t' = EmitEof(t)
     \/ Other({" ", "/", ">"}) /\ t' = [Advance(t) EXCEPT !.tag.name = Append(@, Clean(Lower(Cur)))]

\* This '>' leaves raw as it is: the end tag of a raw element does not end it here.
SelfClosingStartTag ==
  /\ t.state = "SelfClosingStartTag"
  /\ \/ Cur = ">" /\ t' = Go(EmitTag([Advance(t) EXCEPT !.tag.selfClosing = TRUE]), "Data")
     \/ Cur = "EOF" /\ t' = EmitEof(t)
     \/ Other({">"}) /\ t' = Go(t, "BeforeAttributeName")

AddName(r)  == [Advance(r) EXCEPT !.attr.name = Append(@, Clean(Lower(Cur)))]
AddValue(r) == [Advance(r) EXCEPT !.attr.value = Append(@, Clean(Cur))]

\* The '=' does not finish the attribute before it, which a quoted value left open.
BeforeAttributeName ==
  /\ t.state = "BeforeAttributeName"
  /\ \/ Cur = " " /\ t' = Advance(t)
     \/ Cur \in {"/", ">", "EOF"} /\ t' = Go(t, "AfterAttributeName")
     \/ Cur = "=" /\ t' = Go(AddName(t), "AttributeName")
     \/ Other({" ", "/", ">", "="}) /\ t' = Go(FinishAttribute(t), "AttributeName")

AttributeName ==
  /\ t.state = "AttributeName"
  /\ \/ Cur = " " /\ t' = Go(Advance(t), "AfterAttributeName")
     \/ Cur \in {"/", ">", "EOF"} /\ t' = Go(t, "AfterAttributeName")
     \/ Cur = "=" /\ t' = Go(Advance(t), "BeforeAttributeValue")
     \/ Other({" ", "/", ">", "="}) /\ t' = AddName(t)

AfterAttributeName ==
  /\ t.state = "AfterAttributeName"
  /\ \/ Cur = " " /\ t' = Advance(t)
     \/ Cur = "/" /\ t' = Go(Advance(FinishAttribute(t)), "SelfClosingStartTag")
     \/ Cur = "=" /\ t' = Go(Advance(t), "BeforeAttributeValue")
     \/ Cur = ">" /\ t' = EndOfTag(FinishAttribute(t))
     \/ Cur = "EOF" /\ t' = EmitEof(FinishAttribute(t))
     \/ Other({" ", "/", "=", ">"}) /\ t' = Go(FinishAttribute(t), "AttributeName")

BeforeAttributeValue ==
  /\ t.state = "BeforeAttributeValue"
  /\ \/ Cur = " " /\ t' = Advance(t)
     \/ Cur = "\"" /\ t' = Go(Advance(t), "AttributeValueDoubleQuoted")
     \/ Cur = "'" /\ t' = Go(Advance(t), "AttributeValueSingleQuoted")
     \/ Cur = ">" /\ t' = EndOfTag(FinishAttribute(t))
     \/ Cur \notin {" ", ">"} \cup Quotes /\ t' = Go(t, "AttributeValueUnquoted")

AttributeValueQuoted(quote) ==
  \/ Cur = quote /\ t' = Go(Advance(t), "AfterAttributeValueQuoted")
  \/ Cur = "&" /\ t' = DecodeValue(t)
  \/ Cur = "EOF" /\ t' = EmitEof(FinishAttribute(t))
  \/ Other({quote, "&"}) /\ t' = AddValue(t)

AttributeValueDoubleQuoted ==
  t.state = "AttributeValueDoubleQuoted" /\ AttributeValueQuoted("\"")
AttributeValueSingleQuoted ==
  t.state = "AttributeValueSingleQuoted" /\ AttributeValueQuoted("'")

AttributeValueUnquoted ==
  /\ t.state = "AttributeValueUnquoted"
  /\ \/ Cur = " " /\ t' = Go(Advance(FinishAttribute(t)), "BeforeAttributeName")
     \/ Cur = "&" /\ t' = DecodeValue(t)
     \/ Cur = ">" /\ t' = EndOfTag(FinishAttribute(t))
     \/ Cur = "EOF" /\ t' = EmitEof(FinishAttribute(t))
     \/ Other({" ", "&", ">"}) /\ t' = AddValue(t)

\* The attribute is finished later, by the next name or by the end of the tag.
AfterAttributeValueQuoted ==
  /\ t.state = "AfterAttributeValueQuoted"
  /\ \/ Cur = " " /\ t' = Go(Advance(t), "BeforeAttributeName")
     \/ Cur = "/" /\ t' = Go(Advance(t), "SelfClosingStartTag")
     \/ Cur = ">" /\ t' = EndOfTag(t)
     \/ Cur = "EOF" /\ t' = EmitEof(t)
     \/ Other({" ", "/", ">"}) /\ t' = Go(t, "BeforeAttributeName")

--------------------------------------------------------------------------------
(* Comments.                                                               *)

Peek(words) == IsPrefix(words, SubSeq(t.input, t.pos, Len(t.input)))
Past(words) == [t EXCEPT !.pos = @ + Len(words)]

\* The comment of a CDATA section runs to "]]>" or to the end of the input.
CDataSection(r) ==
  LET ends == {i \in r.pos .. Len(r.input) - 2 : SubSeq(r.input, i, i + 2) = <<"]", "]", ">">>}
      end  == IF ends = {} THEN Len(r.input) + 1 ELSE CHOOSE i \in ends : \A j \in ends : i <= j
  IN EmitComment([r EXCEPT !.comment = SubSeq(r.input, r.pos, end - 1),
                           !.pos = IF ends = {} THEN end ELSE end + 3])

MarkupDeclarationOpen ==
  /\ t.state = "MarkupDeclarationOpen"
  /\ \/ Peek(<<"-", "-">>) /\ t' = Go([Past(<<"-", "-">>) EXCEPT !.comment = << >>], "CommentStart")
     \/ Peek(<<"doctype">>) /\ t' = Go(Advance(t), "Doctype")
     \/ Peek(<<"[", "cdata", "[">>) /\ t' = Go(CDataSection(Past(<<"[", "cdata", "[">>)), "Data")
     \/ /\ ~Peek(<<"-", "-">>) /\ ~Peek(<<"doctype">>) /\ ~Peek(<<"[", "cdata", "[">>)
        /\ t' = Go(BogusComment(t), "Data")

CommentStart ==
  /\ t.state = "CommentStart"
  /\ \/ Cur = "-" /\ t' = Go(Advance(t), "CommentStartDash")
     \/ Cur = ">" /\ t' = Go(EmitComment(Advance(t)), "Data")
     \/ Cur \notin {"-", ">"} /\ t' = Go(t, "Comment")

CommentStartDash ==
  /\ t.state = "CommentStartDash"
  /\ \/ Cur = "-" /\ t' = Go(Advance(t), "CommentEnd")
     \/ Cur = ">" /\ t' = Go(EmitComment(Advance(t)), "Data")
     \/ Cur = "EOF" /\ t' = Go(EmitComment(t), "Data")
     \/ Other({"-", ">"}) /\ t' = Go(AddComment(t, <<"-">>), "Comment")

Comment ==
  /\ t.state = "Comment"
  /\ \/ Cur = "-" /\ t' = Go(Advance(t), "CommentEndDash")
     \/ Cur = "EOF" /\ t' = Go(EmitComment(t), "Data")
     \/ Other({"-"}) /\ t' = Advance(AddComment(t, <<Clean(Cur)>>))

\* The dash this state was entered by is the only one it gives back.
CommentEndDash ==
  /\ t.state = "CommentEndDash"
  /\ \/ Cur = "-" /\ t' = Go(Advance(t), "CommentEnd")
     \/ Cur = "EOF" /\ t' = Go(EmitComment(t), "Data")
     \/ Other({"-"}) /\ t' = Go(AddComment(t, <<"-">>), "Comment")

CommentEnd ==
  /\ t.state = "CommentEnd"
  /\ \/ Cur = ">" /\ t' = Go(EmitComment(Advance(t)), "Data")
     \/ Cur = "!" /\ t' = Go(Advance(t), "CommentEndBang")
     \/ Cur = "-" /\ t' = Advance(AddComment(t, <<"-">>))
     \/ Cur = "EOF" /\ t' = Go(EmitComment(t), "Data")
     \/ Other({">", "!", "-"}) /\ t' = Go(AddComment(t, <<"-", "-">>), "Comment")

CommentEndBang ==
  /\ t.state = "CommentEndBang"
  /\ \/ Cur = "-" /\ t' = Go(Advance(AddComment(t, <<"-", "-", "!">>)), "CommentEndDash")
     \/ Cur = ">" /\ t' = Go(EmitComment(Advance(t)), "Data")
     \/ Cur = "EOF" /\ t' = Go(EmitComment(t), "Data")
     \/ Other({"-", ">"}) /\ t' = Go(AddComment(t, <<"-", "-", "!">>), "Comment")

--------------------------------------------------------------------------------
(* Document types.                                                         *)

Quirks(r)     == [r EXCEPT !.doctype.quirks = TRUE]
EndDoctype(r) == Go(EmitDoctype(r), "Data")
AddDoctypeName(r) == [Advance(r) EXCEPT !.doctype.name = Append(@, Clean(Lower(Cur)))]

Doctype ==
  /\ t.state = "Doctype"
  /\ \/ Cur = " " /\ t' = Go(Advance(t), "BeforeDoctypeName")
     \/ Cur = "EOF" /\ t' = EndDoctype(Quirks(t))
     \/ Other({" "}) /\ t' = Go(t, "BeforeDoctypeName")

BeforeDoctypeName ==
  /\ t.state = "BeforeDoctypeName"
  /\ \/ Cur = " " /\ t' = Advance(t)
     \/ Cur = ">" /\ t' = EndDoctype(Advance(Quirks(t)))
     \/ Cur = "EOF" /\ t' = EndDoctype(Quirks(t))
     \/ Other({" ", ">"}) /\ t' = Go(AddDoctypeName(t), "DoctypeName")

DoctypeName ==
  /\ t.state = "DoctypeName"
  /\ \/ Cur = " " /\ t' = Go(Advance(t), "AfterDoctypeName")
     \/ Cur = ">" /\ t' = EndDoctype(Advance(t))
     \/ Cur = "EOF" /\ t' = EndDoctype(Quirks(t))
     \/ Other({" ", ">"}) /\ t' = AddDoctypeName(t)

AfterDoctypeName ==
  /\ t.state = "AfterDoctypeName"
  /\ \/ Cur = " " /\ t' = Advance(t)
     \/ Cur = ">" /\ t' = EndDoctype(Advance(t))
     \/ Cur = "EOF" /\ t' = EndDoctype(Quirks(t))
     \/ Cur = "public" /\ t' = Go(Advance(t), "AfterDoctypePublicKeyword")
     \/ Cur = "system" /\ t' = Go(Advance(t), "AfterDoctypeSystemKeyword")
     \/ Other({" ", ">", "public", "system"}) /\ t' = EndDoctype(Skip(Quirks(t), CloseAt(t)))

\* The opening quote of an identifier; field is "public" or "system".
OpenId(field, double, single) ==
  \/ Cur = "\"" /\ t' = Go([Advance(t) EXCEPT !.doctype[field] = << << >> >>], double)
  \/ Cur = "'"  /\ t' = Go([Advance(t) EXCEPT !.doctype[field] = << << >> >>], single)
OpenPublic == OpenId("public", "DoctypePublicIdDoubleQuoted", "DoctypePublicIdSingleQuoted")
OpenSystem == OpenId("system", "DoctypeSystemIdDoubleQuoted", "DoctypeSystemIdSingleQuoted")
Bogus      == t' = Go(Quirks(t), "BogusDoctype")

AfterDoctypePublicKeyword ==
  /\ t.state = "AfterDoctypePublicKeyword"
  /\ \/ Cur = " " /\ t' = Go(Advance(t), "BeforeDoctypePublicId")
     \/ OpenPublic
     \/ Cur = ">" /\ t' = EndDoctype(Advance(Quirks(t)))
     \/ Cur = "EOF" /\ t' = EndDoctype(Quirks(t))
     \/ Other({" ", ">"} \cup Quotes) /\ Bogus

BeforeDoctypePublicId ==
  /\ t.state = "BeforeDoctypePublicId"
  /\ \/ Cur = " " /\ t' = Advance(t)
     \/ OpenPublic
     \/ Cur \notin {" "} \cup Quotes /\ Bogus

\* At the end of the input the state stays: the next step is here again.
DoctypeId(field, quote, after) ==
  \/ Cur = quote /\ t' = Go(Advance(t), after)
  \/ Cur = ">" /\ t' = EndDoctype(Advance(Quirks(t)))
  \/ Cur = "EOF" /\ t' = EmitDoctype(Quirks(t))
  \/ /\ Other({quote, ">"})
     /\ t' = [Advance(t) EXCEPT !.doctype[field] = << Append(@[1], Cur) >>]

DoctypePublicIdDoubleQuoted ==
  t.state = "DoctypePublicIdDoubleQuoted" /\ DoctypeId("public", "\"", "AfterDoctypePublicId")
DoctypePublicIdSingleQuoted ==
  t.state = "DoctypePublicIdSingleQuoted" /\ DoctypeId("public", "'", "AfterDoctypePublicId")
DoctypeSystemIdDoubleQuoted ==
  t.state = "DoctypeSystemIdDoubleQuoted" /\ DoctypeId("system", "\"", "AfterDoctypeSystemId")
DoctypeSystemIdSingleQuoted ==
  t.state = "DoctypeSystemIdSingleQuoted" /\ DoctypeId("system", "'", "AfterDoctypeSystemId")

AfterDoctypePublicId ==
  /\ t.state = "AfterDoctypePublicId"
  /\ \/ Cur = " " /\ t' = Go(Advance(t), "BetweenDoctypePublicAndSystemIds")
     \/ Cur = ">" /\ t' = EndDoctype(Advance(t))
     \/ OpenSystem
     \/ Cur \notin {" ", ">"} \cup Quotes /\ Bogus

BetweenDoctypePublicAndSystemIds ==
  /\ t.state = "BetweenDoctypePublicAndSystemIds"
  /\ \/ Cur = " " /\ t' = Advance(t)
     \/ Cur = ">" /\ t' = EndDoctype(Advance(t))
     \/ OpenSystem
     \/ Cur \notin {" ", ">"} \cup Quotes /\ Bogus

AfterDoctypeSystemKeyword ==
  /\ t.state = "AfterDoctypeSystemKeyword"
  /\ \/ Cur = " " /\ t' = Go(Advance(t), "BeforeDoctypeSystemId")
     \/ OpenSystem
     \/ Cur \notin {" "} \cup Quotes /\ Bogus

BeforeDoctypeSystemId ==
  /\ t.state = "BeforeDoctypeSystemId"
  /\ \/ Cur = " " /\ t' = Advance(t)
     \/ OpenSystem
     \/ Cur \notin {" "} \cup Quotes /\ Bogus

AfterDoctypeSystemId ==
  /\ t.state = "AfterDoctypeSystemId"
  /\ \/ Cur = " " /\ t' = Advance(t)
     \/ Cur = ">" /\ t' = EndDoctype(Advance(t))
     \/ Cur = "EOF" /\ t' = EmitDoctype(Quirks(t))
     \/ Other({" ", ">"}) /\ t' = Go(t, "BogusDoctype")

\* Mutant: the end of the input does not leave the state.
BogusDoctypeStays ==
  /\ t.state = "BogusDoctype"
  /\ \/ Cur \in {">", "EOF"} /\ t' = EmitDoctype(t)
     \/ Other({">"}) /\ t' = Advance(t)

BogusDoctype ==
  /\ t.state = "BogusDoctype"
  /\ \/ Cur = ">" /\ t' = EndDoctype(Advance(t))
     \/ Cur = "EOF" /\ t' = EndDoctype(t)
     \/ Other({">"}) /\ t' = Advance(t)

--------------------------------------------------------------------------------
\* tokenize: one turn of the loop; an endless list of tokens is cut off.
TokenizerNext ==
  /\ Len(t.tokens) < MaxTokens
  /\ \/ Data \/ RawText \/ RCData \/ TagOpen \/ EndTagOpen \/ TagName \/ SelfClosingStartTag
     \/ RawTextLessThanSign \/ RawTextEndTagOpen \/ RawTextEndTagName
     \/ RCDataLessThanSign \/ RCDataEndTagOpen \/ RCDataEndTagName
     \/ BeforeAttributeName \/ AttributeName \/ AfterAttributeName \/ BeforeAttributeValue
     \/ AttributeValueDoubleQuoted \/ AttributeValueSingleQuoted \/ AttributeValueUnquoted
     \/ AfterAttributeValueQuoted \/ MarkupDeclarationOpen
     \/ CommentStart \/ CommentStartDash \/ Comment \/ CommentEndDash \/ CommentEnd \/ CommentEndBang
     \/ Doctype \/ BeforeDoctypeName \/ DoctypeName \/ AfterDoctypeName
     \/ AfterDoctypePublicKeyword \/ BeforeDoctypePublicId \/ AfterDoctypePublicId
     \/ DoctypePublicIdDoubleQuoted \/ DoctypePublicIdSingleQuoted
     \/ BetweenDoctypePublicAndSystemIds \/ AfterDoctypeSystemKeyword \/ BeforeDoctypeSystemId
     \/ DoctypeSystemIdDoubleQuoted \/ DoctypeSystemIdSingleQuoted \/ AfterDoctypeSystemId
     \/ BogusDoctype

Tokenized == t.state = "Done"

\* The states in which the end of the input emits a doctype and changes nothing else.
NeverEnds ==
  /\ Cur = "EOF"
  /\ t.state \in {"DoctypePublicIdDoubleQuoted", "DoctypePublicIdSingleQuoted",
                  "DoctypeSystemIdDoubleQuoted", "DoctypeSystemIdSingleQuoted",
                  "AfterDoctypeSystemId"}
================================================================================
