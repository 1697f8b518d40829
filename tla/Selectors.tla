-------------------------------- MODULE Selectors ------------------------------
(***************************************************************************)
(* CSS selectors of the browser (04-browser, src/dom/selectors.rs): the    *)
(* parser, the matching of a node, and the queries.                        *)
(*                                                                         *)
(* A text is a sequence of lexemes: a character the parser looks at, a     *)
(* digit, or a word, which stands for a run of identifier characters.      *)
(* Words that begin with a hyphen and numbers of several digits are left   *)
(* out.  What a parsing function returns is [ok, pos, value]; the position *)
(* counts also when it fails, as not every caller goes back.               *)
(***************************************************************************)
EXTENDS Document, Integers

Digits == <<"0", "1", "2", "3">>
Signs  == {" ", ">", "+", "~", ",", "(", ")", "*", ".", "#", "[", "]", ":", "=", "|", "^", "$",
           "'", "\"", "-", "EOF"}
Ident(c) == c \notin Signs \cup ToSet(Digits)

Char(s, p) == IF p > Len(s) THEN "EOF" ELSE s[p]
SkipWs(s, p) == CHOOSE q \in p .. Len(s) + p :
                  Char(s, q) # " " /\ \A i \in p .. q - 1 : Char(s, i) = " "

Got(p, value) == [ok |-> TRUE, pos |-> p, value |-> value]
Failed(p)     == [ok |-> FALSE, pos |-> p, value |-> << >>]
\* F of a value that is worked out once; what follows a success; what replaces a failure.
With(value, F(_))   == CHOOSE result \in {F(v) : v \in {value}} : TRUE
Then(r, Next(_, _)) == With(r, LAMBDA v : IF v.ok THEN Next(v.pos, v.value) ELSE v)
Else(r, other)      == With(r, LAMBDA v : IF v.ok THEN v ELSE other)

--------------------------------------------------------------------------------
(* Parsing.                                                                *)

Expect(s, p, c, value) == IF Char(s, p) = c THEN Got(p + 1, value) ELSE Failed(p)

\* A quoted string, or everything up to a blank or a bracket.
Until(s, p, stops) ==
  CHOOSE q \in p .. Len(s) + 1 : Char(s, q) \in stops /\ \A i \in p .. q - 1 : Char(s, i) \notin stops
Quoted(s, p, q) == IF Char(s, q) = "EOF" THEN Failed(q) ELSE Got(q + 1, SubSeq(s, p, q - 1))
Unquoted(s, p, q) == IF q = p THEN Failed(q) ELSE Got(q, SubSeq(s, p, q - 1))
ParseValue(s, p) ==
  IF Char(s, p) \in {"'", "\""} THEN Quoted(s, p + 1, Until(s, p + 1, {Char(s, p), "EOF"}))
  ELSE Unquoted(s, p, Until(s, p, {"]", " ", "EOF"}))

\* An argument an+b; even and odd are 2n and 2n+1, and an index is 0n+b, at least 1.
Number(s, p) == SelectInSeq(Digits, LAMBDA d : d = Char(s, p)) - 1
Offset(s, p, sign) == IF Number(s, p) < 0 THEN Got(p, 0) ELSE Got(p + 1, sign * Number(s, p))
ParseNthOffset(s, p) ==
  CASE Char(s, p) = "+" -> Offset(s, SkipWs(s, p + 1), 1)
    [] Char(s, p) = "-" -> Offset(s, SkipWs(s, p + 1), -1)
    [] OTHER            -> Got(p, 0)

NthTerm(s, p, sign, n) ==
  CASE Char(s, p) = "n" ->
         Then(ParseNthOffset(s, SkipWs(s, p + 1)),
              LAMBDA q, b : Got(q, [a |-> sign * (IF n < 0 THEN 1 ELSE n), b |-> b]))
    [] Char(s, p) # "n" /\ n >= 0 -> Got(p, [a |-> 0, b |-> IF sign * n < 1 THEN 1 ELSE n])
    [] OTHER                      -> Failed(p)
NthSigned(s, p, sign) ==
  NthTerm(s, IF Number(s, p) < 0 THEN p ELSE p + 1, sign, Number(s, p))
ParseNthArg(s, p) ==
  CASE Char(s, p) = "even" -> Got(p + 1, [a |-> 2, b |-> 0])
    [] Char(s, p) = "odd"  -> Got(p + 1, [a |-> 2, b |-> 1])
    [] Char(s, p) = "-"    -> NthSigned(s, p + 1, -1)
    [] Char(s, p) = "+"    -> NthSigned(s, p + 1, 1)
    [] OTHER               -> NthSigned(s, p, 1)

Plain == {"first-child", "last-child", "only-child", "empty", "root"}

\* Compound[p] is the compound selector at p, which ends where nothing more can be parsed.
ParsePseudo(s, p, Compound) ==
  LET name == Char(s, p + 1)
      from == SkipWs(s, p + 3)
  IN CASE name \in Plain -> Got(p + 2, [is |-> name, arg |-> << >>])
       [] name \in {"nth-child", "nth-last-child", "not"} /\ Char(s, p + 2) = "(" ->
            Then(IF name = "not" THEN Compound[from] ELSE ParseNthArg(s, from),
                 LAMBDA q, arg : Expect(s, SkipWs(s, q), ")", [is |-> name, arg |-> arg]))
       [] OTHER -> Failed(p)

AttrEnd(s, p, found) == Expect(s, IF Char(s, p) \in {"i", "s"} THEN SkipWs(s, p + 1) ELSE p, "]", found)
AttrTest(s, p, name) ==
  LET op      == Char(s, p)
      equal   == IF op = "=" THEN p ELSE p + 1
      test(v) == [is |-> "attr", name |-> name, op |-> op, arg |-> v]
  IN CASE op = "]" -> Got(p + 1, test(<< >>))
       [] op \in {"=", "~", "|", "^", "$", "*"} ->
            Then(Expect(s, equal, "=", << >>),
                 LAMBDA q, eq : Then(ParseValue(s, SkipWs(s, q)),
                                     LAMBDA r, v : AttrEnd(s, SkipWs(s, r), test(v))))
       [] OTHER -> Failed(p)
ParseAttrSelector(s, p) ==
  LET name == SkipWs(s, p + 1)
  IN IF Ident(Char(s, name)) THEN AttrTest(s, SkipWs(s, name + 1), Char(s, name)) ELSE Failed(name)

ParseSimple(s, p, Compound) ==
  LET c    == Char(s, p)
      name == Char(s, p + 1)
  IN CASE c = "*" -> Got(p + 1, [is |-> "universal", arg |-> << >>])
       [] c = "." -> IF Ident(name) THEN Got(p + 2, [is |-> "class", arg |-> name]) ELSE Failed(p + 1)
       [] c = "#" -> IF name \in Signs THEN Failed(p + 1) ELSE Got(p + 2, [is |-> "id", arg |-> name])
       [] c = "[" -> ParseAttrSelector(s, p)
       [] c = ":" -> Else(ParsePseudo(s, p, Compound), Failed(p))
       [] Ident(c) -> Got(p + 1, [is |-> "type", arg |-> c])
       [] OTHER -> Failed(p)

\* The parts up to the first that cannot be parsed, whatever the reason.
ParseCompound(s, p) ==
  LET compound[q \in Nat] ==
        IF Char(s, q) \in {"EOF", " ", ">", "+", "~", ",", ")"} THEN Failed(q)
        ELSE Then(ParseSimple(s, q, compound),
                  LAMBDA r, part : Got(compound[r].pos, <<part>> \o compound[r].value))
  IN compound[p]

ParseCombinator(s, p) ==
  LET q == SkipWs(s, p)
      c == Char(s, q)
  IN CASE c \in {">", "+", "~"}      -> Got(SkipWs(s, q + 1), c)
       [] c \in {"EOF", ",", ")"}    -> Got(q, "none")
       [] OTHER                      -> Got(q, IF q > p THEN " " ELSE "none")

\* A complex selector is a sequence of [by, parts]: a compound and what combines it with the
\* one before.  What follows a combinator and cannot be parsed is left to the caller.
ParseComplex(s, p) ==
  LET tail[q \in Nat] ==
        Then(ParseCombinator(s, q),
             LAMBDA m, by :
               IF by = "none" THEN Got(m, << >>)
               ELSE Else(Then(ParseCompound(s, m),
                              LAMBDA r, parts :
                                Got(tail[r].pos, <<[by |-> by, parts |-> parts]>> \o tail[r].value)),
                         Got(q, << >>)))
  IN Then(ParseCompound(s, p),
          LAMBDA q, parts : Got(tail[q].pos, <<[by |-> " ", parts |-> parts]>> \o tail[q].value))

ParseSelectorList(s, p) ==
  LET list[start \in Nat] ==
        Then(ParseComplex(s, SkipWs(s, start)),
             LAMBDA q, one :
               IF Char(s, SkipWs(s, q)) # "," THEN Got(SkipWs(s, q), <<one>>)
               ELSE Then(list[SkipWs(s, q) + 1], LAMBDA r, others : Got(r, <<one>> \o others)))
  IN list[p]
\* The list, or << >> for an error.
ParseSelector(s) ==
  With(ParseSelectorList(s, 1),
       LAMBDA list : IF list.ok /\ Char(s, list.pos) = "EOF" THEN list.value ELSE << >>)

--------------------------------------------------------------------------------
(* Matching.                                                               *)

\* word is one of the words of a value, which blanks separate.
HasWord(value, word) ==
  /\ word # << >> /\ ~Contains(word, " ")
  /\ \E i \in 1 .. Len(value) : \E j \in i .. Len(value) :
       /\ SubSeq(value, i, j) = word
       /\ i > 1 => value[i - 1] = " "
       /\ j < Len(value) => value[j + 1] = " "

MatchesAttr(value, op, arg) ==
  CASE op = "]" -> TRUE
    [] op = "=" -> value = arg
    [] op = "~" -> HasWord(value, arg)
    [] op = "|" -> value = arg \/ IsPrefix(Append(arg, "-"), value)
    [] op = "^" -> IsPrefix(arg, value)
    [] op = "$" -> IsSuffix(arg, value)
    [] op = "*" -> \E i \in 1 .. Len(value) + 1 : IsPrefix(arg, SubSeq(value, i, Len(value)))

Elements(doc, id) == SelectSeq(Siblings(doc, id), LAMBDA c : IsElement(doc, c))

NthMatch(doc, id, arg, fromEnd) ==
  LET elems == Elements(doc, id)
      at    == SelectInSeq(elems, LAMBDA c : c = id)
      diff  == (IF fromEnd THEN Len(elems) - at + 1 ELSE at) - arg.b
  IN /\ at # 0
     /\ CASE arg.a = 0 -> diff = 0
          [] arg.a > 0 -> diff >= 0 /\ diff % arg.a = 0
          [] arg.a < 0 -> diff <= 0 /\ (-diff) % (-arg.a) = 0

MatchesPseudo(doc, id, s) ==
  CASE s.is = "root"        -> doc[id].parent = Root /\ HasTag(doc, id, {"html"})
    [] s.is = "empty"       -> /\ IsElement(doc, id)
                               /\ \A c \in ToSet(doc[id].children) :
                                    \/ IsText(doc, c) /\ ToSet(doc[c].data.text) \subseteq {" "}
                                    \/ doc[c].data.kind = "Comment"
    [] s.is = "first-child" -> Siblings(doc, id) # << >> /\ Head(Siblings(doc, id)) = id
    [] s.is = "last-child"  -> Siblings(doc, id) # << >> /\ Last(Siblings(doc, id)) = id
    [] s.is = "only-child"  -> Elements(doc, id) = <<id>>
    [] s.is = "nth-child"      -> NthMatch(doc, id, s.arg, FALSE)
    [] s.is = "nth-last-child" -> NthMatch(doc, id, s.arg, TRUE)

\* The value of an attribute, if there is one.
ValueOf(doc, id, name) == ToSet(GetAttribute(doc, id, <<name>>))

MatchesPart(doc, id, s) ==
  CASE s.is = "universal" -> IsElement(doc, id)
    [] s.is = "type"      -> IsElement(doc, id) /\ TagNameOf(doc, id) = <<s.arg>>
    [] s.is = "class"     -> \E v \in ValueOf(doc, id, "class") : HasWord(v, <<s.arg>>)
    [] s.is = "id"        -> <<s.arg>> \in ValueOf(doc, id, "id")
    [] s.is = "attr"      -> \E v \in ValueOf(doc, id, s.name) : MatchesAttr(v, s.op, s.arg)
    [] OTHER              -> MatchesPseudo(doc, id, s)

\* :not() holds for whatever does not match the compound in it, texts and comments included.
RECURSIVE MatchesSimple(_, _, _)
MatchesSimple(doc, id, s) ==
  IF s.is = "not" THEN \E i \in 1 .. Len(s.arg) : ~MatchesSimple(doc, id, s.arg[i])
  ELSE MatchesPart(doc, id, s)

MatchesCompound(doc, id, parts) == \A i \in 1 .. Len(parts) : MatchesSimple(doc, id, parts[i])

Ancestors(doc, id) == {a \in 1 .. Len(doc) : a # id /\ IsDescendant(doc, id, a)}
Earlier(doc, id) ==
  LET siblings == Siblings(doc, id)
  IN {siblings[i] : i \in 1 .. SelectInSeq(siblings, LAMBDA c : c = id) - 1}

\* The nodes that a combinator relates to a node; the siblings are nodes of any kind.
Related(doc, id, by) ==
  CASE by = " " -> Ancestors(doc, id)
    [] by = ">" -> {doc[id].parent} \ {None}
    [] by = "+" -> {PreviousSiblingOf(doc, id)} \ {None}
    [] by = "~" -> Earlier(doc, id)

\* Mutant: of the ancestors that match, only the nearest is followed.
RECURSIVE MatchesNearest(_, _, _, _)
MatchesNearest(doc, id, sel, k) ==
  \/ k = 1
  \/ LET fit == {x \in Related(doc, id, sel[k].by) : MatchesCompound(doc, x, sel[k - 1].parts)}
     IN \E x \in fit : (\A y \in fit : y <= x) /\ MatchesNearest(doc, x, sel, k - 1)

\* The k-th compound matched the node; those before it are matched from right to left, and
\* what fails for one ancestor or sibling is tried with the next.
RECURSIVE MatchesAncestors(_, _, _, _)
MatchesAncestors(doc, id, sel, k) ==
  \/ k = 1
  \/ \E x \in Related(doc, id, sel[k].by) :
       MatchesCompound(doc, x, sel[k - 1].parts) /\ MatchesAncestors(doc, x, sel, k - 1)

MatchesComplex(doc, id, sel) ==
  MatchesCompound(doc, id, Last(sel).parts) /\ MatchesAncestors(doc, id, sel, Len(sel))

MatchesSelectorList(doc, id, list) == \E i \in 1 .. Len(list) : MatchesComplex(doc, id, list[i])

--------------------------------------------------------------------------------
(* Queries.                                                                *)

QuerySelectorAllWith(doc, context, list) ==
  SelectSeq(Tail(BreadthFirst(doc, context)), LAMBDA id : MatchesSelectorList(doc, id, list))
QuerySelectorWith(doc, context, list) ==
  LET all == QuerySelectorAllWith(doc, context, list) IN IF all = << >> THEN None ELSE Head(all)
================================================================================
