---------------------------- MODULE CommandParser ----------------------------
(***************************************************************************)
(* zmm_cc_parse (src/src/cc.c): the reader of compile_commands.json.  jsmn *)
(* gives it a flat sequence of tokens, each with the span of text it came  *)
(* from; the parser walks it by index, counts keys and elements by a       *)
(* token's size, and passes over a value by comparing spans.               *)
(*                                                                         *)
(* A document is a sequence of elements; its tokens are laid out as jsmn   *)
(* lays them out, over a text without white space.  A string is a sequence *)
(* of characters, and its token holds the raw text, escapes included.      *)
(***************************************************************************)
EXTENDS Integers, Sequences, FiniteSets, SequencesExt, FiniteSetsExt

-----------------------------------------------------------------------------
(* Text.  The special characters stand for themselves: "n" is also the     *)
(* letter that a line feed is escaped to.                                  *)

Backslash == "\\"
Letter == [c \in {"\n", "\r", "\t"} |->
             CASE c = "\n" -> "n" [] c = "\r" -> "r" [] c = "\t" -> "t"]

(* write_escaped_string, without its quotes.                               *)
Escaped(c) ==
  IF c \in {"\"", Backslash} THEN <<Backslash, c>>
  ELSE IF c \in DOMAIN Letter THEN <<Backslash, Letter[c]>>
  ELSE <<c>>
Escape(text) == FlattenSeq([k \in DOMAIN text |-> Escaped(text[k])])

Unescaped(letter) ==
  IF \E c \in DOMAIN Letter : Letter[c] = letter
  THEN CHOOSE c \in DOMAIN Letter : Letter[c] = letter
  ELSE letter

(* unescape_string_into: left to right, two characters at an escape.       *)
Unescape(raw) ==
  LET step(acc, c) ==
        IF acc.escaped THEN [text |-> Append(acc.text, Unescaped(c)), escaped |-> FALSE]
        ELSE IF c = Backslash THEN [acc EXCEPT !.escaped = TRUE]
        ELSE [acc EXCEPT !.text = Append(@, c)]
  IN FoldLeft(step, [text |-> <<>>, escaped |-> FALSE], raw).text

-----------------------------------------------------------------------------
(* jsmn's tokens.  A layout is the length of a value's text and its tokens *)
(* with positions relative to the text; a string's token spans what is     *)
(* between the quotes, any other all of its text.                          *)

Token(type, first, end, size, raw) ==
  [type |-> type, start |-> first, end |-> end, size |-> size, raw |-> raw]

Str(text) ==
  LET raw == Escape(text)
  IN [kind |-> "string", text |-> text, len |-> Len(raw) + 2,
      tokens |-> <<Token("string", 1, Len(raw) + 1, 0, raw)>>]
Number == [kind |-> "number", text |-> <<>>, len |-> 1,
           tokens |-> <<Token("primitive", 0, 1, 0, <<"1">>)>>]

Moved(tokens, by) ==
  [k \in DOMAIN tokens |->
     [tokens[k] EXCEPT !.start = @ + by, !.end = @ + by]]

(* Values one after the other, a character of punctuation before each.     *)
Laid(parts) ==
  FoldLeft(LAMBDA acc, p : [len |-> acc.len + 1 + p.len,
                            tokens |-> acc.tokens \o Moved(p.tokens, acc.len + 1)],
           [len |-> 0, tokens |-> <<>>], parts)

Enclosed(type, size, parts) ==
  LET inside == Laid(parts)
      len == IF parts = <<>> THEN 2 ELSE inside.len + 1
  IN [len |-> len,
      tokens |-> <<Token(type, 0, len, size, <<>>)>> \o inside.tokens]

Arr(parts) ==
  LET e == Enclosed("array", Len(parts), parts)
  IN [kind |-> "array", text |-> <<>>, len |-> e.len, tokens |-> e.tokens]

(* An object's fields are pairs of a name and a value; its size counts     *)
(* them.                                                                   *)
Obj(fields) ==
  LET parts == FlattenSeq([k \in DOMAIN fields |-> <<Str(fields[k][1]), fields[k][2]>>])
      e == Enclosed("object", Len(fields), parts)
  IN [kind |-> "object", text |-> <<>>, len |-> e.len, tokens |-> e.tokens]

-----------------------------------------------------------------------------
(* Names, as texts of one character. *)
DirectoryKey == <<"D">>
FileKey == <<"F">>
ArgumentsKey == <<"A">>

(* An element of a document: [fields |-> a sequence of name and value], or *)
(* a value that is no object.  A value is [string |-> text], [list |-> a   *)
(* sequence of texts], [object |-> text] or [number |-> TRUE].             *)
Has(v, k) == k \in DOMAIN v
LaidValue(v) ==
  IF Has(v, "string") THEN Str(v.string)
  ELSE IF Has(v, "list") THEN Arr([k \in DOMAIN v.list |-> Str(v.list[k])])
  ELSE IF Has(v, "object") THEN Obj(<<<<FileKey, Str(v.object)>>>>)
  ELSE Number
LaidElement(e) ==
  IF Has(e, "fields")
  THEN Obj([k \in DOMAIN e.fields |-> <<e.fields[k][1], LaidValue(e.fields[k][2])>>])
  ELSE LaidValue(e)

Tokens(doc) == Arr([k \in DOMAIN doc |-> LaidElement(doc[k])]).tokens

-----------------------------------------------------------------------------
(* Faulty variant: only the token itself is passed over.                   *)
SkipTokenOnly(t, current) == current + 1

(* skip_token: past every token that starts inside this one.               *)
SkipToken(t, current) ==
  LET outside == {n \in current + 1 .. Len(t) : t[n].start >= t[current].end}
  IN IF outside = {} THEN Len(t) + 1 ELSE Min(outside)

(* jsoneq *)
JsonEq(token, name) == token.type = "string" /\ token.raw = name

Needed(token) == (token.end - token.start) + 1

(* The elements of the array whose token is t[a], and the token behind it: *)
(* first the room they need is added up, then each is written behind the   *)
(* one before.                                                             *)
Arguments(t, a) ==
  LET arg[n \in 1 .. t[a].size + 1] ==
        IF n = 1 THEN a + 1 ELSE SkipToken(t, arg[n - 1])
      text == [n \in 1 .. t[a].size |-> Unescape(t[arg[n]].raw)]
      sum(f(_)) == FoldLeft(LAMBDA acc, n : acc + f(n), 0, [n \in 1 .. t[a].size |-> n])
  IN [args |-> text, next |-> arg[t[a].size + 1],
      room |-> sum(LAMBDA n : Needed(t[arg[n]])),
      used |-> sum(LAMBDA n : Len(text[n]) + 1)]

NoCommand == [directory |-> <<>>, file |-> <<>>, args |-> <<>>, room |-> 0, used |-> 0]

(* One key and its value: r is the command so far and the token of the key.*)
(* A key of another name is passed over, and "arguments" that is no array. *)
ReadKey(t, r) ==
  LET key == t[r.i]  val == r.i + 1
      text == Unescape(t[val].raw)
      list == Arguments(t, val)
      passed == [r EXCEPT !.i = SkipToken(t, val)]
  IN CASE JsonEq(key, DirectoryKey) -> [passed EXCEPT !.cmd.directory = text]
       [] JsonEq(key, FileKey) -> [passed EXCEPT !.cmd.file = text]
       [] JsonEq(key, ArgumentsKey) /\ t[val].type = "array" ->
            [i |-> list.next,
             cmd |-> [r.cmd EXCEPT !.args = list.args, !.room = list.room,
                                   !.used = list.used]]
       [] OTHER -> passed

(* As many keys as the object's token says.                                *)
ReadObject(t, i) ==
  LET r[k \in 0 .. t[i].size] ==
        IF k = 0 THEN [i |-> i + 1, cmd |-> NoCommand] ELSE ReadKey(t, r[k - 1])
  IN r[t[i].size]

(* zmm_cc_parse, the tokens counted from 1: t[1] is the array around them  *)
(* all.  An element that is no object is passed over.                      *)
ReadAll(t) ==
  LET from[i \in 2 .. Len(t) + 1] ==
        IF i > Len(t) THEN <<>>
        ELSE IF t[i].type # "object" THEN from[SkipToken(t, i)]
        ELSE LET r == ReadObject(t, i) IN <<r.cmd>> \o from[r.i]
  IN from[2]

-----------------------------------------------------------------------------
(* What the document says: the last value given for a name counts.         *)
Given(e, name, key, default) ==
  LET at == {k \in DOMAIN e.fields :
               e.fields[k][1] = name /\ Has(e.fields[k][2], key)}
  IN IF at = {} THEN default ELSE e.fields[Max(at)][2][key]

Commands(doc) ==
  LET objects == SelectSeq(doc, LAMBDA e : Has(e, "fields"))
  IN [k \in DOMAIN objects |->
        [directory |-> Given(objects[k], DirectoryKey, "string", <<>>),
         file |-> Given(objects[k], FileKey, "string", <<>>),
         args |-> Given(objects[k], ArgumentsKey, "list", <<>>)]]

(* The parser gives back what was written, in order and to the letter,     *)
(* and is not put off its count by values it does not know, by objects     *)
(* inside them, or by elements that are no commands; and the arguments     *)
(* never outgrow the block measured for them.                              *)
Said(out) ==
  [k \in DOMAIN out |->
     [directory |-> out[k].directory, file |-> out[k].file, args |-> out[k].args]]

ReadBack(doc) ==
  \E out \in {ReadAll(Tokens(doc))} :
    /\ Said(out) = Commands(doc)
    /\ \A k \in DOMAIN out : out[k].used <= out[k].room
==============================================================================
