------------------------------ MODULE CliConfig ------------------------------
(***************************************************************************)
(* parse_zmm_config (src/cli/main.c): the front end's reader of its file   *)
(* .zmm, one object.  It walks jsmn's tokens by index, like zmm_cc_parse,  *)
(* but to the end of the tokens instead of by the object's size, and a key *)
(* it does not know is passed over with its value.                         *)
(***************************************************************************)
EXTENDS CommandParser

SourcesKey == <<"S">>
ExeKey == <<"E">>
CompileKey == <<"C">>

(* A config is a sequence of fields, pairs of a name and a value.  A value *)
(* is one of CommandParser's, [items |-> a sequence of these] or           *)
(* [nested |-> a config].                                                  *)
LaidItem(v) ==
  IF Has(v, "items") THEN Arr([k \in DOMAIN v.items |-> LaidValue(v.items[k])])
  ELSE IF Has(v, "nested")
  THEN Obj([k \in DOMAIN v.nested |-> <<v.nested[k][1], LaidValue(v.nested[k][2])>>])
  ELSE LaidValue(v)

ConfigTokens(config) ==
  Obj([k \in DOMAIN config |-> <<config[k][1], LaidItem(config[k][2])>>]).tokens

-----------------------------------------------------------------------------
(* jsmn_skip: past every token that starts inside this one.                *)
JsmnSkip(t, i) ==
  LET outside == {n \in i + 1 .. Len(t) : t[n].start >= t[i].end \/ t[n].start = 0}
  IN IF i > Len(t) THEN i ELSE IF outside = {} THEN Len(t) + 1 ELSE Min(outside)

IsA(t, i, type) == i <= Len(t) /\ t[i].type = type

(* unescape_json_string: as cc.c unescapes; \b and \f, which cc.c does not *)
(* know, are in no text here.                                              *)
UnescapeJson(raw) == Unescape(raw)

(* What is known of a config: the sources in order; none or one text for   *)
(* the executable and for the command; the token to go on with.            *)
NoConfig == [i |-> 2, srcs |-> <<>>, exe |-> <<>>, cmd |-> <<>>]

(* The elements of the array at t[a]: strings are pushed behind the sources*)
(* there are, anything else is passed over.                                *)
ReadSources(t, a, c) ==
  LET element(acc, j) ==
        IF acc.i > Len(t) THEN acc
        ELSE IF t[acc.i].type = "string"
        THEN [acc EXCEPT !.srcs = Append(@, UnescapeJson(t[acc.i].raw)), !.i = @ + 1]
        ELSE [acc EXCEPT !.i = JsmnSkip(t, @)]
  IN FoldLeft(element, [c EXCEPT !.i = a + 1], [j \in 1 .. t[a].size |-> j])

(* One round of the loop.  Behind the name of the executable or of the     *)
(* command one token is passed, whatever it is.                            *)
ReadEntry(t, c) ==
  LET val == c.i + 1
      text == IF IsA(t, val, "string") THEN <<UnescapeJson(t[val].raw)>> ELSE <<>>
      or(old) == IF text = <<>> THEN old ELSE text
  IN CASE t[c.i].type # "string" -> [c EXCEPT !.i = JsmnSkip(t, @)]
       [] JsonEq(t[c.i], SourcesKey) /\ IsA(t, val, "array") -> ReadSources(t, val, c)
       [] JsonEq(t[c.i], ExeKey) -> [c EXCEPT !.exe = or(@), !.i = val + 1]
       [] JsonEq(t[c.i], CompileKey) -> [c EXCEPT !.cmd = or(@), !.i = val + 1]
       [] OTHER -> [c EXCEPT !.i = JsmnSkip(t, val)]

(* The loop ends with the tokens; a round passes one at least.             *)
ParseConfig(t) ==
  LET round(c, k) == IF c.i > Len(t) THEN c ELSE ReadEntry(t, c)
  IN FoldLeft(round, NoConfig, t)

-----------------------------------------------------------------------------
(* What a config says: all the sources of all lists, and the last string   *)
(* for the others.                                                         *)
Listed(v) ==
  LET strings == SelectSeq(v.items, LAMBDA item : Has(item, "string"))
  IN [k \in DOMAIN strings |-> strings[k].string]
SaidSources(config) ==
  FlattenSeq([k \in DOMAIN config |->
    IF config[k][1] = SourcesKey /\ Has(config[k][2], "items")
    THEN Listed(config[k][2]) ELSE <<>>])
SaidText(config, name) ==
  LET at == {k \in DOMAIN config : config[k][1] = name /\ Has(config[k][2], "string")}
  IN IF at = {} THEN <<>> ELSE <<config[Max(at)][2].string>>

(* The values of the executable and of the command have no tokens inside:  *)
(* of those that have, the loop would take the insides for fields.         *)
Flat(config) ==
  \A k \in DOMAIN config :
    config[k][1] \in {ExeKey, CompileKey} =>
      Has(config[k][2], "string") \/ Has(config[k][2], "number")

(* Such a config is read as it says, whatever else is in it: fields it does*)
(* not know that hold known names, lists with other things than strings, a *)
(* name given twice, a string that is the name of a field.                 *)
ConfigReadBack(config) ==
  LET c == ParseConfig(ConfigTokens(config))
  IN Flat(config) =>
       /\ c.srcs = SaidSources(config)
       /\ c.exe = SaidText(config, ExeKey)
       /\ c.cmd = SaidText(config, CompileKey)
==============================================================================
