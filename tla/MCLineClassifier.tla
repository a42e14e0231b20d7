-------------------------- MODULE MCLineClassifier --------------------------
(***************************************************************************)
(* A small vocabulary and eleven jobs: CSV files with and without a        *)
(* header, with a header or a column map of the client's, with a column    *)
(* "meta" and with the AI service's help, JSON and key-value lines,        *)
(* learned templates, dumps.                                               *)
(***************************************************************************)
EXTENDS LineClassifier

MCEmails == {"a@x", "b@y"}
MCPhones == {"5551", "5552"}
MCLabels == {"name", "email", "phone", "city", "first", "last", "account", "nick",
             "user_name", "user_email", "msisdn", "meta", "profile", "skills", "note"}
MCBlobs ==
  [ a \in {"{acc}", "{two}", "{nest}", "{in}", "{parts}", "{row}", "{deep}", "{arr}"} |->
      LET pair(k, v) == [key |-> k, value |-> v] IN
      CASE a = "{acc}"   -> <<pair("email", <<"a@x">>), pair("nick", <<"ann">>), pair("city", <<"rome">>)>>
        [] a = "{two}"   -> <<pair("account", <<"b@y">>), pair("email", <<"a@x">>), pair("name", <<"ann">>)>>
        [] a = "{nest}"  -> <<pair("profile", <<"{in}">>), pair("phone", <<"5551">>), pair("note", <<"hi">>)>>
        [] a = "{in}"    -> <<pair("email", <<"a@x">>), pair("name", <<"bob">>)>>
        [] a = "{parts}" -> <<pair("first", <<"ann">>), pair("last", <<"lee">>), pair("email", <<"a@x">>)>>
        [] a = "{row}"   -> <<pair("email", <<"a@x">>), pair("name", <<"ann">>)>>
        [] a = "{deep}"  -> <<pair("meta", <<"{in}">>), pair("city", <<"rome">>)>>
        [] a = "{arr}"   -> <<pair("skills", <<"[s]">>), pair("email", <<"[e]">>), pair("name", <<"ann">>)>> ]
MCLists ==
  [ a \in {"[s]", "[e]", "[o]"} |->
      CASE a = "[s]" -> <<<<"ada">>, <<"tla">>>>
        [] a = "[e]" -> <<<<"hi">>, <<"a@x">>>>
        [] a = "[o]" -> <<<<"{row}">>, <<"{acc}">>>> ]
MCTexts == {"ann", "bob", "lee", "rome", "hi", "ada", "tla", "id7", "mr", "z9", "#ff", "null",
            "http", "//x", "=", "long", "ad", "1", "2", "3", "4", "5", "6", "7", "8",
            "--dump", "--", "COPY1", "COPY2", "\\.", " - "}
MCAtoms == MCLabels \cup MCEmails \cup MCPhones \cup MCTexts \cup DOMAIN MCBlobs \cup DOMAIN MCLists
MCWord ==
  [ a \in MCAtoms |->
      CASE a = "first" -> <<"first", "name">>
        [] a = "last"  -> <<"last", "name">>
        [] a = "user_email" -> <<"user", "email">>
        [] a = "user_name"  -> <<"user", "name">>
        [] OTHER -> <<a>> ]
MCFields == {"name", "email", "phone", "account", "city", "user_name", "user_email", "msisdn", "skills"}
MCAliases ==
  [ f \in MCFields |->
      CASE f = "account" -> <<<<"user", "email">>, <<"email">>, <<"phone">>>>
        [] f = "user_name" -> <<<<"name">>, <<"nick">>>>
        [] f = "name"    -> <<<<"nick">>>>
        [] f = "msisdn"  -> <<<<"phone">>>>
        [] f = "user_email" -> <<<<"email">>>>
        [] OTHER -> <<>> ]
MCAliasAnswer == <<[ aliases    |-> [f \in {"city", "zip"} |-> <<<<>>, <<"note">>>>],
                     composites |-> [f \in {"phone"} |-> <<<<"msisdn">>, <<>>>>] ]>>
MCAiAliases == ResolvedAliases(MCFields, MCAliasAnswer)
MCParts == [f \in MCFields |-> IF f = "name" THEN <<<<"first", "name">>, <<"last", "name">>>> ELSE <<>>]
MCAiParts == ResolvedParts(MCFields, MCAliasAnswer)
MCIndexes == <<"1", "2", "3", "4", "5", "6", "7", "8">>
MCCopyOf == [a \in {"COPY1", "COPY2"} |->
  IF a = "COPY1" THEN <<<<"user_email">>, <<"account">>, <<"nick">>, <<"msisdn">>>>
  ELSE <<<<"account">>, <<"city">>, <<"user_name">>>>]

Row(cells, d) == FoldLeft(LAMBDA line, c : line \o <<d>> \o c, cells[1], Tail(cells))
Csv(cells) == Row(cells, ",")
NCE == <<"name", "email", "phone">>
LabelRow == Csv(<<<<"name">>, <<"email">>, <<"phone">>, <<"city">>>>)
Ann == Csv(<<<<"ann">>, <<"a@x">>, <<"5551">>, <<"rome">>>>)

MCDefault ==
  [ spec |-> NCE, names |-> <<>>, map |-> <<>>, inferred |-> {}, guesses |-> {}, ai |-> FALSE, json |-> FALSE,
    mysql |-> FALSE, templates |-> <<>>, rubbish |-> {}, start |-> <<>>, lines |-> {} ]

\* Comma-separated rows with and without a header.
Plain == [MCDefault EXCEPT !.lines =
  { LabelRow, Ann, <<>>, <<"#ff">>, <<"long">>,
    Csv(<<<<"b@y">>, <<"rome">>, <<"a@x">>, <<"mr">>, <<"5551">>>>),
    Csv(<<<<"5551">>, <<"lee">>, <<"id7">>, <<"5552">>, <<"ann">>, <<"{row}">>>>),
    Csv(<<<<"#ff">>, <<"a@x">>, <<"5551">>, <<"rome">>>>),
    Csv(<<<<"ann">>, <<"hi">>, <<"5551">>, <<"rome">>, <<"lee">>>>) }]
\* Two email fields, a header whose labels repeat, and other delimiters.
Twice == [MCDefault EXCEPT !.spec = <<"email", "phone", "city", "name">>, !.lines =
  { Row(<<<<"first">>, <<"last">>, <<"phone">>, <<"note">>>>, ";"),
    Row(<<<<"ann">>, <<"lee">>, <<"5551">>, <<"rome">>>>, ";"),
    Row(<<<<"a@x">>, <<"ann">>, <<"z9">>, <<"rome">>, <<"5551">>>>, "|"),
    Row(<<<<"http">>, <<"//x">>, <<"a@x">>>>, ":"),
    Row(<<<<"email">>, <<"a@x">>>>, ":") }]
Given == [MCDefault EXCEPT !.names = <<<<"name">>, <<"email">>, <<"phone">>, <<"city">>>>, !.lines =
  { LabelRow, Ann, <<>>, Csv(<<<<"ann">>, <<"a@x">>>>),
    Csv(<<<<"ann">>, <<"a@x">>, <<"5551">>, <<"{in}">>>>) }]
\* A column "meta" that holds text or JSON, by its label and by the client's map.
Packs == [MCDefault EXCEPT !.names = <<<<"name">>, <<"email">>, <<"note">>, <<"meta">>>>, !.lines =
  { Csv(<<<<"ann">>, <<"a@x">>, <<"hi">>, <<"rome">>>>),
    Csv(<<<<"ann">>, <<"a@x">>, <<"hi">>, <<"{in}">>>>),
    Csv(<<<<"ann">>, <<"b@y">>, <<"hi">>, <<"{nest}">>>>),
    Csv(<<<<"lee">>, <<>>, <<"hi">>, <<"{acc}">>>>) }]
PacksMapped == [Packs EXCEPT !.map =
  [f \in ToSet(NCE) \cup {Meta} |->
     CASE f = "name" -> <<1>> [] f = "email" -> <<2>> [] f = Meta -> <<4>> [] OTHER -> <<>>]]
Mapped == [MCDefault EXCEPT
  !.map = [f \in ToSet(NCE) \cup {Meta} |-> CASE f = "name" -> <<2, 3>> [] f = "email" -> <<1>> [] OTHER -> <<>>],
  !.lines = { Csv(<<<<"a@x">>, <<"ann">>, <<"lee">>, <<"rome">>>>), Ann, <<"{acc}">> }]
Helped == [MCDefault EXCEPT !.ai = TRUE, !.templates =
    <<[id |-> "t1", structure |-> "csv", delim |-> "=", hint |-> 3,
       locators |-> [f \in ToSet(NCE) |-> IF f = "phone" THEN <<>> ELSE
         <<[kind |-> "index", arg |-> IF f = "name" THEN 1 ELSE 2]>>]],
      [id |-> "t2", structure |-> "kv", delim |-> "", hint |-> 3,
       locators |-> [f \in ToSet(NCE) |-> <<[kind |-> "key", arg |-> f]>>]],
      [id |-> "t3", structure |-> "text", delim |-> "", hint |-> 0,
       locators |-> [f \in ToSet(NCE) |-> IF f # "email" THEN <<>> ELSE <<[kind |-> "regex", arg |-> MCEmails]>>]]>>,
  !.guesses = {<<<<>>, <<[headers |-> <<<<>>>>, map |-> [f \in {} |-> <<>>]]>>,
                 <<[headers |-> <<<<"nick">>, <<"email">>, <<>>>>,
                    map |-> [f \in {"email", "city"} |-> IF f = "email" THEN <<2, 9>> ELSE <<1>>]]>>>>},
  !.rubbish = {{"ad"}},
  !.inferred = {[f \in {"email", "name", "city"} |-> CASE f = "email" -> <<2>> [] f = "name" -> <<1>> [] OTHER -> <<3>>],
                [f \in {"email", "name", "phone"} |-> CASE f = "email" -> <<2>> [] f = "name" -> <<1, 3>> [] OTHER -> <<0, 1>>]},
  !.lines = { Csv(<<<<"nick">>, <<"note">>, <<"rome">>>>), Ann, <<"ann", "=", "a@x">>, <<"ad">>, <<"hi", "a@x">>,
              <<"name", "=", "ann", ";", "email", "=", "a@x">>, <<"rome">> }]
Json == [MCDefault EXCEPT !.spec = <<"name", "email", "skills">>, !.lines =
  {<<a>> : a \in {"{acc}", "{two}", "{nest}", "{parts}", "{deep}", "{arr}", "[o]", "[s]"}} \cup
  { <<"name", ":", "ann", " - ", "email", ":", "a@x", " - ", "city", ":", "rome">> }]
Accounts == [Json EXCEPT !.spec = <<"account", "email">>, !.json = TRUE]
Dump == [MCDefault EXCEPT !.spec = <<"account", "user_name", "user_email", "msisdn">>,
  !.start = <<<<"--dump">>, <<"COPY1">>>>, !.lines =
  { <<"COPY2">>, <<"\\.">>, <<"--">>,
    Row(<<<<"a@x">>, <<"7">>, <<"ann">>, <<"5551">>>>, "\t"),
    Row(<<<<"5551">>, <<"8">>, <<"null">>, <<"a@x">>>>, "\t"),
    Row(<<<<"5551">>, <<"8">>>>, "\t") }]
MySql == [MCDefault EXCEPT !.mysql = TRUE, !.names = <<<<"name">>, <<"email">>>>,
  !.lines = {<<"{row}">>, <<"{two}">>}]

MCJobs == {Plain, Twice, Given, Packs, PacksMapped, Mapped, Helped, Json, Accounts, Dump, MySql}
MCScheme == {"http"}
MCSlashed == {"//x"}
MCDotted == [f \in {} |-> <<>>]
MCDigits == {"1", "2", "3", "4", "5", "6", "7", "8"}
MCUnnamed == [i \in 1..9 |-> IF i = 1 THEN "1" ELSE "z9"]
MCCopyEnd == <<"\\.">>
MCLongLines == {<<"long">>}
MCSkillLike == {<<"skills">>}
MCOneLetter == {}
MCAlike == {}
=============================================================================
