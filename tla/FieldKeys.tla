----------------------------- MODULE FieldKeys -----------------------------
(***************************************************************************)
(* What LineClassifierServiceImpl knows of keys, fields and cells: how a   *)
(* source key is normalized, which field of the job it belongs to, and     *)
(* when a value is valid for a field.                                      *)
(*                                                                         *)
(* Text is a sequence of atoms: an atom is one value or label of the       *)
(* source, or one delimiter.  Blank text is <<>>; white space around text, *)
(* which the code trims, does not appear.  An atom's normalized form is a  *)
(* sequence of words, so that one normalized key may start with, or        *)
(* contain, another one.  The catch-all "meta" is not part of a job's      *)
(* fields here: every row has one.                                         *)
(***************************************************************************)
EXTENDS Naturals, FiniteSets, Sequences, SequencesExt, FiniteSetsExt

CONSTANTS
  Atoms,         \* values and labels
  Word,          \* Word[a]: the normalized form of atom a
  Digits,        \* words made of digits only
  Labels,        \* atoms that HEADER_LABEL_RE accepts
  Emails,        \* atoms that EMAIL_RE accepts
  Phones,        \* atoms with 10 to 15 digits
  Blobs,         \* Blobs[a]: the pairs of the JSON object that atom a is
  Lists,         \* Lists[a]: the elements of the JSON array that atom a is
  Aliases,       \* Aliases[f]: the row of ALIASES resolved for f, in order
  AiAliases,     \* AiAliases[f]: the aliases the AI service resolved for f
  Parts,         \* Parts[f]: DEFAULT_COMPONENTS of f's category, or <<>>
  AiParts        \* AiParts[f]: the components the AI service resolved for f

Delimiters == <<",", ";", "\t", "|", ":">>

ASSUME AtomsAssumption ==
  /\ Labels \cup Emails \cup Phones \subseteq Atoms
  /\ Emails \cap Phones = {}
  /\ DOMAIN Word = Atoms
  /\ DOMAIN Blobs \subseteq Atoms
  /\ DOMAIN Lists \subseteq Atoms
  /\ Atoms \cap ToSet(Delimiters) = {}
-----------------------------------------------------------------------------
Blank(text) == text = <<>>

\* A JSON object or array, whether still text or already parsed.
IsBlob(text) == Len(text) = 1 /\ text[1] \in DOMAIN Blobs
IsList(text) == Len(text) = 1 /\ text[1] \in DOMAIN Lists

\* Lower case letters and digits only: what is between the atoms goes away.
Norm(text) ==
  FlattenSeq([i \in DOMAIN text |-> IF text[i] \in Atoms THEN Word[text[i]] ELSE <<>>])

StartsWith(norm, prefix) == IsPrefix(prefix, norm)

Includes(norm, part) ==
  part # <<>> /\ \E i \in DOMAIN norm : IsPrefix(part, SubSeq(norm, i, Len(norm)))

\* Split text at every occurrence of one of delims.  (With no such atom in it the
\* text is one part; empty parts stay.)
Split(text, delims) ==
  FoldLeft(LAMBDA parts, a :
             IF a \in delims THEN Append(parts, <<>>)
             ELSE [parts EXCEPT ![Len(parts)] = Append(@, a)],
           <<<<>>>>, text)

Else(first, second) == IF first # <<>> THEN first ELSE second

\* The first element of seq that satisfies Test, as a sequence of at most one.
FirstWhere(seq, Test(_)) ==
  LET hits == {i \in DOMAIN seq : Test(seq[i])}
  IN  IF hits = {} THEN <<>> ELSE <<seq[Min(hits)]>>
-----------------------------------------------------------------------------
(***************************************************************************)
(* The field a key belongs to.  The AI service's aliases are added to the  *)
(* static ones, its components replace them; components that include the   *)
(* field itself are not used.                                              *)
(***************************************************************************)
AliasesOf(f) == <<Word[f]>> \o Aliases[f] \o AiAliases[f]

Components(f) ==
  LET parts == IF Len(AiParts[f]) > 1 THEN AiParts[f] ELSE Parts[f]
  IN  IF Len(parts) > 1 /\ Word[f] \notin ToSet(parts) THEN parts ELSE <<>>

\* A key may name several things, "first name, last name".
KeyTokens(key) ==
  {Norm(t) : t \in ToSet(Split(key, {",", ";"}))} \ {<<>>}

\* a followed by digits: address2.
Numbered(token, a) ==
  StartsWith(token, a) /\ \A i \in Len(a) + 1 .. Len(token) : token[i] \in Digits

TokensMatch(tokens, names, parts) ==
  \/ tokens \cap names # {}
  \/ IF parts # <<>> THEN Cardinality(tokens \cap ToSet(parts)) >= Min({2, Len(parts)})
     ELSE \E t \in tokens, a \in names : Numbered(t, a)

KeyMatches(key, f) == TokensMatch(KeyTokens(key), ToSet(AliasesOf(f)), Components(f))
-----------------------------------------------------------------------------
(***************************************************************************)
(* Validation.  Only fields named exactly email or phone are looked for by *)
(* content and cleaned when invalid; any field whose name contains email   *)
(* or phone is validated.                                                  *)
(***************************************************************************)
IsStrong(f) == Word[f] \in {<<"email">>, <<"phone">>}

Validates(f, text) ==
  /\ ~Blank(text)
  /\ Includes(Word[f], <<"email">>) => Len(text) = 1 /\ text[1] \in Emails
  /\ ~Includes(Word[f], <<"email">>) /\ Includes(Word[f], <<"phone">>)
       => Len(text) = 1 /\ text[1] \in Phones

\* The strong fields of spec whose value in row is not valid.
InvalidStrong(spec, row) ==
  {f \in ToSet(spec) : IsStrong(f) /\ ~Blank(row[f]) /\ ~Validates(f, row[f])}

\* cleanInvalidStrongFields, which the stream parser calls when rowStrongFieldsOk
\* is false.
Cleaned(row, invalid) == [f \in DOMAIN row |-> IF f \in invalid THEN <<>> ELSE row[f]]
=============================================================================
