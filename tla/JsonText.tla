------------------------------ MODULE JsonText ------------------------------
(***************************************************************************)
(* The texts of the gateway: how it finds a string in a request by         *)
(* scanning for the quoted key (ExtractJsonString), how it writes a reply  *)
(* (BuildJsonResponse), and how a client's JSON library writes a request.  *)
(*                                                                         *)
(* A text is a sequence of characters; a word without quotes, backslashes  *)
(* or colons, such as a key, counts as one.  A quoted word can then be     *)
(* told from a longer one that contains it, as it can in the code, whose   *)
(* search string begins and ends with the quotes.                          *)
(***************************************************************************)
EXTENDS Naturals, Sequences, FiniteSetsExt, SequencesExt

Quote == "\""
Backslash == "\\"
Blank == " "
Comma == ","
Open == "{"
Close == "}"
Blanks == {Blank, "\t", "\n", "\r"}

-----------------------------------------------------------------------------
(* What the gateway does.                                                  *)

(* std::string::find: the first place at or after "from", 0 for npos.      *)
Find(text, pattern, from) ==
  LET found == {i \in from..(Len(text) - Len(pattern) + 1) :
                  SubSeq(text, i, i + Len(pattern) - 1) = pattern}
  IN  IF found = {} THEN 0 ELSE Min(found)

(* The first character at or after "from" that is not blank.               *)
SkipBlanks(text, from) ==
  Min({i \in from..Len(text) : text[i] \notin Blanks} \cup {Len(text) + 1})

(* Mutant: a backslash does not protect the character after it.            *)
StringEnd_NoEscapes(text, from) ==
  Min({i \in from..Len(text) : text[i] = Quote} \cup {Len(text) + 1})

(* How many backslashes stand right before "i", none of them before "from". *)
Backslashes(text, from, i) ==
  (i - 1) - Max({j \in from..(i - 1) : text[j] # Backslash} \cup {from - 1})

(* The quote that ends the string whose first character is at "from": the  *)
(* first that no backslash protects, as each takes the next character.     *)
StringEnd(text, from) ==
  Min({i \in from..Len(text) : text[i] = Quote /\ Backslashes(text, from, i) % 2 = 0}
        \cup {Len(text) + 1})

(* The characters between the quotes, backslashes included, that follow    *)
(* the first colon after the first occurrence of the quoted key; nothing   *)
(* if there is no such string.                                             *)
ExtractJsonString(text, key) ==
  LET found == Find(text, <<Quote, key, Quote>>, 1)
      colon == IF found = 0 THEN 0 ELSE Find(text, <<":">>, found + 3)
      value == SkipBlanks(text, colon + 1)
  IN  IF colon = 0 \/ value > Len(text) \/ text[value] # Quote THEN <<>>
      ELSE SubSeq(text, value + 1, StringEnd(text, value + 1) - 1)

(* A reply, of which the message is not escaped; what "list" and "stats"   *)
(* add to it is left to the caller.                                        *)
BuildJsonResponse(success, message) ==
  <<Open, Quote, "success", Quote, ":", success, Comma, Quote, "message", Quote, ":", Quote>>
    \o message \o <<Quote, Close>>

-----------------------------------------------------------------------------
(* What a JSON library does.                                               *)

Escape(value) ==
  FlattenSeq([i \in DOMAIN value |->
    IF value[i] \in {Quote, Backslash} THEN <<Backslash, value[i]>> ELSE <<value[i]>>])

WriteString(value) == <<Quote>> \o Escape(value) \o <<Quote>>

(* A member, with gap after its colon and after the comma before it.       *)
Member(keys, members, gap, i) ==
  (IF \E j \in 1..(i - 1) : keys[j] \in DOMAIN members THEN <<Comma>> \o gap ELSE <<>>)
    \o (WriteString(<<keys[i]>>) \o (<<":">> \o (gap \o WriteString(members[keys[i]]))))

(* An object whose members are strings, in the order of "keys", with gap   *)
(* after colons and commas, as in the README's examples, or without.       *)
WriteObject(keys, members, gap) ==
  <<Open>> \o FlattenSeq([i \in DOMAIN keys |->
    IF keys[i] \in DOMAIN members THEN Member(keys, members, gap, i) ELSE <<>>]) \o <<Close>>

-----------------------------------------------------------------------------
(* What the scan can read.                                                 *)

Syntax == {Quote, Backslash, Comma, ":", Open, Close} \cup Blanks

(* With the quotes around it, the value ends in the quoted key.            *)
Shows(value, key) ==
  /\ value # <<>> /\ value[Len(value)] = key
  /\ Len(value) = 1 \/ value[Len(value) - 1] = Quote

(* Of the values before the key, or of all if there is no such member,     *)
(* only the last may show the key: from there the next colon, if there is  *)
(* one, is the key's own.                                                  *)
Legible(keys, members, key) ==
  LET written == {i \in DOMAIN keys : keys[i] \in DOMAIN members}
  IN  \A i, j \in written :
        i < j /\ (\A l \in written : l <= j => keys[l] # key) => ~Shows(members[keys[i]], key)
=============================================================================
