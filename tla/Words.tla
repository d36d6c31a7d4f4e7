---------------------------------- MODULE Words ----------------------------------
(***************************************************************************)
(* The words the lexer is to read, as the reference for its properties:    *)
(* the token each of them is, and the text that sets them down one after   *)
(* the other.  A word is a sequence of the lexer's symbols.                *)
(***************************************************************************)
EXTENDS Driver

Gaps == {"tight", "spaced", "commented"}

IsIdentifier(word) ==
  /\ word \in Seq(Alnum) \ {<<>>} /\ word[1] \in Alpha
  /\ word \notin {<<k>> : k \in keywords}

(* What a token of its own is for: str is a keyword without one, and so is a *)
(* lone bar an operator; a quote has one character and its closing one.      *)
Plain == (keywords \ {"str"}) \cup Digits \cup (Operators \ {"|"}) \cup (Delimiters \ {"'", "\""})

IsQuoted(word) == Len(word) = 3 /\ word[1] = "'" /\ word[3] = "'"

IsWord(word) ==
  word \in {<<symbol>> : symbol \in Plain} \cup Compound \/ IsIdentifier(word) \/ IsQuoted(word)

WordType(word) ==
  CASE IsQuoted(word)     -> "CHAR_LITERAL"
    [] IsIdentifier(word) -> "ID"
    [] word \in Compound  -> CompoundType[word]
    [] word \in {<<symbol>> : symbol \in Digits} -> "INTEGER"
    [] OTHER -> word[1]

WordToken(word) == Token(WordType(word), IF IsQuoted(word) THEN <<word[2]>> ELSE word)

------------------------------------------------------------------------------
(* Two words that would be read as others if nothing stood between them. *)
Fuse(word, next) ==
  LET pair == <<Last(word), next[1]>>
  IN  \/ Last(word) \in Alnum /\ next[1] \in Alnum
      \/ pair \in Compound \cup {<<"/", "/">>}

Gap(word, next, gaps) ==
  CASE gaps = "spaced"    -> <<" ">>
    [] gaps = "commented" -> <<" ", "/", "/", "=", "\n">>
    [] gaps = "tight"     -> IF Fuse(word, next) THEN <<"\n">> ELSE <<>>

Written(words, gaps) ==
  FlattenSeq([i \in DOMAIN words |->
                words[i] \o IF i = Len(words) THEN <<>> ELSE Gap(words[i], words[i + 1], gaps)])

(* A call of the compiler for a file with one of the sources in it. *)
Compile(sources) ==
  /\ source \in sources /\ text = Written(source.words, source.gaps)
  /\ \E call \in source.calls : argc = call[1] /\ readable = call[2]
  /\ Init

------------------------------------------------------------------------------
(* Properties.                                                               *)

(* What was lexed is what was written, whatever stands between the words:    *)
(* every token, in the order of its words, and no other, but for a text with *)
(* a word that is no token of the language.                                  *)
TokensFollowText ==
  main \in {"parse", "parsing"} /\ (\A n \in DOMAIN source.words : IsWord(source.words[n])) =>
    tokens = Append([n \in DOMAIN source.words |-> WordToken(source.words[n])], Eof)
==============================================================================
