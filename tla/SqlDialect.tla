------------------------------ MODULE SqlDialect -------------------------------
(***************************************************************************)
(* The SQL written for SQLite as psycopg2 gets it, and scripts taken apart *)
(* into statements (core/store_impl/base.py): two scanners that must leave *)
(* literals alone.                                                         *)
(*                                                                         *)
(* A text is a sequence of characters of which these matter: quotes, "$",  *)
(* ";", "?", "%", the blank, and "x" for any letter.                       *)
(***************************************************************************)
EXTENDS Integers, FiniteSets, SequencesExt

Characters == {"'", "\"", "$", ";", "?", "%", " ", "x"}

CharAt(sql, i) == IF i \in DOMAIN sql THEN sql[i] ELSE "end"

-----------------------------------------------------------------------------
(* Placeholders.                                                           *)

\* Faulty: a '?' becomes a placeholder wherever it stands.
PgTranslateBlind(sql) ==
  FlattenSeq([i \in DOMAIN sql |->
    CASE sql[i] = "%" -> <<"%", "%">> [] sql[i] = "?" -> <<"%", "s">> [] OTHER -> <<sql[i]>>])

\* Inside of a quote its own ends it, outside of quotes each begins.
Toggled(in, quote) ==
  CASE in = quote -> "bare" [] in = "bare" -> quote [] OTHER -> in

\* What was written, the quotes it is in and how far was read, with the next character.
Translated(s, sql, i) ==
  LET ch == sql[i]
      Put(text, in, read) == [out |-> s.out \o text, in |-> in, read |-> read]
  IN IF i <= s.read THEN Put(<<ch>>, s.in, s.read)
     ELSE CASE ch = "%" -> Put(<<"%", "%">>, s.in, i)
            [] ch = "?" -> Put(IF s.in = "bare" THEN <<"%", "s">> ELSE <<ch>>, s.in, i)
            [] ch = "'" -> IF s.in = "squote" /\ CharAt(sql, i + 1) = "'"
                           THEN Put(<<ch>>, s.in, i + 1)
                           ELSE Put(<<ch>>, Toggled(s.in, "squote"), i)
            [] ch = "\"" -> Put(<<ch>>, Toggled(s.in, "dquote"), i)
            [] OTHER -> Put(<<ch>>, s.in, i)

\* '%' is doubled everywhere, '?' is a placeholder outside of quotes.
PgTranslate(sql) ==
  LET after[i \in 0 .. Len(sql)] ==
        IF i = 0 THEN [out |-> <<>>, in |-> "bare", read |-> 0]
        ELSE Translated(after[i - 1], sql, i)
  IN after[Len(sql)].out

\* What psycopg2 sends: "%%" is '%', "%s" the next parameter.
Sent(s, ch) ==
  CASE s.format -> [out |-> s.out \o <<IF ch = "s" THEN "parameter" ELSE ch>>, format |-> FALSE]
    [] ~ s.format /\ ch = "%" -> [out |-> s.out, format |-> TRUE]
    [] ~ s.format /\ ch # "%" -> [out |-> s.out \o <<ch>>, format |-> FALSE]

Interpolate(sql) ==
  LET after[i \in 0 .. Len(sql)] ==
        IF i = 0 THEN [out |-> <<>>, format |-> FALSE] ELSE Sent(after[i - 1], sql[i])
  IN after[Len(sql)].out

-----------------------------------------------------------------------------
(* Statements.                                                             *)

\* The dollar tag that starts at i: "$", letters, "$"; <<>> if there is none.
TagAt(sql, i) ==
  LET ends == {j \in i + 1 .. Len(sql) :
                 sql[j] = "$" /\ \A k \in i + 1 .. j - 1 : sql[k] = "x"}
  IN IF CharAt(sql, i) # "$" \/ ends = {} THEN <<>> ELSE SubSeq(sql, i, Min(ends))

StartsWith(sql, tag, i) == SubSeq(sql, i, Min({Len(sql), i + Len(tag) - 1})) = tag

StripBlanks(text) ==
  LET filled == {i \in DOMAIN text : text[i] # " "}
  IN IF filled = {} THEN <<>> ELSE SubSeq(text, Min(filled), Max(filled))

Quotes == {<<>>, <<"'">>, <<"\"">>}

\* The pieces that are done and the one under way, what closes the literal it is in and
\* how far was read, with the next character.
Scanned(s, sql, i) ==
  LET ch == sql[i]
      tag == TagAt(sql, i)
      Put(in, read) == [done |-> s.done, now |-> s.now \o <<ch>>, in |-> in, read |-> read]
  IN CASE i <= s.read -> Put(s.in, s.read)
       [] i > s.read /\ s.in \notin Quotes ->
            IF StartsWith(sql, s.in, i) THEN Put(<<>>, i + Len(s.in) - 1) ELSE Put(s.in, i)
       [] i > s.read /\ s.in = <<"'">> ->
            IF ch # "'" THEN Put(s.in, i)
            ELSE IF CharAt(sql, i + 1) = "'" THEN Put(s.in, i + 1) ELSE Put(<<>>, i)
       [] i > s.read /\ s.in = <<"\"">> -> Put(IF ch = "\"" THEN <<>> ELSE s.in, i)
       [] i > s.read /\ s.in = <<>> ->
            CASE ch \in {"'", "\""} -> Put(<<ch>>, i)
              [] ch = "$" /\ tag # <<>> -> Put(tag, i + Len(tag) - 1)
              [] ch = ";" ->
                   [done |-> s.done \o <<s.now>>, now |-> <<>>, in |-> <<>>, read |-> i]
              [] OTHER -> Put(<<>>, i)

\* The pieces between the semicolons outside of literals.
Pieces(sql) ==
  LET after[i \in 0 .. Len(sql)] ==
        IF i = 0 THEN [done |-> <<>>, now |-> <<>>, in |-> <<>>, read |-> 0]
        ELSE Scanned(after[i - 1], sql, i)
  IN after[Len(sql)].done \o <<after[Len(sql)].now>>

\* The texts that are not blank, without the blanks around them.
Filled(texts) ==
  FlattenSeq([i \in DOMAIN texts |->
    IF StripBlanks(texts[i]) = <<>> THEN <<>> ELSE <<StripBlanks(texts[i])>>])

SplitSqlStatements(sql) == Filled(Pieces(sql))

-----------------------------------------------------------------------------
(* Properties, of texts put together from segments.                        *)

\* A segment of SQL: its kind and what is between its delimiters.
Delimiters == [bare |-> <<>>, squote |-> <<"'">>, dquote |-> <<"\"">>,
               dollar |-> <<"$", "$">>, tagged |-> <<"$", "x", "$">>]
TextOf(segment) == Delimiters[segment.kind] \o segment.body \o Delimiters[segment.kind]
Statement(segments) == FlattenSeq([i \in DOMAIN segments |-> TextOf(segments[i])])
Joined(statements) ==
  FlattenSeq([i \in DOMAIN statements |->
    IF i = 1 THEN Statement(statements[i]) ELSE <<";">> \o Statement(statements[i])])

\* A script is split into the statements it was joined from, whatever their literals,
\* identifiers and function bodies contain.
SplitRestores(statements) ==
  SplitSqlStatements(Joined(statements))
    = Filled([i \in DOMAIN statements |-> Statement(statements[i])])

\* The database gets the statement as it was written, with a parameter for each '?'
\* that is not in quotes: no '%' is lost or taken for a placeholder, in or out of
\* literals.
TranslationRestores(segments) ==
  Interpolate(PgTranslate(Statement(segments)))
    = FlattenSeq([i \in DOMAIN segments |->
        IF segments[i].kind # "bare" THEN TextOf(segments[i])
        ELSE [j \in DOMAIN segments[i].body |->
                IF segments[i].body[j] = "?" THEN "parameter" ELSE segments[i].body[j]]])
=============================================================================
