-------------------------------- MODULE Text --------------------------------
(***************************************************************************)
(* How the text of a header field is taken apart: comma-separated lists    *)
(* (TrimmedCSV in internal/helpers.go), quoted strings                     *)
(* (internal/quotedstring.go) and Cache-Control directives                 *)
(* (internal/ccdirectives.go).                                             *)
(*                                                                         *)
(* A text is a sequence of letters, each a string of one character.        *)
(***************************************************************************)
EXTENDS Naturals, Sequences, SequencesExt

Letter == STRING
Space == " "
Comma == ","
Equals == "="
Quote == "\""
Backslash == "\\"

ASSUME LetterAssumption == {Space, Comma, Equals, Quote, Backslash} \subseteq Letter

\* textproto.TrimString
TrimString(s) ==
    LET kept == { i \in DOMAIN s : s[i] # Space }
    IN  IF kept = {} THEN <<>> ELSE SubSeq(s, Min(kept), Max(kept))

(***************************************************************************)
(* The loop of TrimmedCSV reads one letter after the other: parts is what  *)
(* it has yielded, part the element it is in.                              *)
(***************************************************************************)
Reader == [parts |-> <<>>, part |-> <<>>, inQuotes |-> FALSE, escape |-> FALSE]

Yield(r) ==
    IF TrimString(r.part) = <<>> THEN r.parts ELSE Append(r.parts, TrimString(r.part))

\* Mutation: a backslash does not protect the letter after it.
ReadLetterPlain(r, c) ==
    IF c = Comma /\ ~ r.inQuotes
    THEN [r EXCEPT !.parts = Yield(r), !.part = <<>>]
    ELSE [r EXCEPT !.part = Append(@, c), !.inQuotes = IF c = Quote THEN ~ @ ELSE @]

ReadLetter(r, c) ==
    IF c = Comma /\ ~ r.escape /\ ~ r.inQuotes
    THEN [r EXCEPT !.parts = Yield(r), !.part = <<>>]
    ELSE [r EXCEPT !.part = Append(@, c),
                   !.escape = ~ r.escape /\ c = Backslash,
                   !.inQuotes = IF c = Quote /\ ~ r.escape THEN ~ @ ELSE @]

TrimmedCSV(s) == Yield(FoldLeft(ReadLetter, Reader, s))

(***************************************************************************)
(* ParseQuotedStringE: the letters between the outer quotes, unescaped.    *)
(* A quote that is not escaped, or a backslash with nothing after it, is   *)
(* an error.                                                               *)
(***************************************************************************)
Unescape(r, c) ==
    CASE r.escape       -> [r EXCEPT !.out = Append(@, c), !.escape = FALSE]
      [] ~ r.escape /\ c = Backslash -> [r EXCEPT !.escape = TRUE]
      [] ~ r.escape /\ c = Quote     -> [r EXCEPT !.ok = FALSE]
      [] OTHER          -> [r EXCEPT !.out = Append(@, c)]

\* A text that cannot be parsed is returned as it is.
ParseQuotedString(s) ==
    LET r == FoldLeft(Unescape, [out |-> <<>>, escape |-> FALSE, ok |-> TRUE],
                      SubSeq(s, 2, Len(s) - 1))
    IN  IF /\ Len(s) >= 2 /\ s[1] = Quote /\ s[Len(s)] = Quote
           /\ r.ok /\ ~ r.escape
        THEN r.out ELSE s

(***************************************************************************)
(* directives: each element is cut at its first "=", and only then is the  *)
(* name left untrimmed.  An element without a name is skipped.             *)
(***************************************************************************)
Directive(part) ==
    LET eq == SelectInSeq(part, LAMBDA c : c = Equals)
    IN  IF eq = 0
        THEN [name |-> TrimString(part), value |-> <<>>]
        ELSE [name |-> SubSeq(part, 1, eq - 1),
              value |-> TrimString(SubSeq(part, eq + 1, Len(part)))]

PutDirective(ds, part) ==
    IF Directive(part).name = <<>> THEN ds ELSE Append(ds, Directive(part))

DirectiveSeq(s) == FoldLeft(PutDirective, <<>>, TrimmedCSV(s))

\* parseDirectives: of two directives with one name the last one counts.
ParseDirectives(s) ==
    LET ds == DirectiveSeq(s)
    IN  [name \in { ds[i].name : i \in DOMAIN ds } |->
            ds[SelectLastInSeq(ds, LAMBDA d : d.name = name)].value]

(***************************************************************************)
(* The field names of no-cache="..." (CCResponseDirectives.NoCache,        *)
(* RawCSV).  This is the only directive whose argument is taken out of its *)
(* quotes.                                                                 *)
(***************************************************************************)
NoCache == <<"n", "o", "-", "c", "a", "c", "h", "e">>
NoCacheFields(read) == TrimmedCSV(ParseQuotedString(read[NoCache]))
=============================================================================
