---------------------------- MODULE CommandLine ----------------------------
(***************************************************************************)
(* How the words of commandline.txt become the arguments of the game: Java *)
(* joins the lines of the file, and the native onCreate splits the text    *)
(* again (ParseCommandLine), in place, at spaces and double quotes, and    *)
(* takes the backslash from every escaped quote (UnEscapeQuotes).          *)
(*                                                                         *)
(* A text is a sequence of characters. Three of them mean something to the *)
(* parser; "a" stands for any other. What the parser does through a null   *)
(* pointer or past the end of argv is a fault.                             *)
(***************************************************************************)
EXTENDS Integers, SequencesExt

CONSTANT ArgvSize   \* the entries of argv: 255 in the code

ASSUME ArgvAssumption == ArgvSize \in Nat \ {0, 1}

Quote == "quote"
Backslash == "backslash"
Space == "space"
Characters == {"a", Quote, Backslash, Space}

\* What the character before a quote is when there is none: lastp is still NULL, or
\* points to the end of a string that an escape was taken from.
Null == "null"
Nul == "nul"
Lastp == Characters \cup {Null, Nul}

-----------------------------------------------------------------------------
(* Java: each line of the file, followed by a space. *)

Joined(lines) == FlattenSeq([n \in DOMAIN lines |-> Append(lines[n], Space)])

-----------------------------------------------------------------------------
(* UnEscapeQuotes, ParseCommandLine *)

\* Mutant: the backslashes stay.
AsItIs(arg) == arg

UnEscapeQuotes(arg) ==
    LET Escapes(i) == arg[i] = Backslash /\ i < Len(arg) /\ arg[i + 1] = Quote
    IN  FlattenSeq([i \in DOMAIN arg |-> IF Escapes(i) THEN << >> ELSE <<arg[i]>>])

\* The first of these places that is not before i, or the end of the text.
FirstFrom(text, i, places) ==
    CHOOSE j \in places \cup {Len(text) + 1} :
        j >= i /\ \A k \in places : k >= i => j <= k

NonSpace(text, i) ==
    IF i > Len(text) THEN i ELSE FirstFrom(text, i, {j \in DOMAIN text : text[j] # Space})
WordEnd(text, i) == FirstFrom(text, i, {j \in DOMAIN text : text[j] = Space})
QuotedEnd(text, i, lastp) ==
    LET before(j) == IF j = i THEN lastp ELSE text[j - 1]
    IN  FirstFrom(text, i, {j \in i..Len(text) : text[j] = Quote /\ before(j) # Backslash})

\* lastp is left at the last character of a quoted argument.
LastpAfter(arg, lastp) ==
    CASE arg = << >> -> lastp
      [] UnEscapeQuotes(arg) # arg -> Nul
      [] OTHER -> Last(arg)

Parsed(args, wild) == [argv |-> args, wild |-> wild]
WithFirst(arg, rest) == [rest EXCEPT !.argv = <<UnEscapeQuotes(arg)>> \o @]

\* What is read from i on: one argument, if there is one, and what parse makes of the
\* rest. wild: a quote was met with no character before it to look at.
ReadFrom(text, i, lastp, parse) ==
    LET s == NonSpace(text, i)
        e == WordEnd(text, s)
        q == QuotedEnd(text, s + 1, lastp)
        quoted == SubSeq(text, s + 1, q - 1)
    IN  CASE s > Len(text) -> Parsed(<< >>, FALSE)
          [] s <= Len(text) /\ text[s] # Quote ->
                 WithFirst(SubSeq(text, s, e - 1), parse[e + 1][lastp])
          [] s = Len(text) /\ text[s] = Quote -> Parsed(<< >>, FALSE)
          [] s < Len(text) /\ text[s] = Quote /\ text[s + 1] = Quote /\ lastp = Null ->
                 Parsed(<< >>, TRUE)
          [] OTHER -> WithFirst(quoted, parse[q + 1][LastpAfter(quoted, lastp)])

ParseCommandLine(text) ==
    LET parse[i \in 1 .. Len(text) + 2] ==
            [lastp \in Lastp |-> ReadFrom(text, i, lastp, parse)]
    IN  parse[1][Null]

\* What onCreate makes of the parameters Java passes: no copy is made of an empty
\* text, and a null pointer is duplicated instead; every argument and the final
\* null pointer are written to argv.
CommandFault(text) ==
    LET parsed == ParseCommandLine(text)
    IN  CASE text = << >> -> "nullCommandLine"
          [] parsed.wild -> "nullLastp"
          [] ~parsed.wild /\ Len(parsed.argv) + 1 > ArgvSize -> "argvOverrun"
          [] OTHER -> "ok"

-----------------------------------------------------------------------------
(* What a player may write: words with a backslash before every quote, in  *)
(* quotes if they are empty or contain a space, in one line or in many.    *)

Escaped(word) ==
    FlattenSeq([i \in DOMAIN word |->
        IF word[i] = Quote THEN <<Backslash, Quote>> ELSE <<word[i]>>])
NeedsQuotes(word) == word = << >> \/ Contains(word, Space)
Written(word) ==
    IF NeedsQuotes(word) THEN <<Quote>> \o Escaped(word) \o <<Quote>> ELSE Escaped(word)

OneLine(words) == << Joined([n \in DOMAIN words |-> Written(words[n])]) >>
LineForEach(words) == [n \in DOMAIN words |-> Written(words[n])]

\* Some lists of words cannot be written: a quoted word cannot end in a backslash,
\* the first quoted word cannot be empty, and a file without a line is no list.
CanBeWritten(words) ==
    /\ words # << >> /\ Len(words) < ArgvSize
    /\ \A n \in DOMAIN words : NeedsQuotes(words[n]) /\ words[n] # << >> =>
           Last(words[n]) # Backslash
    /\ \A n \in DOMAIN words : words[n] = << >> =>
           \E m \in 1 .. n - 1 : NeedsQuotes(words[m]) /\ words[m] # << >>
=============================================================================
