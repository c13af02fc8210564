------------------------- MODULE CommandLine_proofs -------------------------
(***************************************************************************)
(* For every list of words that can be written, of any length, and however *)
(* they are laid out in lines: ParseCommandLine gives back those words     *)
(* (ReadAsWritten). The argument is by induction on the words from the     *)
(* last to the first, and needs what is made of one word, with its quotes  *)
(* and escapes, wherever it is in the text.                                *)
(*                                                                         *)
(* The induction is over sets of numbers (EveryNumber), since a theorem    *)
(* with an operator for its parameter cannot be used; the same lemma shows *)
(* that FlattenSeq and the parser, which are recursive functions, exist.   *)
(*                                                                         *)
(* Of any other text, AnyTextIsRead says what the parser cannot do to it,  *)
(* by induction from its end to its beginning.                             *)
(***************************************************************************)
EXTENDS CommandLine, SequenceTheorems, WellFoundedInduction, TLAPS

-----------------------------------------------------------------------------
\* A set of numbers that is not empty has a least one.
LEMMA LeastNumber ==
    ASSUME NEW T, T \subseteq Nat, T # {}
    PROVE  \E n \in T : \A m \in T : n <= m
  <1>1. PICK n \in T : \A m \in T : <<m, n>> \notin OpToRel(<, Nat)
    BY NatLessThanWellFounded, WFMin, Zenon
  <1>2. \A m \in T : m < n => <<m, n>> \in OpToRel(<, Nat)
    BY DEF OpToRel
  <1>3. \A m \in T : ~(m < n)
    BY <1>1, <1>2, Zenon
  <1> QED
    BY <1>3

\* A set of numbers that holds 0, and with each number the next, holds them all.
LEMMA EveryNumber ==
    ASSUME NEW S, 0 \in S, \A n \in Nat : n \in S => n + 1 \in S
    PROVE  \A n \in Nat : n \in S
  <1> SUFFICES ASSUME Nat \ S # {} PROVE FALSE
    OBVIOUS
  <1>1. PICK n \in Nat \ S : \A m \in Nat \ S : n <= m
    BY LeastNumber
  <1>2. n # 0 /\ n - 1 \in Nat /\ n - 1 \notin Nat \ S
    BY <1>1
  <1> QED
    BY <1>2

-----------------------------------------------------------------------------
\* FlattenSeq is a recursive function: it exists.
FlattenStep(seqs, f) == [i \in 1 .. Len(seqs) |-> IF i = 1 THEN seqs[i] ELSE f[i - 1] \o seqs[i]]

\* There is a function that equals one step of joining the sequences made from itself.
LEMMA FlattenExists ==
    ASSUME NEW seqs, Len(seqs) \in Nat
    PROVE  \E f : f = FlattenStep(seqs, f)
  <1> DEFINE Upto(f, n) == f = [i \in 1 .. n |-> IF i = 1 THEN seqs[i] ELSE f[i - 1] \o seqs[i]]
             S == {n \in Nat : \E f : Upto(f, n)}
  <1>1. 0 \in S
    <2>1. Upto([i \in 1 .. 0 |-> 0], 0)
      OBVIOUS
    <2> QED
      BY <2>1
  <1>2. ASSUME NEW n \in Nat, n \in S PROVE n + 1 \in S
    <2>1. PICK f : Upto(f, n)
      BY <1>2
    <2> DEFINE last == IF n = 0 THEN seqs[1] ELSE f[n] \o seqs[n + 1]
               g == [i \in 1 .. n + 1 |-> IF i = n + 1 THEN last ELSE f[i]]
    <2>2. \A i \in 1 .. n : f[i] = IF i = 1 THEN seqs[i] ELSE f[i - 1] \o seqs[i]
      BY <2>1
    <2>3. \A i \in 1 .. n + 1 : g[i] = IF i = 1 THEN seqs[i] ELSE g[i - 1] \o seqs[i]
      <3> SUFFICES ASSUME NEW i \in 1 .. n + 1
                   PROVE  g[i] = IF i = 1 THEN seqs[i] ELSE g[i - 1] \o seqs[i]
        OBVIOUS
      <3>1. CASE i = n + 1
        BY <3>1
      <3>2. CASE i # n + 1
        BY <2>2, <3>2
      <3> QED
        BY <3>1, <3>2
    <2>4. Upto(g, n + 1)
      <3>1. DOMAIN g = 1 .. n + 1 /\ g = [i \in 1 .. n + 1 |-> g[i]]
        OBVIOUS
      <3> HIDE DEF g
      <3> QED
        BY <2>3, <3>1
    <2> HIDE DEF g, Upto
    <2> QED
      BY <2>4, <1>2
  <1> HIDE DEF S
  <1>3. Len(seqs) \in S
    BY <1>1, <1>2, EveryNumber
  <1> QED
    BY <1>3 DEF S, FlattenStep

\* FlattenSeq is the last value of such a function.
LEMMA FlattenIs ==
    ASSUME NEW seqs, Len(seqs) \in Nat \ {0}
    PROVE  \E f : f = FlattenStep(seqs, f) /\ FlattenSeq(seqs) = f[Len(seqs)]
  <1> DEFINE F == CHOOSE f : f = FlattenStep(seqs, f)
  <1>1. F = FlattenStep(seqs, F)
    BY FlattenExists
  <1>2. FlattenSeq(seqs) = F[Len(seqs)]
    BY DEF FlattenSeq, FlattenStep
  <1> QED
    BY <1>1, <1>2

\* No sequences joined are the empty one.
LEMMA FlattenEmpty == FlattenSeq(<< >>) = << >>
  BY DEF FlattenSeq

\* Sequences over a set, joined, are a sequence over it.
LEMMA FlattenType ==
    ASSUME NEW T, NEW seqs \in Seq(Seq(T))
    PROVE  FlattenSeq(seqs) \in Seq(T)
  <1>1. CASE Len(seqs) = 0
    <2>1. seqs = << >>
      BY <1>1
    <2> QED
      BY <2>1, FlattenEmpty, EmptySeq
  <1>2. CASE Len(seqs) # 0
    <2>1. PICK f : f = FlattenStep(seqs, f) /\ FlattenSeq(seqs) = f[Len(seqs)]
      BY <1>2, FlattenIs
    <2> DEFINE S == {n \in Nat : n \in 1 .. Len(seqs) => f[n] \in Seq(T)}
    <2>2. \A i \in 1 .. Len(seqs) : f[i] = IF i = 1 THEN seqs[i] ELSE f[i - 1] \o seqs[i]
      BY <2>1 DEF FlattenStep
    <2>3. ASSUME NEW n \in Nat, n \in S PROVE n + 1 \in S
      <3> SUFFICES ASSUME n + 1 \in 1 .. Len(seqs) PROVE f[n + 1] \in Seq(T)
        OBVIOUS
      <3>1. seqs[n + 1] \in Seq(T)
        OBVIOUS
      <3>2. CASE n = 0
        BY <2>2, <3>1, <3>2
      <3>3. CASE n # 0
        <4>1. n \in 1 .. Len(seqs) /\ n + 1 # 1 /\ (n + 1) - 1 = n
          BY <3>3
        <4>2. f[n] \in Seq(T)
          BY <2>3, <4>1
        <4>3. f[n + 1] = f[n] \o seqs[n + 1]
          BY <2>2, <4>1
        <4> QED
          BY <3>1, <4>2, <4>3, ConcatProperties
      <3> QED
        BY <3>2, <3>3
    <2>4. 0 \in S
      OBVIOUS
    <2> HIDE DEF S
    <2>5. Len(seqs) \in S
      BY <2>3, <2>4, EveryNumber
    <2> QED
      BY <1>2, <2>1, <2>5 DEF S
  <1> QED
    BY <1>1, <1>2

\* One more sequence is joined at the end.
LEMMA FlattenAppend ==
    ASSUME NEW T, NEW seqs \in Seq(Seq(T)), NEW x \in Seq(T)
    PROVE  FlattenSeq(Append(seqs, x)) = FlattenSeq(seqs) \o x
  <1> DEFINE more == Append(seqs, x)
             N == Len(seqs)
  <1>1. Len(more) = N + 1 /\ more[N + 1] = x /\ \A i \in 1 .. N : more[i] = seqs[i]
    OBVIOUS
  <1> HIDE DEF more
  <1>2. PICK f : f = FlattenStep(more, f) /\ FlattenSeq(more) = f[N + 1]
    <2>1. N \in Nat /\ Len(more) \in Nat \ {0}
      BY <1>1
    <2> QED
      BY <1>1, <2>1, FlattenIs
  <1>3. \A i \in 1 .. N + 1 : f[i] = IF i = 1 THEN more[i] ELSE f[i - 1] \o more[i]
    BY <1>1, <1>2 DEF FlattenStep
  <1>4. CASE N = 0
    <2>1. seqs = << >> /\ FlattenSeq(more) = x
      BY <1>1, <1>2, <1>3, <1>4
    <2> QED
      BY <2>1, FlattenEmpty, ConcatEmptySeq DEF more
  <1>5. CASE N # 0
    <2>1. PICK g : g = FlattenStep(seqs, g) /\ FlattenSeq(seqs) = g[N]
      BY <1>5, FlattenIs
    <2>2. \A i \in 1 .. N : g[i] = IF i = 1 THEN seqs[i] ELSE g[i - 1] \o seqs[i]
      BY <2>1 DEF FlattenStep
    <2> DEFINE S == {n \in Nat : n \in 1 .. N => f[n] = g[n]}
    <2>3. 0 \in S
      OBVIOUS
    <2>4. ASSUME NEW n \in Nat, n \in S PROVE n + 1 \in S
      <3> SUFFICES ASSUME n + 1 \in 1 .. N PROVE f[n + 1] = g[n + 1]
        OBVIOUS
      <3>1. f[n + 1] = IF n = 0 THEN seqs[1] ELSE f[n] \o seqs[n + 1]
        BY <1>1, <1>3
      <3>2. g[n + 1] = IF n = 0 THEN seqs[1] ELSE g[n] \o seqs[n + 1]
        BY <2>2
      <3> QED
        BY <2>4, <3>1, <3>2
    <2> HIDE DEF S
    <2>5. N \in S
      <3>1. N \in Nat
        OBVIOUS
      <3> HIDE DEF N
      <3> QED
        BY <2>3, <2>4, <3>1, EveryNumber
    <2>6. f[N] = g[N]
      BY <1>5, <2>5 DEF S
    <2>7. f[N + 1] = f[N] \o x
      <3>1. N + 1 \in 1 .. N + 1 /\ N + 1 # 1 /\ (N + 1) - 1 = N
        BY <1>5
      <3> QED
        BY <1>1, <1>3, <3>1
    <2> QED
      BY <1>2, <2>1, <2>6, <2>7 DEF more
  <1> QED
    BY <1>4, <1>5

-----------------------------------------------------------------------------
\* What is made of the first n sequences, and where each sequence is in the whole.
First(seqs, n) == FlattenSeq(SubSeq(seqs, 1, n))

\* The first none are nothing, and the first all are the whole.
LEMMA FirstEnds ==
    ASSUME NEW T, NEW seqs \in Seq(Seq(T))
    PROVE  First(seqs, 0) = << >> /\ First(seqs, Len(seqs)) = FlattenSeq(seqs)
  <1>1. First(seqs, 0) = << >>
    <2>1. SubSeq(seqs, 1, 0) = << >>
      BY SubSeqEmpty, 0 < 1
    <2> QED
      BY <2>1, FlattenEmpty DEF First
  <1>2. First(seqs, Len(seqs)) = FlattenSeq(seqs)
    BY SubSeqFull DEF First
  <1> QED
    BY <1>1, <1>2

\* The first n sequences over a set, joined, are a sequence over it.
LEMMA FirstType ==
    ASSUME NEW T, NEW seqs \in Seq(Seq(T)), NEW n \in 0 .. Len(seqs)
    PROVE  First(seqs, n) \in Seq(T)
  <1>1. SubSeq(seqs, 1, n) \in Seq(Seq(T))
    BY SubSeqProperties
  <1> QED
    BY <1>1, FlattenType DEF First

\* The nth sequence is joined to the n - 1 before it.
LEMMA FirstNext ==
    ASSUME NEW T, NEW seqs \in Seq(Seq(T)), NEW n \in 1 .. Len(seqs)
    PROVE  First(seqs, n) = First(seqs, n - 1) \o seqs[n]
  <1> DEFINE start == SubSeq(seqs, 1, n - 1)
  <1>1. start \in Seq(Seq(T)) /\ seqs[n] \in Seq(T)
    BY SubSeqProperties
  <1>2. SubSeq(seqs, 1, n) = Append(start, seqs[n])
    BY <1>1, SubSeqRecursiveSecond, AppendIsConcat
  <1> QED
    BY <1>1, <1>2, FlattenAppend DEF First

\* The whole begins with the first n.
LEMMA WhereFirst ==
    ASSUME NEW T, NEW seqs \in Seq(Seq(T)), NEW n \in 0 .. Len(seqs)
    PROVE  /\ Len(First(seqs, n)) <= Len(FlattenSeq(seqs))
           /\ \A i \in 1 .. Len(First(seqs, n)) : FlattenSeq(seqs)[i] = First(seqs, n)[i]
  <1> DEFINE Starts(m) ==
                 /\ Len(First(seqs, n)) <= Len(First(seqs, m))
                 /\ \A i \in 1 .. Len(First(seqs, n)) : First(seqs, m)[i] = First(seqs, n)[i]
             S == {k \in Nat : n + k <= Len(seqs) => Starts(n + k)}
  <1>1. 0 \in S
    <2>1. First(seqs, n) \in Seq(T) /\ n + 0 = n
      BY FirstType
    <2> QED
      BY <2>1
  <1>2. ASSUME NEW k \in Nat, k \in S PROVE k + 1 \in S
    <2> SUFFICES ASSUME n + (k + 1) <= Len(seqs) PROVE Starts(n + (k + 1))
      OBVIOUS
    <2> DEFINE m == n + k
    <2>1. Starts(m)
      BY <1>2
    <2>2. m + 1 \in 1 .. Len(seqs) /\ m \in 0 .. Len(seqs) /\ (m + 1) - 1 = m
      OBVIOUS
    <2> HIDE DEF m
    <2>3. /\ First(seqs, m) \in Seq(T) /\ First(seqs, n) \in Seq(T)
          /\ seqs[m + 1] \in Seq(T)
          /\ First(seqs, m + 1) = First(seqs, m) \o seqs[m + 1]
      <3>1. First(seqs, m + 1) = First(seqs, (m + 1) - 1) \o seqs[m + 1]
        BY <2>2, FirstNext
      <3>2. seqs[m + 1] \in Seq(T)
        BY <2>2
      <3> QED
        BY <2>2, <3>1, <3>2, FirstType
    <2>4. /\ Len(First(seqs, m + 1)) = Len(First(seqs, m)) + Len(seqs[m + 1])
          /\ \A i \in 1 .. Len(First(seqs, m)) : First(seqs, m + 1)[i] = First(seqs, m)[i]
      BY <2>3, ConcatProperties
    <2>5. Starts(m + 1)
      BY <2>1, <2>3, <2>4
    <2> QED
      BY <2>5 DEF m
  <1> HIDE DEF S
  <1>3. Len(seqs) - n \in S
    <2>1. Len(seqs) - n \in Nat
      OBVIOUS
    <2> QED
      BY <1>1, <1>2, <2>1, EveryNumber
  <1>4. n + (Len(seqs) - n) = Len(seqs) /\ Len(seqs) <= Len(seqs)
    OBVIOUS
  <1>5. Starts(Len(seqs))
    BY <1>3, <1>4 DEF S
  <1> QED
    BY <1>5, FirstEnds

\* The nth sequence is in the whole where the n - 1 before it end.
LEMMA WhereEach ==
    ASSUME NEW T, NEW seqs \in Seq(Seq(T)), NEW n \in 1 .. Len(seqs)
    PROVE  /\ Len(First(seqs, n)) = Len(First(seqs, n - 1)) + Len(seqs[n])
           /\ \A i \in 1 .. Len(seqs[n]) :
                  FlattenSeq(seqs)[Len(First(seqs, n - 1)) + i] = seqs[n][i]
  <1>0. n - 1 \in 0 .. Len(seqs) /\ n \in 0 .. Len(seqs)
    OBVIOUS
  <1>1. First(seqs, n - 1) \in Seq(T) /\ First(seqs, n) \in Seq(T) /\ seqs[n] \in Seq(T)
    BY <1>0, FirstType
  <1>2. First(seqs, n) = First(seqs, n - 1) \o seqs[n]
    BY FirstNext
  <1>3. /\ Len(First(seqs, n)) = Len(First(seqs, n - 1)) + Len(seqs[n])
        /\ \A i \in 1 .. Len(seqs[n]) : First(seqs, n)[Len(First(seqs, n - 1)) + i] = seqs[n][i]
    BY <1>1, <1>2, ConcatProperties
  <1>4. \A i \in 1 .. Len(seqs[n]) : Len(First(seqs, n - 1)) + i \in 1 .. Len(First(seqs, n))
    BY <1>1, <1>3
  <1>5. \A i \in 1 .. Len(First(seqs, n)) : FlattenSeq(seqs)[i] = First(seqs, n)[i]
    BY <1>0, WhereFirst
  <1> QED
    BY <1>3, <1>4, <1>5

-----------------------------------------------------------------------------
(* Escaping and taking the escapes away again. *)

Text == Seq(Characters)

\* What is written for a character, and what is left of each character of an argument.
Escape(c) == IF c = Quote THEN <<Backslash, Quote>> ELSE <<c>>
Escapes(word) == [i \in DOMAIN word |-> Escape(word[i])]
IsEscape(arg, i) == arg[i] = Backslash /\ i < Len(arg) /\ arg[i + 1] = Quote
Left(arg) == [i \in DOMAIN arg |-> IF IsEscape(arg, i) THEN << >> ELSE <<arg[i]>>]

\* What is written for a character is a text.
LEMMA EscapeType == \A c \in Characters : Escape(c) \in Text /\ <<c>> \in Text
  <1>1. Quote \in Characters /\ Backslash \in Characters
    BY DEF Characters
  <1>2. <<Backslash, Quote>> \in Text /\ \A c \in Characters : <<c>> \in Text
    BY <1>1 DEF Text
  <1> QED
    BY <1>2 DEF Escape

\* What is written for the characters of a word, and what is left of them, are texts.
LEMMA PiecesType ==
    ASSUME NEW word \in Text
    PROVE  /\ Escapes(word) \in Seq(Text) /\ Left(word) \in Seq(Text)
           /\ Len(Escapes(word)) = Len(word) /\ Len(Left(word)) = Len(word)
  <1>1. /\ Len(word) \in Nat /\ DOMAIN word = 1 .. Len(word)
        /\ \A i \in 1 .. Len(word) : word[i] \in Characters
    BY DEF Text
  <1>2. \A i \in 1 .. Len(word) : Escape(word[i]) \in Text
    BY <1>1, EscapeType
  <1>3. \A i \in 1 .. Len(word) : (IF IsEscape(word, i) THEN << >> ELSE <<word[i]>>) \in Text
    BY <1>1, EscapeType, EmptySeq DEF Text
  <1> QED
    BY <1>1, <1>2, <1>3 DEF Escapes, Left

\* Escaped joins what is written for each character.
LEMMA EscapedIs == \A word : Escaped(word) = FlattenSeq(Escapes(word))
  BY DEF Escaped, Escapes, Escape

\* UnEscapeQuotes joins what is left of each character.
LEMMA UnEscapeIs == \A arg : UnEscapeQuotes(arg) = FlattenSeq(Left(arg))
  BY DEF UnEscapeQuotes, Left, IsEscape

\* Escaping, and taking escapes away, makes a text of a text.
LEMMA EscapedType ==
    ASSUME NEW word \in Text
    PROVE  Escaped(word) \in Text /\ UnEscapeQuotes(word) \in Text
  BY PiecesType, FlattenType, EscapedIs, UnEscapeIs DEF Text

\* An appended character is escaped after those before it.
LEMMA EscapedAppend ==
    ASSUME NEW word \in Text, NEW c \in Characters
    PROVE  Escaped(Append(word, c)) = Escaped(word) \o Escape(c)
  <1>1. /\ Append(word, c) \in Text /\ Len(Append(word, c)) = Len(word) + 1
        /\ \A i \in 1 .. Len(word) : Append(word, c)[i] = word[i]
        /\ Append(word, c)[Len(word) + 1] = c
    BY DEF Text
  <1>2. Escape(c) \in Text
    BY EscapeType
  <1>3. /\ Append(Escapes(word), Escape(c)) \in Seq(Text)
        /\ Len(Append(Escapes(word), Escape(c))) = Len(word) + 1
        /\ \A i \in 1 .. Len(word) : Append(Escapes(word), Escape(c))[i] = Escapes(word)[i]
        /\ Append(Escapes(word), Escape(c))[Len(word) + 1] = Escape(c)
    BY <1>2, PiecesType, AppendProperties
  <1>4. /\ Escapes(Append(word, c)) \in Seq(Text)
        /\ Len(Escapes(Append(word, c))) = Len(word) + 1
    BY <1>1, PiecesType
  <1>5. \A i \in 1 .. Len(word) + 1 :
            Escapes(Append(word, c))[i] = Append(Escapes(word), Escape(c))[i]
    <2>1. DOMAIN word = 1 .. Len(word) /\ DOMAIN Append(word, c) = 1 .. Len(word) + 1
      BY <1>1 DEF Text
    <2> QED
      BY <1>1, <1>3, <2>1 DEF Escapes
  <1>6. Escapes(Append(word, c)) = Append(Escapes(word), Escape(c))
    BY <1>3, <1>4, <1>5, SeqEqual
  <1> QED
    BY <1>2, <1>6, PiecesType, FlattenAppend, EscapedIs DEF Text

\* An appended character changes nothing for those before it, unless it is a quote
\* after a backslash.
LEMMA LeftAppend ==
    ASSUME NEW arg \in Text, NEW c \in Characters,
           ~(c = Quote /\ arg # << >> /\ arg[Len(arg)] = Backslash)
    PROVE  UnEscapeQuotes(Append(arg, c)) = UnEscapeQuotes(arg) \o <<c>>
  <1>1. /\ Append(arg, c) \in Text /\ Len(Append(arg, c)) = Len(arg) + 1
        /\ \A i \in 1 .. Len(arg) : Append(arg, c)[i] = arg[i]
        /\ Append(arg, c)[Len(arg) + 1] = c
        /\ DOMAIN arg = 1 .. Len(arg) /\ DOMAIN Append(arg, c) = 1 .. Len(arg) + 1
        /\ Len(arg) \in Nat
    BY DEF Text
  <1>2. <<c>> \in Text
    BY EscapeType
  <1>3. /\ Append(Left(arg), <<c>>) \in Seq(Text)
        /\ Len(Append(Left(arg), <<c>>)) = Len(arg) + 1
        /\ \A i \in 1 .. Len(arg) : Append(Left(arg), <<c>>)[i] = Left(arg)[i]
        /\ Append(Left(arg), <<c>>)[Len(arg) + 1] = <<c>>
    BY <1>2, PiecesType, AppendProperties
  <1>4. /\ Left(Append(arg, c)) \in Seq(Text)
        /\ Len(Left(Append(arg, c))) = Len(arg) + 1
    BY <1>1, PiecesType
  <1>5. \A i \in 1 .. Len(arg) : IsEscape(Append(arg, c), i) <=> IsEscape(arg, i)
    <2> SUFFICES ASSUME NEW i \in 1 .. Len(arg)
                 PROVE  IsEscape(Append(arg, c), i) <=> IsEscape(arg, i)
      OBVIOUS
    <2>1. CASE i < Len(arg)
      BY <1>1, <2>1 DEF IsEscape
    <2>2. CASE i = Len(arg)
      <3>1. arg # << >>
        BY <2>2
      <3> QED
        BY <1>1, <2>2, <3>1 DEF IsEscape
    <2> QED
      BY <2>1, <2>2
  <1>6. ~IsEscape(Append(arg, c), Len(arg) + 1)
    BY <1>1 DEF IsEscape
  <1>7. \A i \in 1 .. Len(arg) + 1 : Left(Append(arg, c))[i] = Append(Left(arg), <<c>>)[i]
    BY <1>1, <1>3, <1>5, <1>6 DEF Left
  <1>8. Left(Append(arg, c)) = Append(Left(arg), <<c>>)
    BY <1>3, <1>4, <1>7, SeqEqual
  <1> QED
    BY <1>2, <1>8, PiecesType, FlattenAppend, UnEscapeIs DEF Text

\* A quote escaped at the end of an argument is left there without its backslash.
LEMMA LeftEscaped ==
    ASSUME NEW arg \in Text
    PROVE  UnEscapeQuotes(arg \o Escape(Quote)) = UnEscapeQuotes(arg) \o <<Quote>>
  <1> DEFINE n == Len(arg)
             more == Append(arg, Backslash)
             whole == Append(more, Quote)
             left == Append(Left(arg), << >>)
  <1>1. Quote \in Characters /\ Backslash \in Characters /\ Quote # Backslash
    BY DEF Characters, Quote, Backslash
  <1>2. /\ more \in Text /\ Len(more) = n + 1 /\ more[n + 1] = Backslash
        /\ \A i \in 1 .. n : more[i] = arg[i]
        /\ n \in Nat /\ DOMAIN arg = 1 .. n
    BY <1>1 DEF Text
  <1>3. /\ whole \in Text /\ Len(whole) = n + 2 /\ whole[n + 2] = Quote
        /\ \A i \in 1 .. n + 1 : whole[i] = more[i]
        /\ DOMAIN whole = 1 .. n + 2
    BY <1>1, <1>2 DEF Text
  <1>4. /\ <<Quote>> \in Text /\ << >> \in Text
        /\ left \in Seq(Text) /\ Len(left) = n + 1 /\ left[n + 1] = << >>
        /\ \A i \in 1 .. n : left[i] = Left(arg)[i]
    BY <1>1, EscapeType, EmptySeq, PiecesType, AppendProperties DEF Text
  <1>5. /\ Append(left, <<Quote>>) \in Seq(Text) /\ Len(Append(left, <<Quote>>)) = n + 2
        /\ Append(left, <<Quote>>)[n + 2] = <<Quote>>
        /\ \A i \in 1 .. n + 1 : Append(left, <<Quote>>)[i] = left[i]
    <2> HIDE DEF left
    <2>1. Len(left) + 1 = n + 2
      BY <1>2, <1>4
    <2> QED
      BY <1>4, <2>1, AppendProperties
  <1>6. Left(whole) \in Seq(Text) /\ Len(Left(whole)) = n + 2
    BY <1>3, PiecesType
  <1> HIDE DEF whole, more, left
  <1>7. \A i \in 1 .. n : Left(whole)[i] = Left(arg)[i]
    <2> SUFFICES ASSUME NEW i \in 1 .. n PROVE IsEscape(whole, i) <=> IsEscape(arg, i)
      BY <1>2, <1>3 DEF Left
    <2>1. CASE i < n
      BY <1>2, <1>3, <2>1 DEF IsEscape
    <2>2. CASE i = n
      BY <1>1, <1>2, <1>3, <2>2 DEF IsEscape
    <2>3. i < n \/ i = n
      BY DEF Text
    <2> QED
      BY <2>1, <2>2, <2>3
  <1>8. IsEscape(whole, n + 1) /\ ~IsEscape(whole, n + 2)
    BY <1>2, <1>3 DEF IsEscape
  <1>9. Left(whole)[n + 1] = << >> /\ Left(whole)[n + 2] = <<Quote>>
    BY <1>2, <1>3, <1>8 DEF Left
  <1>10. \A i \in 1 .. n + 2 : Left(whole)[i] = Append(left, <<Quote>>)[i]
    BY <1>2, <1>4, <1>5, <1>7, <1>9
  <1>11. Left(whole) = Append(left, <<Quote>>)
    BY <1>5, <1>6, <1>10, SeqEqual
  <1>12. FlattenSeq(Left(whole)) = FlattenSeq(left) \o <<Quote>>
    BY <1>4, <1>11, FlattenAppend DEF Text
  <1>13. FlattenSeq(left) = UnEscapeQuotes(arg)
    <2>1. FlattenSeq(left) = UnEscapeQuotes(arg) \o << >>
      BY <1>4, PiecesType, FlattenAppend, UnEscapeIs DEF Text, left
    <2> QED
      BY <2>1, EscapedType, ConcatEmptySeq DEF Text
  <1>14. arg \o Escape(Quote) = whole
    BY <1>1 DEF whole, more, Escape, Text
  <1> QED
    BY <1>12, <1>13, <1>14, UnEscapeIs

\* An argument that was written with its quotes escaped is the word it was written for.
LEMMA UnEscapeEscaped == \A word \in Text : UnEscapeQuotes(Escaped(word)) = word
  <1> DEFINE S == {n \in Nat : \A word \in Text :
                                  Len(word) = n => UnEscapeQuotes(Escaped(word)) = word}
  <1>1. 0 \in S
    <2> SUFFICES ASSUME NEW word \in Text, Len(word) = 0
                 PROVE  UnEscapeQuotes(Escaped(word)) = word
      OBVIOUS
    <2>1. word = << >>
      BY DEF Text
    <2>2. Escapes(<< >>) = << >> /\ Left(<< >>) = << >>
      BY DEF Escapes, Left
    <2> QED
      BY <2>1, <2>2, EscapedIs, UnEscapeIs, FlattenEmpty
  <1>2. ASSUME NEW n \in Nat, n \in S PROVE n + 1 \in S
    <2> SUFFICES ASSUME NEW word \in Text, Len(word) = n + 1
                 PROVE  UnEscapeQuotes(Escaped(word)) = word
      OBVIOUS
    <2>1. word # << >>
      OBVIOUS
    <2>2. PICK start \in Text, c \in Characters : word = Append(start, c)
      BY <2>1, SequenceEmptyOrAppend DEF Text
    <2>3. Len(start) = n
      BY <2>2 DEF Text
    <2>4. UnEscapeQuotes(Escaped(start)) = start /\ Escaped(start) \in Text
      BY <1>2, <2>3, EscapedType
    <2>5. Escaped(word) = Escaped(start) \o Escape(c)
      BY <2>2, EscapedAppend
    <2>6. word = start \o <<c>>
      BY <2>2, AppendIsConcat DEF Text
    <2>7. CASE c = Quote
      BY <2>4, <2>5, <2>6, <2>7, LeftEscaped
    <2>8. CASE c # Quote
      <3>1. Escaped(word) = Append(Escaped(start), c)
        BY <2>4, <2>5, <2>8, AppendIsConcat DEF Text, Escape
      <3> QED
        BY <2>4, <2>6, <2>8, <3>1, LeftAppend
    <2> QED
      BY <2>7, <2>8
  <1> HIDE DEF S
  <1>3. \A n \in Nat : n \in S
    BY <1>1, <1>2, EveryNumber
  <1> QED
    <2>1. \A word \in Text : Len(word) \in Nat
      BY DEF Text
    <2> QED
      BY <1>3, <2>1 DEF S

\* In an escaped word every quote follows a backslash, there is a space only if there
\* is one in the word, and the last character is that of the word.
LooksEscaped(arg, word) ==
    /\ arg = << >> <=> word = << >>
    /\ arg # << >> => arg[Len(arg)] = word[Len(word)]
    /\ \A i \in 1 .. Len(arg) : arg[i] = Quote => i > 1 /\ arg[i - 1] = Backslash
    /\ \A i \in 1 .. Len(arg) : arg[i] = Space => \E k \in 1 .. Len(word) : word[k] = Space

\* An escaped word looks so.
LEMMA EscapeLooksEscaped == \A word \in Text : LooksEscaped(Escaped(word), word)
  <1> DEFINE S == {n \in Nat : \A word \in Text :
                                  Len(word) = n => LooksEscaped(Escaped(word), word)}
  <1>1. 0 \in S
    <2> SUFFICES ASSUME NEW word \in Text, Len(word) = 0 PROVE LooksEscaped(Escaped(word), word)
      OBVIOUS
    <2>1. word = << >>
      BY DEF Text
    <2>2. Escapes(<< >>) = << >>
      BY DEF Escapes
    <2> QED
      BY <2>1, <2>2, EscapedIs, FlattenEmpty DEF LooksEscaped
  <1>2. ASSUME NEW n \in Nat, n \in S PROVE n + 1 \in S
    <2> SUFFICES ASSUME NEW word \in Text, Len(word) = n + 1
                 PROVE  LooksEscaped(Escaped(word), word)
      OBVIOUS
    <2>1. word # << >>
      OBVIOUS
    <2>2. PICK start \in Text, c \in Characters : word = Append(start, c)
      BY <2>1, SequenceEmptyOrAppend DEF Text
    <2> DEFINE arg == Escaped(start)
               whole == Escaped(word)
    <2>3. /\ Len(start) = n /\ word[n + 1] = c
          /\ \A k \in 1 .. n : word[k] = start[k]
      BY <2>2 DEF Text
    <2>4. LooksEscaped(arg, start) /\ arg \in Text /\ whole \in Text
      BY <1>2, <2>3, EscapedType
    <2>5. whole = arg \o Escape(c)
      BY <2>2, EscapedAppend
    <2>6. Quote # Backslash /\ Quote # Space /\ Backslash # Space
      BY DEF Quote, Backslash, Space
    <2>7. CASE c = Quote
      <3>1. Escape(c) = <<Backslash, Quote>> /\ Escape(c) \in Text
        BY <2>7, EscapeType DEF Escape
      <3>2. /\ Len(whole) = Len(arg) + 2 /\ whole[Len(arg) + 1] = Backslash
            /\ whole[Len(arg) + 2] = Quote
            /\ \A i \in 1 .. Len(arg) : whole[i] = arg[i]
        BY <2>4, <2>5, <3>1, ConcatProperties DEF Text
      <3> HIDE DEF arg, whole
      <3>3. Len(arg) \in Nat /\ Len(whole) \in Nat /\ whole # << >>
        BY <2>4, <3>2 DEF Text
      <3>4. whole[Len(whole)] = word[Len(word)]
        BY <2>3, <2>7, <3>2
      <3>5. \A i \in 1 .. Len(whole) : whole[i] = Quote => i > 1 /\ whole[i - 1] = Backslash
        <4> SUFFICES ASSUME NEW i \in 1 .. Len(whole), whole[i] = Quote
                     PROVE  i > 1 /\ whole[i - 1] = Backslash
          OBVIOUS
        <4>1. CASE i \in 1 .. Len(arg)
          BY <2>4, <3>2, <3>3, <4>1 DEF LooksEscaped
        <4>2. CASE i \notin 1 .. Len(arg)
          BY <2>6, <2>7, <3>2, <3>3, <4>2
        <4> QED
          BY <4>1, <4>2
      <3>6. \A i \in 1 .. Len(whole) :
                whole[i] = Space => \E k \in 1 .. Len(word) : word[k] = Space
        <4> SUFFICES ASSUME NEW i \in 1 .. Len(whole), whole[i] = Space
                     PROVE  \E k \in 1 .. Len(word) : word[k] = Space
          OBVIOUS
        <4>1. CASE i \in 1 .. Len(arg)
          <5>1. PICK k \in 1 .. Len(start) : start[k] = Space
            BY <2>4, <3>2, <4>1 DEF LooksEscaped
          <5>2. k \in 1 .. Len(word) /\ word[k] = Space
            BY <2>3, <5>1
          <5> QED
            BY <5>2
        <4>2. CASE i \notin 1 .. Len(arg)
          BY <2>3, <2>6, <2>7, <3>2, <3>3, <4>2
        <4> QED
          BY <4>1, <4>2
      <3>7. LooksEscaped(whole, word)
        BY <2>1, <3>3, <3>4, <3>5, <3>6 DEF LooksEscaped
      <3> QED
        BY <3>7 DEF whole
    <2>8. CASE c # Quote
      <3>1. Escape(c) = <<c>> /\ Escape(c) \in Text
        BY <2>8, EscapeType DEF Escape
      <3>2. /\ Len(whole) = Len(arg) + 1 /\ whole[Len(arg) + 1] = c
            /\ \A i \in 1 .. Len(arg) : whole[i] = arg[i]
        BY <2>4, <2>5, <3>1, ConcatProperties DEF Text
      <3> HIDE DEF arg, whole
      <3>3. Len(arg) \in Nat /\ Len(whole) \in Nat /\ whole # << >>
        BY <2>4, <3>2 DEF Text
      <3>4. whole[Len(whole)] = word[Len(word)]
        BY <2>3, <2>8, <3>2
      <3>5. \A i \in 1 .. Len(whole) : whole[i] = Quote => i > 1 /\ whole[i - 1] = Backslash
        <4> SUFFICES ASSUME NEW i \in 1 .. Len(whole), whole[i] = Quote
                     PROVE  i > 1 /\ whole[i - 1] = Backslash
          OBVIOUS
        <4>1. CASE i \in 1 .. Len(arg)
          BY <2>4, <3>2, <3>3, <4>1 DEF LooksEscaped
        <4>2. CASE i \notin 1 .. Len(arg)
          BY <2>6, <2>8, <3>2, <3>3, <4>2
        <4> QED
          BY <4>1, <4>2
      <3>6. \A i \in 1 .. Len(whole) :
                whole[i] = Space => \E k \in 1 .. Len(word) : word[k] = Space
        <4> SUFFICES ASSUME NEW i \in 1 .. Len(whole), whole[i] = Space
                     PROVE  \E k \in 1 .. Len(word) : word[k] = Space
          OBVIOUS
        <4>1. CASE i \in 1 .. Len(arg)
          <5>1. PICK k \in 1 .. Len(start) : start[k] = Space
            BY <2>4, <3>2, <4>1 DEF LooksEscaped
          <5>2. k \in 1 .. Len(word) /\ word[k] = Space
            BY <2>3, <5>1
          <5> QED
            BY <5>2
        <4>2. CASE i \notin 1 .. Len(arg)
          BY <2>3, <2>6, <2>8, <3>2, <3>3, <4>2
        <4> QED
          BY <4>1, <4>2
      <3>7. LooksEscaped(whole, word)
        BY <2>1, <3>3, <3>4, <3>5, <3>6 DEF LooksEscaped
      <3> QED
        BY <3>7 DEF whole
    <2> QED
      BY <2>7, <2>8
  <1> HIDE DEF S
  <1>3. \A n \in Nat : n \in S
    BY <1>1, <1>2, EveryNumber
  <1> QED
    <2>1. \A word \in Text : Len(word) \in Nat
      BY DEF Text
    <2> QED
      BY <1>3, <2>1 DEF S

-----------------------------------------------------------------------------
(* The parser: where it stops, and that it is well defined. *)

\* FirstFrom is the least of the places from i on, or the end of the text.
LEMMA FirstFromIs ==
    ASSUME NEW text \in Text, NEW i \in 1 .. Len(text) + 1,
           NEW places, places \subseteq 1 .. Len(text)
    PROVE  LET j == FirstFrom(text, i, places)
           IN  /\ j \in i .. Len(text) + 1 /\ (j \in places \/ j = Len(text) + 1)
               /\ \A k \in places : k >= i => j <= k
  <1> DEFINE N == Len(text)
             later == {k \in places \cup {N + 1} : k >= i}
             Is(j) == j >= i /\ \A k \in places : k >= i => j <= k
  <1>1. N \in Nat
    BY DEF Text
  <1>2. later \subseteq Nat /\ N + 1 \in later
    <2>1. N + 1 \in Nat /\ N + 1 >= i /\ \A k \in places : k \in Nat
      BY <1>1
    <2> QED
      BY <2>1
  <1>3. PICK j \in later : \A k \in later : j <= k
    <2> HIDE DEF later
    <2> QED
      BY <1>2, LeastNumber
  <1>4. Is(j) /\ j \in places \cup {N + 1}
    BY <1>3
  <1> DEFINE c == CHOOSE k \in places \cup {N + 1} : Is(k)
  <1>5. Is(c) /\ c \in places \cup {N + 1}
    BY <1>4
  <1>6. FirstFrom(text, i, places) = c
    BY DEF FirstFrom
  <1> HIDE DEF c
  <1> QED
    BY <1>1, <1>5, <1>6

\* What the parser looks for, as sets of places.
Solid(text) == {j \in DOMAIN text : text[j] # Space}
Spaces(text) == {j \in DOMAIN text : text[j] = Space}
Before(text, i, lastp, j) == IF j = i THEN lastp ELSE text[j - 1]
Quotes(text, i, lastp) ==
    {j \in i .. Len(text) : text[j] = Quote /\ Before(text, i, lastp, j) # Backslash}

\* Where the parser stops are such places.
LEMMA StopsAre ==
    ASSUME NEW text \in Text, NEW i \in 1 .. Len(text) + 1, NEW lastp
    PROVE  /\ i <= Len(text) => NonSpace(text, i) = FirstFrom(text, i, Solid(text))
           /\ WordEnd(text, i) = FirstFrom(text, i, Spaces(text))
           /\ QuotedEnd(text, i, lastp) = FirstFrom(text, i, Quotes(text, i, lastp))
           /\ Solid(text) \subseteq 1 .. Len(text) /\ Spaces(text) \subseteq 1 .. Len(text)
           /\ Quotes(text, i, lastp) \subseteq 1 .. Len(text)
  <1>1. DOMAIN text = 1 .. Len(text) /\ Len(text) \in Nat
    BY DEF Text
  <1> QED
    BY <1>1 DEF NonSpace, WordEnd, QuotedEnd, Solid, Spaces, Quotes, Before

\* The parser stops no earlier than where it begins to look.
LEMMA StopsLater ==
    ASSUME NEW text \in Text, NEW i \in 1 .. Len(text) + 1, NEW lastp
    PROVE  /\ WordEnd(text, i) \in i .. Len(text) + 1
           /\ QuotedEnd(text, i, lastp) \in i .. Len(text) + 1
  BY StopsAre, FirstFromIs

\* The first character that is no space is no earlier than where it is looked for.
LEMMA StartsLater ==
    ASSUME NEW text \in Text, NEW i \in 1 .. Len(text) + 2
    PROVE  /\ NonSpace(text, i) \in i .. Len(text) + 2
           /\ i <= Len(text) => NonSpace(text, i) \in i .. Len(text) + 1
  <1>1. Len(text) \in Nat
    BY DEF Text
  <1>2. CASE i > Len(text)
    BY <1>1, <1>2 DEF NonSpace
  <1>3. CASE i <= Len(text)
    <2>1. i \in 1 .. Len(text) + 1
      BY <1>1, <1>3
    <2>2. NonSpace(text, i) \in i .. Len(text) + 1
      BY <1>3, <2>1, StopsAre, FirstFromIs
    <2> QED
      BY <1>1, <2>2
  <1> QED
    BY <1>1, <1>2, <1>3

\* What can be found where something is read: the end, a word, a quote.
BareAt(text, s, lastp, f) ==
    WithFirst(SubSeq(text, s, WordEnd(text, s) - 1), f[WordEnd(text, s) + 1][lastp])
QuotedAt(text, s, lastp, f) ==
    LET q == QuotedEnd(text, s + 1, lastp)
        quoted == SubSeq(text, s + 1, q - 1)
    IN  WithFirst(quoted, f[q + 1][LastpAfter(quoted, lastp)])
WildAt(text, s, lastp) ==
    s < Len(text) /\ text[s] = Quote /\ text[s + 1] = Quote /\ lastp = Null

\* What ReadFrom is in each of these cases.
LEMMA ReadCases ==
    ASSUME NEW text \in Text, NEW i \in 1 .. Len(text) + 2, NEW lastp, NEW f,
           NEW s, s = NonSpace(text, i)
    PROVE  /\ s > Len(text) => ReadFrom(text, i, lastp, f) = Parsed(<< >>, FALSE)
           /\ s <= Len(text) /\ text[s] # Quote =>
                  ReadFrom(text, i, lastp, f) = BareAt(text, s, lastp, f)
           /\ s < Len(text) /\ text[s] = Quote /\ ~WildAt(text, s, lastp) =>
                  ReadFrom(text, i, lastp, f) = QuotedAt(text, s, lastp, f)
           /\ s = Len(text) /\ text[s] = Quote =>
                  ReadFrom(text, i, lastp, f) = Parsed(<< >>, FALSE)
           /\ WildAt(text, s, lastp) => ReadFrom(text, i, lastp, f) = Parsed(<< >>, TRUE)
  <1>1. s \in Nat /\ Len(text) \in Nat
    BY StartsLater DEF Text
  <1> DEFINE read == ReadFrom(text, i, lastp, f)
             bare == BareAt(text, s, lastp, f)
             quoted == QuotedAt(text, s, lastp, f)
             wild == WildAt(text, s, lastp)
  <1>2. read =
            CASE s > Len(text) -> Parsed(<< >>, FALSE)
              [] s <= Len(text) /\ text[s] # Quote -> bare
              [] s = Len(text) /\ text[s] = Quote -> Parsed(<< >>, FALSE)
              [] wild -> Parsed(<< >>, TRUE)
              [] OTHER -> quoted
    BY Zenon DEF ReadFrom, BareAt, QuotedAt, WildAt
  <1>3. wild => s < Len(text) /\ text[s] = Quote
    BY DEF WildAt
  <1>4. /\ s > Len(text) => ~(s <= Len(text)) /\ ~(s = Len(text)) /\ ~(s < Len(text))
        /\ s < Len(text) => ~(s > Len(text)) /\ ~(s = Len(text))
        /\ s = Len(text) => ~(s > Len(text))
        /\ s <= Len(text) => ~(s > Len(text))
    BY <1>1
  <1> HIDE DEF read, bare, quoted, wild
  <1>5. s > Len(text) => read = Parsed(<< >>, FALSE)
    BY <1>2, <1>3, <1>4, Zenon
  <1>6. s <= Len(text) /\ text[s] # Quote => read = bare
    BY <1>2, <1>3, <1>4, Zenon
  <1>7. s < Len(text) /\ text[s] = Quote /\ ~wild => read = quoted
    BY <1>2, <1>3, <1>4, Zenon
  <1>8. s = Len(text) /\ text[s] = Quote => read = Parsed(<< >>, FALSE)
    BY <1>2, <1>3, <1>4, Zenon
  <1>9. wild => read = Parsed(<< >>, TRUE)
    BY <1>2, <1>3, <1>4, Zenon
  <1> QED
    BY <1>5, <1>6, <1>7, <1>8, <1>9 DEF read, bare, quoted, wild

\* The same where no space is to be skipped.
LEMMA ReadHere ==
    ASSUME NEW text \in Text, NEW i \in 1 .. Len(text), NEW lastp, NEW f,
           NonSpace(text, i) = i
    PROVE  /\ text[i] # Quote => ReadFrom(text, i, lastp, f) = BareAt(text, i, lastp, f)
           /\ i < Len(text) /\ text[i] = Quote /\ ~WildAt(text, i, lastp) =>
                  ReadFrom(text, i, lastp, f) = QuotedAt(text, i, lastp, f)
  <1>1. i \in 1 .. Len(text) + 2 /\ i <= Len(text)
    BY DEF Text
  <1> QED
    BY <1>1, ReadCases

\* What is read at i depends only on what is read after i.
LEMMA ReadsOn ==
    ASSUME NEW text \in Text, NEW i \in 1 .. Len(text) + 2, NEW lastp, NEW f, NEW g,
           \A j \in i + 1 .. Len(text) + 2 : f[j] = g[j]
    PROVE  ReadFrom(text, i, lastp, f) = ReadFrom(text, i, lastp, g)
  <1> DEFINE s == NonSpace(text, i)
             e == WordEnd(text, s)
             q == QuotedEnd(text, s + 1, lastp)
  <1>1. Len(text) \in Nat /\ s \in i .. Len(text) + 2
    BY StartsLater DEF Text
  <1>2. CASE s > Len(text)
    BY <1>2, ReadCases
  <1>3. CASE s <= Len(text)
    <2> HIDE DEF s
    <2>1. e \in s .. Len(text) + 1 /\ q \in s + 1 .. Len(text) + 1
      <3>1. s \in 1 .. Len(text) + 1 /\ s + 1 \in 1 .. Len(text) + 1
        BY <1>1, <1>3
      <3> QED
        BY <3>1, StopsLater
    <2> HIDE DEF e, q
    <2>2. f[e + 1] = g[e + 1] /\ f[q + 1] = g[q + 1]
      BY <1>1, <1>3, <2>1
    <2> QED
      BY <2>2 DEF ReadFrom, s, e, q
  <1> QED
    BY <1>1, <1>2, <1>3

\* The parser is a recursive function, which exists.
IsParser(text, f) ==
    f = [i \in 1 .. Len(text) + 2 |-> [lastp \in Lastp |-> ReadFrom(text, i, lastp, f)]]

\* Such a function can be built from the end of the text to its beginning.
LEMMA ParserExists ==
    ASSUME NEW text \in Text
    PROVE  \E f : IsParser(text, f)
  <1> DEFINE N == Len(text) + 2
             Reads(f, i) == f[i] = [lastp \in Lastp |-> ReadFrom(text, i, lastp, f)]
             Backto(f, k) == \A i \in 1 .. N : i > N - k => Reads(f, i)
             S == {k \in Nat : k <= N => \E f : Backto(f, k)}
  <1>1. N \in Nat
    BY DEF Text
  <1>2. 0 \in S
    BY <1>1
  <1>3. ASSUME NEW k \in Nat, k \in S PROVE k + 1 \in S
    <2> HIDE DEF N, Reads, Backto
    <2> SUFFICES ASSUME k + 1 <= N PROVE \E f : Backto(f, k + 1)
      OBVIOUS
    <2>1. PICK f : Backto(f, k)
      BY <1>1, <1>3
    <2> USE DEF N, Reads, Backto
    <2> DEFINE m == N - k
               g == [i \in 1 .. N |->
                         IF i = m THEN [lastp \in Lastp |-> ReadFrom(text, m, lastp, f)] ELSE f[i]]
    <2>2. m \in 1 .. N
      BY <1>1
    <2>3. \A i \in 1 .. N : i > m => g[i] = f[i]
      BY <2>2
    <2>4. g[m] = [lastp \in Lastp |-> ReadFrom(text, m, lastp, f)]
      BY <2>2
    <2> HIDE DEF g
    <2>5. \A i \in 1 .. N : \A lastp :
              i >= m => ReadFrom(text, i, lastp, f) = ReadFrom(text, i, lastp, g)
      BY <1>1, <2>2, <2>3, ReadsOn
    <2>6. ASSUME NEW i \in 1 .. N, i >= m PROVE Reads(g, i)
      <3>1. CASE i = m
        BY <2>4, <2>5, <3>1
      <3>2. CASE i > m
        BY <2>1, <2>3, <2>5, <3>2
      <3> QED
        BY <1>1, <2>2, <2>6, <3>1, <3>2
    <2>7. \A i \in 1 .. N : i > N - (k + 1) => i >= m
      BY <1>1
    <2> HIDE DEF Reads, m
    <2>8. Backto(g, k + 1)
      BY <2>6, <2>7
    <2> QED
      BY <2>8
  <1> HIDE DEF S
  <1>4. N \in S
    BY <1>1, <1>2, <1>3, EveryNumber
  <1>5. PICK f : \A i \in 1 .. N : Reads(f, i)
    BY <1>1, <1>4 DEF S
  <1> DEFINE h == [i \in 1 .. N |-> f[i]]
  <1>6. \A i \in 1 .. N : h[i] = f[i]
    OBVIOUS
  <1>7. h = [i \in 1 .. N |-> h[i]]
    OBVIOUS
  <1> HIDE DEF h
  <1>8. \A i \in 1 .. N : \A lastp : ReadFrom(text, i, lastp, f) = ReadFrom(text, i, lastp, h)
    BY <1>1, <1>6, ReadsOn
  <1>9. \A i \in 1 .. N : h[i] = [lastp \in Lastp |-> ReadFrom(text, i, lastp, h)]
    BY <1>5, <1>6, <1>8
  <1> QED
    BY <1>7, <1>9 DEF IsParser

\* ParseCommandLine is what such a function gives at the beginning of the text.
LEMMA ParserIs ==
    ASSUME NEW text \in Text
    PROVE  \E f : /\ ParseCommandLine(text) = f[1][Null]
                  /\ \A i \in 1 .. Len(text) + 2, lastp \in Lastp :
                         f[i][lastp] = ReadFrom(text, i, lastp, f)
  <1> DEFINE F == CHOOSE f : IsParser(text, f)
  <1>1. IsParser(text, F)
    BY ParserExists
  <1>2. ParseCommandLine(text) = F[1][Null]
    BY DEF ParseCommandLine, IsParser
  <1> HIDE DEF F
  <1>3. \A i \in 1 .. Len(text) + 2, lastp \in Lastp : F[i][lastp] = ReadFrom(text, i, lastp, F)
    BY <1>1 DEF IsParser
  <1> QED
    BY <1>2, <1>3

-----------------------------------------------------------------------------
(* What is read where a word was written. *)

Reads(text, f) ==
    \A i \in 1 .. Len(text) + 2, lastp \in Lastp : f[i][lastp] = ReadFrom(text, i, lastp, f)

\* A place with none of the others between i and it is the first from i.
LEMMA FirstFromIsThis ==
    ASSUME NEW text \in Text, NEW i \in 1 .. Len(text) + 1,
           NEW places, places \subseteq 1 .. Len(text), NEW j \in i .. Len(text) + 1,
           j \in places \/ j = Len(text) + 1, \A k \in places : k >= i => j <= k
    PROVE  FirstFrom(text, i, places) = j
  <1> DEFINE c == FirstFrom(text, i, places)
  <1>1. Len(text) \in Nat
    BY DEF Text
  <1>2. /\ c \in i .. Len(text) + 1 /\ (c \in places \/ c = Len(text) + 1)
        /\ \A k \in places : k >= i => c <= k
    BY FirstFromIs
  <1> HIDE DEF c
  <1>3. c <= j /\ j <= c
    BY <1>1, <1>2
  <1> QED
    BY <1>1, <1>2, <1>3 DEF c

\* Nothing is left to be read after the end.
LEMMA ReadsNothing ==
    ASSUME NEW text \in Text, NEW f, Reads(text, f), NEW lastp \in Lastp
    PROVE  f[Len(text) + 1][lastp] = Parsed(<< >>, FALSE)
  <1>1. Len(text) \in Nat /\ Len(text) + 1 \in 1 .. Len(text) + 2
    BY DEF Text
  <1>2. NonSpace(text, Len(text) + 1) = Len(text) + 1 /\ Len(text) + 1 > Len(text)
    BY <1>1 DEF NonSpace
  <1>3. ReadFrom(text, Len(text) + 1, lastp, f) = Parsed(<< >>, FALSE)
    BY <1>1, <1>2, ReadCases
  <1> QED
    BY <1>1, <1>3 DEF Reads

\* A space is skipped.
LEMMA SkipsSpace ==
    ASSUME NEW text \in Text, NEW f, Reads(text, f), NEW lastp \in Lastp,
           NEW i \in 1 .. Len(text), text[i] = Space
    PROVE  f[i][lastp] = f[i + 1][lastp]
  <1> DEFINE s == NonSpace(text, i)
  <1>1. /\ Len(text) \in Nat /\ DOMAIN text = 1 .. Len(text)
        /\ i \in 1 .. Len(text) + 2 /\ i + 1 \in 1 .. Len(text) + 2
        /\ i \in 1 .. Len(text) + 1 /\ i + 1 \in 1 .. Len(text) + 1
    BY DEF Text
  <1>2. s = FirstFrom(text, i, Solid(text)) /\ Solid(text) \subseteq 1 .. Len(text)
    BY <1>1, StopsAre
  <1>3. /\ s \in i .. Len(text) + 1 /\ (s \in Solid(text) \/ s = Len(text) + 1)
        /\ \A k \in Solid(text) : k >= i => s <= k
    BY <1>1, <1>2, FirstFromIs
  <1>4. i \notin Solid(text)
    BY DEF Solid
  <1> HIDE DEF s
  <1>5. s \in i + 1 .. Len(text) + 1
    BY <1>1, <1>3, <1>4
  <1>6. NonSpace(text, i + 1) = s
    <2>1. CASE i = Len(text)
      <3>1. s = Len(text) + 1
        BY <1>1, <1>5, <2>1
      <3> QED
        BY <1>1, <2>1, <3>1 DEF NonSpace
    <2>2. CASE i # Len(text)
      <3>0. i + 1 <= Len(text)
        BY <2>2 DEF Text
      <3>1. \A k \in Solid(text) : k >= i + 1 => s <= k
        <4>1. \A k \in Solid(text) : k \in Nat /\ (k >= i + 1 => k >= i)
          BY <1>1, <1>2
        <4> QED
          BY <1>3, <4>1
      <3>2. FirstFrom(text, i + 1, Solid(text)) = s
        BY <1>1, <1>2, <1>3, <1>5, <3>1, FirstFromIsThis
      <3> QED
        BY <1>1, <3>0, <3>2, StopsAre
    <2> QED
      BY <2>1, <2>2
  <1>7. ReadFrom(text, i, lastp, f) = ReadFrom(text, i + 1, lastp, f)
    BY <1>6, Zenon DEF ReadFrom, s
  <1> QED
    BY <1>1, <1>7 DEF Reads

\* An argument is the part of the text whose characters are its own.
LEMMA SubSeqIs ==
    ASSUME NEW text \in Text, NEW i \in Nat \ {0}, NEW arg \in Text,
           i + Len(arg) <= Len(text) + 1,
           \A k \in 1 .. Len(arg) : text[(i - 1) + k] = arg[k]
    PROVE  SubSeq(text, i, (i + Len(arg)) - 1) = arg
  <1> DEFINE n == (i + Len(arg)) - 1
             sub == SubSeq(text, i, n)
  <1>1. Len(text) \in Nat /\ Len(arg) \in Nat /\ n \in Int /\ i \in Int /\ n <= Len(text)
        /\ (n - i) + 1 = Len(arg) /\ (i <= n <=> Len(arg) # 0)
    BY DEF Text
  <1> HIDE DEF n
  <1>2. \A k \in i .. n : text[k] \in Characters
    BY <1>1 DEF Text
  <1>3. /\ sub \in Seq(Characters)
        /\ Len(sub) = IF i <= n THEN (n - i) + 1 ELSE 0
        /\ \A k \in 1 .. (n - i) + 1 : sub[k] = text[(i + k) - 1]
    BY <1>1, <1>2, SubSeqProperties
  <1>4. Len(sub) = Len(arg)
    BY <1>1, <1>3
  <1>5. \A k \in 1 .. Len(sub) : sub[k] = arg[k]
    <2> SUFFICES ASSUME NEW k \in 1 .. Len(arg) PROVE sub[k] = arg[k]
      BY <1>4
    <2>1. (i + k) - 1 = (i - 1) + k
      BY <1>1
    <2> QED
      BY <1>1, <1>3, <2>1
  <1>6. sub = arg
    BY <1>3, <1>4, <1>5, SeqEqual DEF Text
  <1> QED
    BY <1>6 DEF n

\* The argument stands at i without quotes around it.
BareArgument(text, i, arg) ==
    /\ i \in Nat \ {0} /\ arg # << >> /\ arg[1] # Quote
    /\ \A k \in 1 .. Len(arg) : arg[k] # Space
    /\ i + Len(arg) <= Len(text) + 1
    /\ \A k \in 1 .. Len(arg) : text[(i - 1) + k] = arg[k]
    /\ i + Len(arg) <= Len(text) => text[i + Len(arg)] = Space

\* A word without quotes around it, and what comes after it.
LEMMA ReadsWord ==
    ASSUME NEW text \in Text, NEW f, Reads(text, f), NEW lastp \in Lastp,
           NEW i, NEW arg \in Text, BareArgument(text, i, arg)
    PROVE  f[i][lastp] = WithFirst(arg, f[i + Len(arg) + 1][lastp])
  <1> USE DEF BareArgument
  <1> DEFINE e == i + Len(arg)
  <1>1. /\ Len(text) \in Nat /\ Len(arg) \in Nat \ {0} /\ DOMAIN text = 1 .. Len(text)
        /\ i \in 1 .. Len(text) /\ e \in i + 1 .. Len(text) + 1
        /\ i \in 1 .. Len(text) + 1 /\ i \in 1 .. Len(text) + 2
    BY DEF Text
  <1>2. text[i] = arg[1] /\ text[i] # Space /\ text[i] # Quote
    <2>1. 1 \in 1 .. Len(arg) /\ (i - 1) + 1 = i
      BY <1>1
    <2> QED
      BY <2>1
  <1>3. NonSpace(text, i) = i
    <2>1. i \in Solid(text)
      BY <1>1, <1>2 DEF Solid
    <2>2. FirstFrom(text, i, Solid(text)) = i
      <3>1. i \in i .. Len(text) + 1 /\ \A k \in Solid(text) : k >= i => i <= k
        BY <1>1 DEF Solid
      <3>2. Solid(text) \subseteq 1 .. Len(text)
        BY <1>1, StopsAre
      <3> QED
        BY <1>1, <2>1, <3>1, <3>2, FirstFromIsThis
    <2> QED
      BY <1>1, <2>2, StopsAre
  <1>4. WordEnd(text, i) = e
    <2>1. \A k \in i .. e - 1 : text[k] # Space
      <3> SUFFICES ASSUME NEW k \in i .. e - 1 PROVE text[k] # Space
        OBVIOUS
      <3>1. k - (i - 1) \in 1 .. Len(arg) /\ (i - 1) + (k - (i - 1)) = k
        BY <1>1
      <3> QED
        BY <3>1
    <2> HIDE DEF e
    <2>2. \A k \in Spaces(text) : k >= i => e <= k
      BY <1>1, <2>1 DEF Spaces
    <2>3. e \in Spaces(text) \/ e = Len(text) + 1
      BY <1>1 DEF Spaces, e
    <2>4. FirstFrom(text, i, Spaces(text)) = e
      <3>1. e \in i .. Len(text) + 1 /\ Spaces(text) \subseteq 1 .. Len(text)
        BY <1>1, StopsAre
      <3> QED
        BY <1>1, <2>2, <2>3, <3>1, FirstFromIsThis
    <2> QED
      BY <1>1, <2>4, StopsAre
  <1>5. SubSeq(text, i, e - 1) = arg
    BY SubSeqIs
  <1>6. ReadFrom(text, i, lastp, f) = WithFirst(SubSeq(text, i, e - 1), f[e + 1][lastp])
    <2>1. ReadFrom(text, i, lastp, f) = BareAt(text, i, lastp, f)
      BY <1>1, <1>2, <1>3, ReadHere
    <2> QED
      BY <1>4, <2>1 DEF BareAt
  <1> QED
    BY <1>1, <1>5, <1>6 DEF Reads

\* The argument stands at i with quotes around it.
QuotedArgument(text, i, arg, lastp) ==
    /\ i \in Nat \ {0} /\ i + Len(arg) + 1 <= Len(text)
    /\ text[i] = Quote /\ text[i + Len(arg) + 1] = Quote
    /\ \A k \in 1 .. Len(arg) : text[i + k] = arg[k]
    /\ \A k \in 1 .. Len(arg) : arg[k] = Quote => k > 1 /\ arg[k - 1] = Backslash
    /\ arg # << >> => arg[Len(arg)] # Backslash
    /\ arg = << >> => lastp \notin {Null, Backslash}

\* An argument in quotes, and what comes after its closing quote.
LEMMA ReadsQuoted ==
    ASSUME NEW text \in Text, NEW f, Reads(text, f), NEW lastp \in Lastp,
           NEW i, NEW arg \in Text, QuotedArgument(text, i, arg, lastp)
    PROVE  f[i][lastp] = WithFirst(arg, f[i + Len(arg) + 2][LastpAfter(arg, lastp)])
  <1> USE DEF QuotedArgument
  <1> DEFINE n == Len(arg)
             q == i + n + 1
  <1>1. /\ Len(text) \in Nat /\ n \in Nat /\ DOMAIN text = 1 .. Len(text)
        /\ i \in 1 .. Len(text) /\ i < Len(text) /\ i + 1 \in 1 .. Len(text) + 1
        /\ i \in 1 .. Len(text) + 1 /\ i \in 1 .. Len(text) + 2
        /\ q \in i + 1 .. Len(text) /\ (n = 0 <=> arg = << >>)
    BY DEF Text
  <1>2. NonSpace(text, i) = i
    <2>1. i \in Solid(text)
      BY <1>1 DEF Solid, Quote, Space
    <2>2. i \in i .. Len(text) + 1 /\ \A k \in Solid(text) : k >= i => i <= k
      BY <1>1 DEF Solid
    <2>3. i <= Len(text) /\ Solid(text) \subseteq 1 .. Len(text)
      BY <1>1, StopsAre
    <2>4. FirstFrom(text, i, Solid(text)) = i
      BY <1>1, <2>1, <2>2, <2>3, FirstFromIsThis
    <2> QED
      BY <1>1, <2>3, <2>4, StopsAre
  <1>3. ~WildAt(text, i, lastp)
    <2>1. CASE n = 0
      BY <1>1, <2>1 DEF WildAt
    <2>2. CASE n # 0
      <3>1. 1 \in 1 .. n /\ ~(1 > 1)
        BY <1>1, <2>2
      <3> QED
        BY <3>1 DEF WildAt
    <2> QED
      BY <2>1, <2>2
  <1>4. QuotedEnd(text, i + 1, lastp) = q
    <2>1. q \in Quotes(text, i + 1, lastp)
      <3>1. Before(text, i + 1, lastp, q) # Backslash
        <4>1. CASE n = 0
          BY <1>1, <4>1 DEF Before
        <4>2. CASE n # 0
          <5>1. q # i + 1 /\ q - 1 = i + n /\ n \in 1 .. n
            BY <1>1, <4>2
          <5>2. text[q - 1] # Backslash
            BY <1>1, <4>2, <5>1
          <5> HIDE DEF q
          <5> QED
            BY <5>1, <5>2 DEF Before
        <4> QED
          BY <4>1, <4>2
      <3> QED
        BY <1>1, <3>1 DEF Quotes
    <2>2. ASSUME NEW k \in Quotes(text, i + 1, lastp), k >= i + 1 PROVE q <= k
      <3> SUFFICES ASSUME k < q PROVE FALSE
        BY <1>1, <2>2 DEF Quotes
      <3> DEFINE m == k - i
      <3>1. /\ k \in i + 1 .. Len(text) /\ text[k] = Quote
            /\ Before(text, i + 1, lastp, k) # Backslash
        BY DEF Quotes
      <3>2. m \in 1 .. n /\ i + m = k
        BY <1>1, <3>1
      <3> HIDE DEF m
      <3>3. arg[m] = Quote
        BY <3>1, <3>2
      <3>4. m > 1 /\ arg[m - 1] = Backslash
        BY <3>2, <3>3
      <3>5. m - 1 \in 1 .. n /\ i + (m - 1) = k - 1 /\ k # i + 1
        BY <1>1, <3>1, <3>2, <3>4
      <3>6. text[k - 1] = Backslash
        BY <3>4, <3>5
      <3> QED
        BY <3>1, <3>5, <3>6 DEF Before
    <2>3. q \in i + 1 .. Len(text) + 1
      BY <1>1
    <2> HIDE DEF q
    <2>4. FirstFrom(text, i + 1, Quotes(text, i + 1, lastp)) = q
      BY <1>1, <2>1, <2>2, <2>3, StopsAre, FirstFromIsThis
    <2> QED
      BY <1>1, <2>4, StopsAre
  <1>5. SubSeq(text, i + 1, q - 1) = arg
    <2> DEFINE j == i + 1
    <2>1. /\ j \in Nat \ {0} /\ j + Len(arg) <= Len(text) + 1
          /\ q - 1 = (j + Len(arg)) - 1 /\ j - 1 = i
      BY <1>1
    <2>2. \A k \in 1 .. Len(arg) : text[(j - 1) + k] = arg[k]
      BY <2>1
    <2> HIDE DEF j, q, QuotedArgument
    <2>3. SubSeq(text, j, (j + Len(arg)) - 1) = arg
      BY <2>1, <2>2, SubSeqIs
    <2> QED
      BY <2>1, <2>3 DEF j
  <1>6. ReadFrom(text, i, lastp, f) = QuotedAt(text, i, lastp, f)
    BY <1>1, <1>2, <1>3, ReadHere
  <1>7. q + 1 = i + n + 2
    BY <1>1
  <1>8. f[i][lastp] = QuotedAt(text, i, lastp, f)
    BY <1>1, <1>6 DEF Reads
  <1> QED
    BY <1>4, <1>5, <1>7, <1>8 DEF QuotedAt

\* What lastp is left at after an argument, in the three cases.
LEMMA LastpCases ==
    ASSUME NEW arg \in Text, NEW lastp
    PROVE  /\ arg = << >> => LastpAfter(arg, lastp) = lastp
           /\ arg # << >> /\ UnEscapeQuotes(arg) # arg => LastpAfter(arg, lastp) = Nul
           /\ arg # << >> /\ UnEscapeQuotes(arg) = arg =>
                  LastpAfter(arg, lastp) = arg[Len(arg)]
           /\ arg # << >> => arg[Len(arg)] \in Characters
  <1>1. UnEscapeQuotes(<< >>) = << >>
    <2>1. Left(<< >>) = << >>
      BY DEF Left
    <2> QED
      BY <2>1, UnEscapeIs, FlattenEmpty
  <1>2. arg = << >> => LastpAfter(arg, lastp) = lastp
    BY <1>1, Zenon DEF LastpAfter
  <1>3. arg # << >> /\ UnEscapeQuotes(arg) # arg => LastpAfter(arg, lastp) = Nul
    BY Zenon DEF LastpAfter
  <1>4. arg # << >> /\ UnEscapeQuotes(arg) = arg => LastpAfter(arg, lastp) = arg[Len(arg)]
    BY Zenon DEF LastpAfter, Last
  <1>5. arg # << >> => arg[Len(arg)] \in Characters
    BY DEF Text
  <1> QED
    BY <1>2, <1>3, <1>4, <1>5

\* After an argument, lastp is what the parser can hold in it.
LEMMA LastpType ==
    ASSUME NEW arg \in Text, NEW lastp \in Lastp
    PROVE  LastpAfter(arg, lastp) \in Lastp
  BY LastpCases DEF Lastp

\* What lastp is left at is no backslash, and after an argument with something in it
\* is something.
LEMMA LastpIs ==
    ASSUME NEW arg \in Text, NEW lastp \in Lastp \ {Backslash},
           arg # << >> => arg[Len(arg)] # Backslash
    PROVE  /\ LastpAfter(arg, lastp) \in Lastp \ {Backslash}
           /\ arg # << >> \/ lastp # Null => LastpAfter(arg, lastp) # Null
  <1>1. CASE arg = << >>
    BY <1>1, LastpCases
  <1>2. CASE arg # << >> /\ UnEscapeQuotes(arg) # arg
    BY <1>2, LastpCases DEF Lastp, Nul, Null, Backslash
  <1>3. CASE arg # << >> /\ UnEscapeQuotes(arg) = arg
    BY <1>3, LastpCases DEF Lastp, Characters, Null, Quote, Backslash, Space
  <1> QED
    BY <1>1, <1>2, <1>3

-----------------------------------------------------------------------------
(* From word to word. *)

Pieces(words) == [n \in DOMAIN words |-> Append(Written(words[n]), Space)]

\* Where the text of the words after the first n begins.
After(words, n) == Len(First(Pieces(words), n)) + 1

\* What is written for a word: the escaped word, in quotes if it needs them.
LEMMA WrittenIs ==
    ASSUME NEW word \in Text
    PROVE  LET arg == Escaped(word)
               n == Len(arg)
           IN  /\ Written(word) \in Text /\ arg \in Text
               /\ ~NeedsQuotes(word) => Written(word) = arg
               /\ NeedsQuotes(word) =>
                      /\ Len(Written(word)) = n + 2
                      /\ Written(word)[1] = Quote /\ Written(word)[n + 2] = Quote
                      /\ \A k \in 1 .. n : Written(word)[1 + k] = arg[k]
  <1> DEFINE arg == Escaped(word)
             n == Len(arg)
  <1>1. arg \in Text /\ n \in Nat
    BY EscapedType DEF Text
  <1>2. <<Quote>> \in Text /\ Len(<<Quote>>) = 1 /\ <<Quote>>[1] = Quote
    BY DEF Text, Characters
  <1> HIDE DEF arg
  <1>3. /\ <<Quote>> \o arg \in Text /\ Len(<<Quote>> \o arg) = n + 1
        /\ (<<Quote>> \o arg)[1] = Quote
        /\ \A k \in 1 .. n : (<<Quote>> \o arg)[1 + k] = arg[k]
    BY <1>1, <1>2, ConcatProperties DEF Text
  <1> DEFINE whole == (<<Quote>> \o arg) \o <<Quote>>
  <1>4. /\ whole \in Text /\ Len(whole) = n + 2 /\ whole[1] = Quote /\ whole[n + 2] = Quote
        /\ \A k \in 1 .. n : whole[1 + k] = arg[k]
    <2> DEFINE start == <<Quote>> \o arg
    <2> HIDE DEF start
    <2>1. /\ start \o <<Quote>> \in Text /\ Len(start \o <<Quote>>) = (n + 1) + 1
          /\ \A k \in 1 .. n + 1 : (start \o <<Quote>>)[k] = start[k]
          /\ (start \o <<Quote>>)[n + 2] = Quote
      BY <1>1, <1>2, <1>3, ConcatProperties DEF Text, start
    <2> QED
      BY <1>1, <1>3, <2>1 DEF start
  <1>5. Written(word) = IF NeedsQuotes(word) THEN whole ELSE arg
    BY DEF Written, arg
  <1> HIDE DEF whole
  <1>6. Written(word) \in Text
    BY <1>1, <1>4, <1>5
  <1> QED
    BY <1>1, <1>4, <1>5, <1>6 DEF arg

\* A word of a text is what is written for it and a space.
LEMMA PieceIs ==
    ASSUME NEW words \in Seq(Text)
    PROVE  /\ Pieces(words) \in Seq(Seq(Characters)) /\ Len(Pieces(words)) = Len(words)
           /\ Joined(LineForEach(words)) = FlattenSeq(Pieces(words))
           /\ \A n \in 1 .. Len(words) :
                  /\ Len(Pieces(words)[n]) = Len(Written(words[n])) + 1
                  /\ Pieces(words)[n][Len(Written(words[n])) + 1] = Space
                  /\ \A k \in 1 .. Len(Written(words[n])) :
                         Pieces(words)[n][k] = Written(words[n])[k]
  <1>1. Len(words) \in Nat /\ DOMAIN words = 1 .. Len(words)
    OBVIOUS
  <1>2. Space \in Characters
    BY DEF Characters
  <1>3. ASSUME NEW n \in 1 .. Len(words)
        PROVE  /\ Append(Written(words[n]), Space) \in Seq(Characters)
               /\ Len(Append(Written(words[n]), Space)) = Len(Written(words[n])) + 1
               /\ Append(Written(words[n]), Space)[Len(Written(words[n])) + 1] = Space
               /\ \A k \in 1 .. Len(Written(words[n])) :
                      Append(Written(words[n]), Space)[k] = Written(words[n])[k]
    <2>1. Written(words[n]) \in Seq(Characters)
      BY WrittenIs DEF Text
    <2> QED
      BY <1>2, <2>1, AppendProperties
  <1>4. \A n \in 1 .. Len(words) : Pieces(words)[n] = Append(Written(words[n]), Space)
    BY <1>1 DEF Pieces
  <1>5. Pieces(words) \in Seq(Seq(Characters)) /\ Len(Pieces(words)) = Len(words)
    BY <1>1, <1>3 DEF Pieces
  <1>6. Joined(LineForEach(words)) = FlattenSeq(Pieces(words))
    BY <1>1 DEF Joined, LineForEach, Pieces
  <1> QED
    BY <1>3, <1>4, <1>5, <1>6

\* The text of the words, perhaps with one more space at its end.
IsTextOf(text, words) ==
    LET joined == FlattenSeq(Pieces(words))
    IN  /\ Len(text) \in Len(joined) .. Len(joined) + 1
        /\ \A k \in 1 .. Len(joined) : text[k] = joined[k]
        /\ Len(text) = Len(joined) + 1 => text[Len(text)] = Space

\* Where the nth word is in a text of the words.
LEMMA WhereWords ==
    ASSUME NEW words \in Seq(Text), NEW text \in Text, IsTextOf(text, words),
           NEW n \in 1 .. Len(words)
    PROVE  LET i == After(words, n - 1)
               written == Written(words[n])
           IN  /\ i \in Nat \ {0} /\ After(words, n) = i + Len(written) + 1
               /\ i + Len(written) <= Len(text)
               /\ \A k \in 1 .. Len(written) : text[(i - 1) + k] = written[k]
               /\ text[i + Len(written)] = Space
  <1> DEFINE seqs == Pieces(words)
             before == Len(First(seqs, n - 1))
             written == Written(words[n])
             joined == FlattenSeq(seqs)
  <1>1. seqs \in Seq(Seq(Characters)) /\ n \in 1 .. Len(seqs) /\ n \in 0 .. Len(seqs)
        /\ n - 1 \in 0 .. Len(seqs)
    BY PieceIs
  <1>2. First(seqs, n - 1) \in Seq(Characters) /\ First(seqs, n) \in Seq(Characters)
        /\ joined \in Seq(Characters)
    BY <1>1, FirstType, FlattenType
  <1>3. /\ Len(First(seqs, n)) = before + Len(seqs[n])
        /\ \A k \in 1 .. Len(seqs[n]) : joined[before + k] = seqs[n][k]
    BY <1>1, WhereEach
  <1>4. Len(First(seqs, n)) <= Len(joined)
    BY <1>1, WhereFirst
  <1>5. /\ Len(seqs[n]) = Len(written) + 1 /\ seqs[n][Len(written) + 1] = Space
        /\ \A k \in 1 .. Len(written) : seqs[n][k] = written[k]
    BY PieceIs
  <1>6. Len(written) \in Nat /\ before \in Nat /\ Len(joined) \in Nat /\ Len(text) \in Nat
    <2>1. written \in Text
      BY WrittenIs
    <2> QED
      BY <1>2, <2>1 DEF Text
  <1>7. Len(joined) <= Len(text) /\ \A k \in 1 .. Len(joined) : text[k] = joined[k]
    BY <1>6 DEF IsTextOf
  <1>8. After(words, n - 1) = before + 1 /\ After(words, n) = Len(First(seqs, n)) + 1
    BY DEF After
  <1> HIDE DEF seqs, before, written, joined
  <1>9. \A k \in 1 .. Len(written) + 1 : text[before + k] = seqs[n][k]
    <2> SUFFICES ASSUME NEW k \in 1 .. Len(written) + 1 PROVE text[before + k] = seqs[n][k]
      OBVIOUS
    <2>1. before + k \in 1 .. Len(joined) /\ k \in 1 .. Len(seqs[n])
      BY <1>3, <1>4, <1>5, <1>6
    <2> QED
      BY <1>3, <1>7, <2>1
  <1>10. \A k \in 1 .. Len(written) : text[before + k] = written[k]
    BY <1>5, <1>6, <1>9
  <1>11. text[before + (Len(written) + 1)] = Space
    BY <1>5, <1>6, <1>9
  <1> DEFINE i == before + 1
  <1>12. i \in Nat \ {0} /\ i - 1 = before /\ i + Len(written) = before + (Len(written) + 1)
    BY <1>6
  <1>13. After(words, n) = i + Len(written) + 1 /\ i + Len(written) <= Len(text)
    <2> DEFINE w == Len(written)
    <2>1. /\ Len(First(seqs, n)) = before + (w + 1) /\ before + (w + 1) <= Len(text)
          /\ After(words, n) = (before + (w + 1)) + 1 /\ w \in Nat
      BY <1>3, <1>4, <1>5, <1>6, <1>7, <1>8
    <2> HIDE DEF w
    <2>2. After(words, n) = (i + w) + 1 /\ i + w <= Len(text)
      BY <1>6, <2>1
    <2> QED
      BY <2>2 DEF w
  <1>14. \A k \in 1 .. Len(written) : text[(i - 1) + k] = written[k]
    BY <1>10, <1>12
  <1>15. text[i + Len(written)] = Space
    BY <1>11, <1>12
  <1> HIDE DEF i
  <1>16. After(words, n - 1) = i
    BY <1>8 DEF i
  <1> QED
    BY <1>12, <1>13, <1>14, <1>15, <1>16 DEF written

\* The word was written at i, and can be read there.
WrittenAt(text, i, word, written, lastp) ==
    /\ i \in Nat \ {0} /\ i + Len(written) <= Len(text)
    /\ \A k \in 1 .. Len(written) : text[(i - 1) + k] = written[k]
    /\ text[i + Len(written)] = Space
    /\ NeedsQuotes(word) /\ word # << >> => Last(word) # Backslash
    /\ word = << >> => lastp # Null

\* What the word leaves lastp at.
LastpAfterWord(word, lastp) ==
    IF NeedsQuotes(word) THEN LastpAfter(Escaped(word), lastp) ELSE lastp

\* A word is read where it was written, and leaves lastp at something if it had quotes
\* around it, unless nothing was between them.
LEMMA ReadsWritten ==
    ASSUME NEW text \in Text, NEW f, Reads(text, f), NEW lastp \in Lastp \ {Backslash},
           NEW word \in Text, NEW written, written = Written(word),
           NEW i, WrittenAt(text, i, word, written, lastp)
    PROVE  /\ f[i][lastp] = WithFirst(Escaped(word),
                                      f[i + Len(written) + 1][LastpAfterWord(word, lastp)])
           /\ LastpAfterWord(word, lastp) \in Lastp \ {Backslash}
           /\ lastp # Null \/ (NeedsQuotes(word) /\ word # << >>) =>
                  LastpAfterWord(word, lastp) # Null
  <1> USE DEF WrittenAt
  <1> DEFINE arg == Escaped(word)
  <1>0. arg \in Text /\ written \in Text
    BY WrittenIs
  <1>1. Len(arg) \in Nat /\ Len(written) \in Nat /\ Len(text) \in Nat
    BY <1>0 DEF Text
  <1>2. LooksEscaped(arg, word)
    BY EscapeLooksEscaped
  <1> HIDE DEF arg
  <1>3. CASE ~NeedsQuotes(word)
    <2>1. written = arg
      BY <1>3, WrittenIs DEF arg
    <2>2. word # << >> /\ \A k \in 1 .. Len(word) : word[k] # Space
      BY <1>3 DEF NeedsQuotes, Contains
    <2>3. arg # << >> /\ \A k \in 1 .. Len(arg) : arg[k] # Space
      BY <1>2, <2>2 DEF LooksEscaped
    <2>4. arg[1] # Quote
      <3>1. 1 \in 1 .. Len(arg) /\ ~(1 > 1)
        BY <1>1, <2>3 DEF Text
      <3> QED
        BY <1>2, <3>1 DEF LooksEscaped
    <2>5. f[i][lastp] = WithFirst(arg, f[i + Len(arg) + 1][lastp])
      <3>1. i + Len(arg) <= Len(text) + 1
        BY <1>1, <2>1
      <3>2. i + Len(arg) <= Len(text) => text[i + Len(arg)] = Space
        BY <2>1
      <3>3. \A k \in 1 .. Len(arg) : text[(i - 1) + k] = arg[k]
        BY <2>1
      <3>4. BareArgument(text, i, arg)
        BY <2>3, <2>4, <3>1, <3>2, <3>3 DEF BareArgument
      <3> HIDE DEF WrittenAt, arg
      <3> QED
        BY <1>0, <3>4, ReadsWord
    <2>6. LastpAfterWord(word, lastp) = lastp
      BY <1>3 DEF LastpAfterWord
    <2> QED
      BY <1>3, <2>1, <2>5, <2>6 DEF arg
  <1>4. CASE NeedsQuotes(word)
    <2> DEFINE next == LastpAfter(arg, lastp)
               m == Len(arg)
    <2>1. /\ Len(written) = m + 2 /\ written[1] = Quote /\ written[m + 2] = Quote
          /\ \A k \in 1 .. m : written[1 + k] = arg[k]
      BY <1>4, WrittenIs DEF arg
    <2>2. arg # << >> => arg[m] # Backslash
      BY <1>2, <1>4 DEF LooksEscaped, Last
    <2>3. arg = << >> => lastp \notin {Null, Backslash}
      BY <1>2 DEF LooksEscaped
    <2>4. next \in Lastp /\ next # Backslash /\ (arg # << >> \/ lastp # Null => next # Null)
      BY <1>0, <2>2, LastpIs
    <2>5. f[i][lastp] = WithFirst(arg, f[i + m + 2][next])
      <3>1. i + m + 1 <= Len(text)
        BY <1>1, <2>1
      <3>2. text[i] = Quote
        <4>1. (i - 1) + 1 = i /\ 1 \in 1 .. Len(written)
          BY <1>1, <2>1
        <4> QED
          BY <2>1, <4>1
      <3>3. text[i + m + 1] = Quote
        <4>1. (i - 1) + (m + 2) = i + m + 1 /\ m + 2 \in 1 .. Len(written)
          BY <1>1, <2>1
        <4> QED
          BY <2>1, <4>1
      <3>4. \A k \in 1 .. m : text[i + k] = arg[k]
        <4> SUFFICES ASSUME NEW k \in 1 .. m PROVE text[i + k] = arg[k]
          OBVIOUS
        <4>1. (i - 1) + (1 + k) = i + k /\ 1 + k \in 1 .. Len(written)
          BY <1>1, <2>1
        <4> QED
          BY <2>1, <4>1
      <3>5. \A k \in 1 .. m : arg[k] = Quote => k > 1 /\ arg[k - 1] = Backslash
        BY <1>2 DEF LooksEscaped
      <3>6. QuotedArgument(text, i, arg, lastp)
        BY <2>2, <2>3, <3>1, <3>2, <3>3, <3>4, <3>5 DEF QuotedArgument
      <3> HIDE DEF WrittenAt, arg
      <3> QED
        BY <1>0, <3>6, ReadsQuoted
    <2>6. f[i + m + 2][next] = f[(i + m + 2) + 1][next]
      <3>1. i + m + 2 = i + Len(written) /\ i + m + 2 \in 1 .. Len(text)
        BY <1>1, <2>1
      <3>2. text[i + m + 2] = Space
        BY <3>1
      <3> HIDE DEF next
      <3> QED
        BY <2>4, <3>1, <3>2, SkipsSpace
    <2>7. (i + m + 2) + 1 = i + Len(written) + 1
      BY <1>1, <2>1
    <2>8. LastpAfterWord(word, lastp) = next
      BY <1>4 DEF LastpAfterWord, arg
    <2>9. word # << >> => arg # << >>
      BY <1>2 DEF LooksEscaped
    <2> HIDE DEF next, arg
    <2>10. f[i][lastp] = WithFirst(arg, f[i + Len(written) + 1][next])
      BY <2>5, <2>6, <2>7
    <2> QED
      BY <2>4, <2>8, <2>9, <2>10 DEF arg
  <1> QED
    BY <1>3, <1>4

\* lastp where the first n words have been read.
IsLastp(words, n, lastp) ==
    /\ lastp \in Lastp \ {Backslash}
    /\ (\E m \in 1 .. n : NeedsQuotes(words[m]) /\ words[m] # << >>) => lastp # Null

\* Each word is read where it was written.
LEMMA ReadsOneWord ==
    ASSUME NEW words \in Seq(Text), CanBeWritten(words),
           NEW text \in Text, IsTextOf(text, words), NEW f, Reads(text, f),
           NEW n \in 1 .. Len(words), NEW lastp, IsLastp(words, n - 1, lastp)
    PROVE  \E next : /\ IsLastp(words, n, next)
                     /\ f[After(words, n - 1)][lastp] =
                            WithFirst(Escaped(words[n]), f[After(words, n)][next])
  <1> DEFINE i == After(words, n - 1)
             word == words[n]
             written == Written(word)
             next == LastpAfterWord(word, lastp)
  <1>1. /\ i \in Nat \ {0} /\ After(words, n) = i + Len(written) + 1
        /\ i + Len(written) <= Len(text)
        /\ \A k \in 1 .. Len(written) : text[(i - 1) + k] = written[k]
        /\ text[i + Len(written)] = Space
    BY WhereWords
  <1>2. NeedsQuotes(word) /\ word # << >> => Last(word) # Backslash
    BY DEF CanBeWritten
  <1>3. word = << >> => lastp # Null
    <2> SUFFICES ASSUME word = << >> PROVE lastp # Null
      OBVIOUS
    <2>1. \E k \in 1 .. n - 1 : NeedsQuotes(words[k]) /\ words[k] # << >>
      BY DEF CanBeWritten
    <2> QED
      BY <2>1 DEF IsLastp
  <1>4. word \in Text /\ lastp \in Lastp \ {Backslash} /\ written = Written(word)
    BY DEF IsLastp
  <1> HIDE DEF i, word, written, next
  <1>5. WrittenAt(text, i, word, written, lastp)
    BY <1>1, <1>2, <1>3 DEF WrittenAt
  <1>6. /\ f[i][lastp] = WithFirst(Escaped(word),
                             f[i + Len(written) + 1][LastpAfterWord(word, lastp)])
        /\ LastpAfterWord(word, lastp) \in Lastp \ {Backslash}
        /\ lastp # Null \/ (NeedsQuotes(word) /\ word # << >>) =>
               LastpAfterWord(word, lastp) # Null
    BY <1>4, <1>5, ReadsWritten
  <1>7. IsLastp(words, n, next)
    <2>1. \A m \in 1 .. n : m \in 1 .. n - 1 \/ m = n
      OBVIOUS
    <2> QED
      BY <1>6, <2>1 DEF IsLastp, word, next
  <1> QED
    BY <1>1, <1>6, <1>7 DEF i, word, written, next

\* What comes before the rest is the first argument.
LEMMA WithFirstIs ==
    ASSUME NEW arg, NEW args, NEW wild
    PROVE  WithFirst(arg, Parsed(args, wild)) = Parsed(<<UnEscapeQuotes(arg)>> \o args, wild)
  <1>1. ASSUME NEW all, NEW rest, rest = [argv |-> args, wild |-> wild]
        PROVE  [rest EXCEPT !.argv = all] = [argv |-> all, wild |-> wild]
    BY <1>1
  <1> DEFINE rest == [argv |-> args, wild |-> wild]
             all == <<UnEscapeQuotes(arg)>> \o args
  <1>2. WithFirst(arg, Parsed(args, wild)) = [rest EXCEPT !.argv = all]
    <2>1. rest.argv = args
      OBVIOUS
    <2>2. WithFirst(arg, rest) = [rest EXCEPT !.argv = <<UnEscapeQuotes(arg)>> \o rest.argv]
      BY Zenon DEF WithFirst
    <2> QED
      BY <2>1, <2>2, Zenon DEF Parsed
  <1> HIDE DEF all
  <1>3. [rest EXCEPT !.argv = all] = [argv |-> all, wild |-> wild]
    BY <1>1
  <1> QED
    BY <1>2, <1>3, Zenon DEF Parsed, all

\* Every list of words that can be written is read as it was written.
THEOREM ReadAsWritten ==
    ASSUME NEW words \in Seq(Text), CanBeWritten(words),
           NEW text \in Text, IsTextOf(text, words)
    PROVE  ParseCommandLine(text) = Parsed(words, FALSE)
  <1> DEFINE N == Len(words)
             Rest(n) == SubSeq(words, n + 1, N)
  <1>1. PICK f : ParseCommandLine(text) = f[1][Null] /\ Reads(text, f)
    BY ParserIs DEF Reads
  <1>2. N \in Nat /\ Len(text) \in Nat
    BY DEF Text
  <1> DEFINE ReadsRest(n) == \A lastp : IsLastp(words, n, lastp) =>
                                 f[After(words, n)][lastp] = Parsed(Rest(n), FALSE)
             S == {k \in Nat : k <= N => ReadsRest(N - k)}
  <1>3. ReadsRest(N)
    <2> DEFINE joined == FlattenSeq(Pieces(words))
    <2>1. After(words, N) = Len(joined) + 1 /\ joined \in Seq(Characters)
      BY PieceIs, FirstEnds, FlattenType DEF After
    <2>2. Len(joined) \in Nat
      BY <2>1
    <2>3. Rest(N) = << >>
      BY <1>2, SubSeqEmpty
    <2> HIDE DEF Rest
    <2> SUFFICES ASSUME NEW lastp \in Lastp
                 PROVE  f[Len(joined) + 1][lastp] = Parsed(<< >>, FALSE)
      BY <2>1, <2>3 DEF IsLastp
    <2>4. f[Len(text) + 1][lastp] = Parsed(<< >>, FALSE)
      BY <1>1, ReadsNothing
    <2>5. CASE Len(text) = Len(joined)
      BY <2>4, <2>5
    <2>6. CASE Len(text) = Len(joined) + 1
      <3>1. text[Len(joined) + 1] = Space /\ Len(joined) + 1 \in 1 .. Len(text)
        BY <2>2, <2>6 DEF IsTextOf
      <3>2. f[Len(joined) + 1][lastp] = f[(Len(joined) + 1) + 1][lastp]
        BY <1>1, <3>1, SkipsSpace
      <3> QED
        BY <2>4, <2>6, <3>2
    <2>7. Len(text) \in Len(joined) .. Len(joined) + 1
      BY DEF IsTextOf
    <2>8. Len(text) = Len(joined) \/ Len(text) = Len(joined) + 1
      BY <1>2, <2>2, <2>7
    <2> QED
      BY <2>5, <2>6, <2>8
  <1>4. ASSUME NEW k \in Nat, k \in S PROVE k + 1 \in S
    <2> HIDE DEF ReadsRest
    <2> SUFFICES ASSUME k + 1 <= N PROVE ReadsRest(N - (k + 1))
      OBVIOUS
    <2> DEFINE n == N - k
    <2>1. n \in 1 .. N /\ N - (k + 1) = n - 1 /\ ReadsRest(n)
      BY <1>2, <1>4
    <2> HIDE DEF n
    <2> USE DEF ReadsRest
    <2>2. ReadsRest(n - 1)
      <3> SUFFICES ASSUME NEW lastp, IsLastp(words, n - 1, lastp)
                   PROVE  f[After(words, n - 1)][lastp] = Parsed(Rest(n - 1), FALSE)
        OBVIOUS
      <3>1. PICK next : /\ IsLastp(words, n, next)
                        /\ f[After(words, n - 1)][lastp] =
                               WithFirst(Escaped(words[n]), f[After(words, n)][next])
        BY <1>1, <2>1, ReadsOneWord
      <3>2. f[After(words, n)][next] = Parsed(Rest(n), FALSE)
        BY <2>1, <3>1
      <3>3. UnEscapeQuotes(Escaped(words[n])) = words[n]
        BY <2>1, UnEscapeEscaped
      <3>4. Rest(n - 1) = <<words[n]>> \o Rest(n)
        <4>1. SubSeq(words, n, N) = <<words[n]>> \o SubSeq(words, n + 1, N)
          BY <2>1, SubSeqRecursiveFirst
        <4>2. (n - 1) + 1 = n
          BY <2>1
        <4> QED
          BY <4>1, <4>2
      <3>5. WithFirst(Escaped(words[n]), Parsed(Rest(n), FALSE))
                = Parsed(<<words[n]>> \o Rest(n), FALSE)
        <4>1. WithFirst(Escaped(words[n]), Parsed(Rest(n), FALSE))
                  = Parsed(<<UnEscapeQuotes(Escaped(words[n]))>> \o Rest(n), FALSE)
          BY WithFirstIs, Zenon
        <4> QED
          BY <3>3, <4>1, Zenon
      <3> HIDE DEF Rest
      <3> QED
        BY <3>1, <3>2, <3>4, <3>5, Zenon
    <2> QED
      BY <2>1, <2>2
  <1>5. 0 \in S
    <2>1. N - 0 = N
      BY <1>2
    <2> QED
      BY <1>3, <2>1
  <1> HIDE DEF S, ReadsRest
  <1>6. N \in S
    BY <1>2, <1>4, <1>5, EveryNumber
  <1>7. ReadsRest(0)
    <2>1. N - N = 0 /\ N <= N
      BY <1>2
    <2> QED
      BY <1>6, <2>1 DEF S
  <1>8. IsLastp(words, 0, Null) /\ After(words, 0) = 1
    BY PieceIs, FirstEnds DEF IsLastp, After, Lastp, Null, Backslash
  <1>9. Rest(0) = words
    BY SubSeqFull
  <1> QED
    BY <1>1, <1>7, <1>8, <1>9 DEF ReadsRest

-----------------------------------------------------------------------------
(* The layouts of a file, and a word alone. *)

\* A word with no quote in it is written as it is, and left as it is.
LEMMA NoQuotes ==
    ASSUME NEW word \in Text, \A k \in 1 .. Len(word) : word[k] # Quote
    PROVE  Escaped(word) = word /\ UnEscapeQuotes(word) = word
  <1> DEFINE Plain(w) == \A k \in 1 .. Len(w) : w[k] # Quote
             Same(w) == Escaped(w) = w /\ UnEscapeQuotes(w) = w
             S == {n \in Nat : \A w \in Text : Len(w) = n /\ Plain(w) => Same(w)}
  <1>1. 0 \in S
    <2> SUFFICES ASSUME NEW w \in Text, Len(w) = 0 PROVE Same(w)
      OBVIOUS
    <2>1. w = << >>
      BY DEF Text
    <2>2. Escapes(<< >>) = << >> /\ Left(<< >>) = << >>
      BY DEF Escapes, Left
    <2> QED
      BY <2>1, <2>2, EscapedIs, UnEscapeIs, FlattenEmpty
  <1>2. ASSUME NEW n \in Nat, n \in S PROVE n + 1 \in S
    <2> SUFFICES ASSUME NEW w \in Text, Len(w) = n + 1, Plain(w) PROVE Same(w)
      OBVIOUS
    <2>0. w # << >>
      OBVIOUS
    <2>1. PICK start \in Text, c \in Characters : w = Append(start, c)
      BY <2>0, SequenceEmptyOrAppend DEF Text
    <2>2. Len(start) = n /\ c # Quote /\ Plain(start)
      <3>1. /\ Len(start) \in Nat /\ Len(w) = Len(start) + 1 /\ w[Len(start) + 1] = c
            /\ \A k \in 1 .. Len(start) : w[k] = start[k]
        BY <2>1 DEF Text
      <3> QED
        BY <3>1
    <2>3. Same(start)
      BY <1>2, <2>2
    <2>4. Escaped(w) = start \o <<c>>
      BY <2>1, <2>2, <2>3, EscapedAppend DEF Escape
    <2>5. UnEscapeQuotes(w) = start \o <<c>>
      BY <2>1, <2>2, <2>3, LeftAppend
    <2>6. w = start \o <<c>>
      BY <2>1, AppendIsConcat DEF Text
    <2> QED
      BY <2>4, <2>5, <2>6
  <1> HIDE DEF S
  <1>3. \A n \in Nat : n \in S
    BY <1>1, <1>2, EveryNumber
  <1>4. Len(word) \in Nat
    BY DEF Text
  <1> QED
    BY <1>3, <1>4 DEF S

\* The words in one line have one more space after them than the words in a line each.
LEMMA LayoutsAreTexts ==
    ASSUME NEW words \in Seq(Text), NEW lines, lines \in {OneLine(words), LineForEach(words)}
    PROVE  Joined(lines) \in Text /\ IsTextOf(Joined(lines), words)
  <1> DEFINE joined == FlattenSeq(Pieces(words))
  <1>1. joined \in Seq(Characters) /\ Joined(LineForEach(words)) = joined
    BY PieceIs, FlattenType
  <1>2. Len(joined) \in Nat /\ Space \in Characters
    BY <1>1 DEF Characters
  <1>3. CASE lines = LineForEach(words)
    BY <1>1, <1>2, <1>3 DEF IsTextOf, Text
  <1>4. CASE lines = OneLine(words)
    <2> DEFINE more == Append(joined, Space)
    <2>1. OneLine(words) = <<joined>>
      BY <1>1 DEF OneLine, LineForEach
    <2> HIDE DEF joined
    <2>2. more \in Seq(Characters) /\ << >> \in Seq(Seq(Characters))
      BY <1>1, <1>2
    <2>3. Joined(<<joined>>) = FlattenSeq(Append(<< >>, more))
      <3>1. [n \in DOMAIN <<joined>> |-> Append(<<joined>>[n], Space)] = Append(<< >>, more)
        OBVIOUS
      <3> QED
        BY <3>1 DEF Joined
    <2> HIDE DEF more
    <2>4. FlattenSeq(Append(<< >>, more)) = << >> \o more
      BY <2>2, FlattenAppend, FlattenEmpty
    <2>5. Joined(lines) = more
      BY <1>4, <2>1, <2>2, <2>3, <2>4
    <2>6. /\ Len(more) = Len(joined) + 1 /\ more[Len(joined) + 1] = Space
          /\ \A k \in 1 .. Len(joined) : more[k] = joined[k]
      BY <1>1, <1>2 DEF more
    <2> QED
      BY <1>2, <2>2, <2>5, <2>6 DEF IsTextOf, Text, joined
  <1> QED
    BY <1>3, <1>4

\* Text that is there and read as fewer words than argv has room for makes no fault.
LEMMA NoFault ==
    ASSUME NEW words \in Seq(Text), Len(words) < ArgvSize, NEW text \in Text, text # << >>,
           ParseCommandLine(text) = Parsed(words, FALSE)
    PROVE  CommandFault(text) = "ok" /\ ParseCommandLine(text).argv = words
  <1> DEFINE parsed == ParseCommandLine(text)
  <1>1. parsed.argv = words /\ parsed.wild = FALSE
    BY DEF Parsed
  <1>2. ~(Len(parsed.argv) + 1 > ArgvSize)
    <2>1. ~(Len(words) + 1 > ArgvSize)
      BY ArgvAssumption
    <2> QED
      BY <1>1, <2>1
  <1> HIDE DEF parsed
  <1>3. CommandFault(text) =
            CASE text = << >> -> "nullCommandLine"
              [] parsed.wild -> "nullLastp"
              [] ~parsed.wild /\ Len(parsed.argv) + 1 > ArgvSize -> "argvOverrun"
              [] OTHER -> "ok"
    BY Zenon DEF CommandFault, parsed
  <1>4. CommandFault(text) = "ok"
    BY <1>1, <1>2, <1>3, Zenon
  <1> QED
    BY <1>1, <1>4 DEF parsed

\* Words that can be written arrive, however they are laid out.
THEOREM WordsArrive ==
    ASSUME NEW words \in Seq(Text), CanBeWritten(words),
           NEW lines, lines \in {OneLine(words), LineForEach(words)}
    PROVE  CommandFault(Joined(lines)) = "ok" /\ ParseCommandLine(Joined(lines)).argv = words
  <1> DEFINE text == Joined(lines)
  <1>1. text \in Text /\ IsTextOf(text, words)
    BY LayoutsAreTexts
  <1>2. ParseCommandLine(text) = Parsed(words, FALSE)
    BY <1>1, ReadAsWritten
  <1>3. Len(words) < ArgvSize /\ words # << >>
    BY DEF CanBeWritten
  <1>4. text # << >>
    <2>1. 1 \in 1 .. Len(words)
      BY <1>3
    <2>2. /\ After(words, 1 - 1) \in Nat \ {0} /\ Len(Written(words[1])) \in Nat
          /\ After(words, 1 - 1) + Len(Written(words[1])) <= Len(text)
      <3>1. Written(words[1]) \in Text
        BY <2>1, WrittenIs
      <3> QED
        BY <1>1, <2>1, <3>1, WhereWords DEF Text
    <2> QED
      BY <2>2
  <1> QED
    BY <1>1, <1>2, <1>3, <1>4, NoFault

\* A word without quotes and spaces arrives, with a space after it or without.
THEOREM WordArrives ==
    ASSUME NEW word \in Text, word # << >>,
           \A k \in 1 .. Len(word) : word[k] \notin {Quote, Space},
           NEW text, text \in {word, Joined(<<word>>)}
    PROVE  CommandFault(text) = "ok" /\ ParseCommandLine(text).argv = <<word>>
  <1>1. Escaped(word) = word /\ UnEscapeQuotes(word) = word
    BY NoQuotes
  <1>2. <<word>> \in Seq(Text) /\ Len(<<word>>) = 1 /\ <<word>>[1] = word /\ 1 < ArgvSize
    BY ArgvAssumption
  <1>3. ~NeedsQuotes(word)
    BY DEF NeedsQuotes, Contains
  <1>4. CASE text = word
    <2>1. PICK f : ParseCommandLine(word) = f[1][Null] /\ Reads(word, f)
      BY ParserIs DEF Reads
    <2>2. Len(word) \in Nat \ {0} /\ Null \in Lastp
      BY DEF Text, Lastp
    <2>3. BareArgument(word, 1, word)
      BY <2>2 DEF BareArgument
    <2>4. f[1][Null] = WithFirst(word, f[1 + Len(word) + 1][Null])
      BY <2>1, <2>2, <2>3, ReadsWord
    <2>5. f[Len(word) + 2][Null] = Parsed(<< >>, FALSE)
      <3>1. Len(word) + 2 \in 1 .. Len(word) + 2 /\ Len(word) + 2 > Len(word)
        BY <2>2
      <3>2. NonSpace(word, Len(word) + 2) = Len(word) + 2
        BY <3>1 DEF NonSpace
      <3>3. ReadFrom(word, Len(word) + 2, Null, f) = Parsed(<< >>, FALSE)
        BY <3>1, <3>2, ReadCases
      <3> QED
        BY <2>1, <2>2, <3>1, <3>3 DEF Reads
    <2>6. 1 + Len(word) + 1 = Len(word) + 2
      BY <2>2
    <2>7. ParseCommandLine(word) = Parsed(<<word>> \o << >>, FALSE)
      <3>1. WithFirst(word, Parsed(<< >>, FALSE))
                = Parsed(<<UnEscapeQuotes(word)>> \o << >>, FALSE)
        BY WithFirstIs, Zenon
      <3>2. WithFirst(word, Parsed(<< >>, FALSE)) = Parsed(<<word>> \o << >>, FALSE)
        BY <1>1, <3>1, Zenon
      <3> QED
        BY <2>1, <2>4, <2>5, <2>6, <3>2, Zenon
    <2>8. <<word>> \o << >> = <<word>>
      BY <1>2
    <2> QED
      BY <1>2, <1>4, <2>7, <2>8, NoFault
  <1>5. CASE text = Joined(<<word>>)
    <2>1. Written(word) = word
      BY <1>1, <1>3 DEF Written
    <2>2. LineForEach(<<word>>) = <<word>>
      BY <2>1 DEF LineForEach
    <2>3. CanBeWritten(<<word>>)
      BY <1>2, <1>3 DEF CanBeWritten
    <2> QED
      BY <1>2, <1>5, <2>2, <2>3, WordsArrive
  <1> QED
    BY <1>4, <1>5

-----------------------------------------------------------------------------
(* Any text at all, written by the rules or not. *)

EmptyQuotes(text) == \E k \in 1 .. Len(text) - 1 : text[k] = Quote /\ text[k + 1] = Quote

\* A part of a text is a text.
LEMMA PartType ==
    ASSUME NEW text \in Text, NEW m \in Nat \ {0}, NEW n \in Int, n <= Len(text)
    PROVE  SubSeq(text, m, n) \in Text
  <1>1. m \in Int /\ \A k \in m .. n : text[k] \in Characters
    BY DEF Text
  <1> QED
    BY <1>1, SubSeqProperties DEF Text

\* What may have been read from i on: texts, each of which took two characters of the
\* text or more, and nothing through a null pointer unless two quotes stand together.
IsReading(text, i, read) ==
    \E args \in Seq(Text), wild \in BOOLEAN :
        /\ read = Parsed(args, wild)
        /\ 2 * Len(args) <= (Len(text) + 2) - i
        /\ wild => EmptyQuotes(text)

\* One more argument in front, for which two characters were read.
LEMMA OneMoreIsReading ==
    ASSUME NEW text \in Text, NEW i \in Nat, NEW j \in Nat, i + 2 <= j,
           NEW arg \in Text, NEW read, IsReading(text, j, read)
    PROVE  IsReading(text, i, WithFirst(arg, read))
  <1>1. PICK args \in Seq(Text), wild \in BOOLEAN :
            /\ read = Parsed(args, wild)
            /\ 2 * Len(args) <= (Len(text) + 2) - j
            /\ wild => EmptyQuotes(text)
    BY DEF IsReading
  <1> DEFINE more == <<UnEscapeQuotes(arg)>> \o args
  <1>2. more \in Seq(Text) /\ Len(more) = Len(args) + 1
    <2>1. <<UnEscapeQuotes(arg)>> \in Seq(Text)
      BY EscapedType
    <2> QED
      BY <2>1, ConcatProperties
  <1>3. WithFirst(arg, Parsed(args, wild)) = Parsed(more, wild)
    BY WithFirstIs
  <1> HIDE DEF more
  <1>4. 2 * Len(more) <= (Len(text) + 2) - i
    <2>1. Len(text) \in Nat /\ Len(args) \in Nat
      BY DEF Text
    <2> QED
      BY <1>1, <1>2, <2>1
  <1>5. WithFirst(arg, read) = Parsed(more, wild)
    BY <1>1, <1>3
  <1> QED
    BY <1>1, <1>2, <1>4, <1>5 DEF IsReading

\* No argument is a reading of any rest.
LEMMA NoneIsReading ==
    ASSUME NEW text \in Text, NEW i \in 1 .. Len(text) + 2, NEW wild \in BOOLEAN,
           wild => EmptyQuotes(text)
    PROVE  IsReading(text, i, Parsed(<< >>, wild))
  <1>1. << >> \in Seq(Text) /\ 2 * Len(<< >>) <= (Len(text) + 2) - i
    BY EmptySeq DEF Text
  <1> QED
    BY <1>1 DEF IsReading

\* What is read at i is a reading if that is so after i.
LEMMA ReadsReading ==
    ASSUME NEW text \in Text, NEW f, NEW i \in 1 .. Len(text) + 2, NEW lastp \in Lastp,
           \A j \in i + 1 .. Len(text) + 2 : \A p \in Lastp : IsReading(text, j, f[j][p])
    PROVE  IsReading(text, i, ReadFrom(text, i, lastp, f))
  <1> DEFINE s == NonSpace(text, i)
  <1>1. Len(text) \in Nat /\ s \in i .. Len(text) + 2
    BY StartsLater DEF Text
  <1>2. s <= Len(text) => text[s] # Space
    <2>1. CASE i <= Len(text)
      <3>1. i \in 1 .. Len(text) + 1
        BY <1>1, <2>1
      <3>2. s = FirstFrom(text, i, Solid(text)) /\ Solid(text) \subseteq 1 .. Len(text)
        BY <2>1, <3>1, StopsAre
      <3>3. s \in Solid(text) \/ s = Len(text) + 1
        BY <3>1, <3>2, FirstFromIs
      <3> HIDE DEF s
      <3> QED
        BY <1>1, <3>3 DEF Solid
    <2>2. CASE i > Len(text)
      <3> HIDE DEF s
      <3> QED
        BY <1>1, <2>2
    <2> QED
      BY <1>1, <2>1, <2>2
  <1>3. CASE s > Len(text)
    <2>1. ReadFrom(text, i, lastp, f) = Parsed(<< >>, FALSE)
      BY <1>3, ReadCases
    <2> QED
      BY <2>1, NoneIsReading
  <1>4. CASE s = Len(text) /\ text[s] = Quote
    <2>1. ReadFrom(text, i, lastp, f) = Parsed(<< >>, FALSE)
      BY <1>4, ReadCases
    <2> QED
      BY <2>1, NoneIsReading
  <1>5. CASE WildAt(text, s, lastp)
    <2>1. ReadFrom(text, i, lastp, f) = Parsed(<< >>, TRUE)
      BY <1>5, ReadCases
    <2>2. EmptyQuotes(text)
      <3>1. s < Len(text) /\ text[s] = Quote /\ text[s + 1] = Quote
        BY <1>5 DEF WildAt
      <3> HIDE DEF s
      <3> QED
        BY <1>1, <3>1 DEF EmptyQuotes
    <2> QED
      BY <2>1, <2>2, NoneIsReading
  <1>6. CASE s <= Len(text) /\ text[s] # Quote
    <2> DEFINE e == WordEnd(text, s)
               arg == SubSeq(text, s, e - 1)
    <2>1. ReadFrom(text, i, lastp, f) = WithFirst(arg, f[e + 1][lastp])
      BY <1>6, ReadCases DEF BareAt
    <2> HIDE DEF s
    <2>2. s \in 1 .. Len(text) + 1
      BY <1>1, <1>6
    <2>3. e \in s + 1 .. Len(text) + 1
      <3>1. e = FirstFrom(text, s, Spaces(text)) /\ Spaces(text) \subseteq 1 .. Len(text)
        BY <2>2, StopsAre
      <3>2. e \in s .. Len(text) + 1 /\ (e \in Spaces(text) \/ e = Len(text) + 1)
        BY <2>2, <3>1, FirstFromIs
      <3> HIDE DEF e
      <3>3. e # s
        BY <1>1, <1>2, <1>6, <3>2 DEF Spaces
      <3> QED
        BY <1>1, <2>2, <3>2, <3>3
    <2> HIDE DEF e
    <2>4. arg \in Text
      BY <1>1, <2>2, <2>3, PartType
    <2>5. e + 1 \in i + 1 .. Len(text) + 2 /\ i + 2 <= e + 1
      BY <1>1, <2>2, <2>3
    <2>6. IsReading(text, e + 1, f[e + 1][lastp])
      BY <2>5
    <2> HIDE DEF arg
    <2>7. i \in Nat /\ e + 1 \in Nat
      BY <1>1, <2>5
    <2> QED
      BY <2>1, <2>4, <2>5, <2>6, <2>7, OneMoreIsReading
  <1>7. CASE s < Len(text) /\ text[s] = Quote /\ ~WildAt(text, s, lastp)
    <2> DEFINE q == QuotedEnd(text, s + 1, lastp)
               arg == SubSeq(text, s + 1, q - 1)
               next == LastpAfter(arg, lastp)
    <2>1. ReadFrom(text, i, lastp, f) = WithFirst(arg, f[q + 1][next])
      BY <1>7, ReadCases DEF QuotedAt
    <2> HIDE DEF s
    <2>2. s + 1 \in 1 .. Len(text) + 1
      BY <1>1, <1>7
    <2>3. q \in s + 1 .. Len(text) + 1
      BY <2>2, StopsLater
    <2> HIDE DEF q
    <2>4. arg \in Text
      BY <1>1, <2>2, <2>3, PartType
    <2>5. q + 1 \in i + 1 .. Len(text) + 2 /\ i + 2 <= q + 1
      BY <1>1, <2>2, <2>3
    <2> HIDE DEF arg
    <2>6. next \in Lastp
      BY <2>4, LastpType
    <2> HIDE DEF next
    <2>7. IsReading(text, q + 1, f[q + 1][next])
      BY <2>5, <2>6
    <2>8. i \in Nat /\ q + 1 \in Nat
      BY <1>1, <2>5
    <2> QED
      BY <2>1, <2>4, <2>5, <2>7, <2>8, OneMoreIsReading
  <1>8. s > Len(text) \/ s = Len(text) \/ s < Len(text)
    <2> HIDE DEF s
    <2> QED
      BY <1>1
  <1>9. (s = Len(text) => s <= Len(text)) /\ (s < Len(text) => s <= Len(text))
    <2> HIDE DEF s
    <2> QED
      BY <1>1
  <1> QED
    BY <1>3, <1>4, <1>5, <1>6, <1>7, <1>8, <1>9, Zenon

\* Whatever stands in the file, ParseCommandLine makes an argument of no fewer than two
\* characters (the last one ends with the text), and looks through its null pointer
\* only where two quotes stand together.
THEOREM AnyTextIsRead ==
    ASSUME NEW text \in Text
    PROVE  LET parsed == ParseCommandLine(text)
           IN  /\ parsed.argv \in Seq(Text) /\ 2 * Len(parsed.argv) <= Len(text) + 1
               /\ parsed.wild \in BOOLEAN /\ (parsed.wild => EmptyQuotes(text))
  <1>1. PICK f : ParseCommandLine(text) = f[1][Null] /\ Reads(text, f)
    BY ParserIs DEF Reads
  <1> DEFINE N == Len(text) + 2
             Good(i) == \A p \in Lastp : IsReading(text, i, f[i][p])
             S == {k \in Nat : \A i \in 1 .. N : i > N - k => Good(i)}
  <1>2. N \in Nat \ {0}
    BY DEF Text
  <1>3. 0 \in S
    BY <1>2
  <1>4. ASSUME NEW k \in Nat, k \in S PROVE k + 1 \in S
    <2> HIDE DEF Good
    <2> SUFFICES ASSUME NEW i \in 1 .. N, i > N - (k + 1) PROVE Good(i)
      BY <1>2
    <2>1. \A j \in i + 1 .. N : Good(j)
      BY <1>2, <1>4
    <2> USE DEF Good
    <2>2. ASSUME NEW p \in Lastp PROVE IsReading(text, i, f[i][p])
      <3>1. IsReading(text, i, ReadFrom(text, i, p, f))
        BY <2>1, ReadsReading
      <3>2. f[i][p] = ReadFrom(text, i, p, f)
        BY <1>1 DEF Reads
      <3> QED
        BY <3>1, <3>2
    <2> QED
      BY <2>2
  <1> HIDE DEF S, Good
  <1>5. N \in S
    BY <1>2, <1>3, <1>4, EveryNumber
  <1>6. Good(1)
    BY <1>2, <1>5 DEF S
  <1>7. IsReading(text, 1, ParseCommandLine(text))
    BY <1>1, <1>6 DEF Good, Lastp
  <1>8. PICK args \in Seq(Text), wild \in BOOLEAN :
            /\ ParseCommandLine(text) = Parsed(args, wild)
            /\ 2 * Len(args) <= (Len(text) + 2) - 1
            /\ wild => EmptyQuotes(text)
    BY <1>7 DEF IsReading
  <1>9. ParseCommandLine(text).argv = args /\ ParseCommandLine(text).wild = wild
    BY <1>8 DEF Parsed
  <1> QED
    BY <1>2, <1>8, <1>9

\* A text that is there, that is shorter than twice the room in argv and has no two
\* quotes together makes no fault, even if no list of words is written like that.
THEOREM ShortTextsAreSafe ==
    ASSUME NEW text \in Text, text # << >>, Len(text) + 3 <= 2 * ArgvSize, ~EmptyQuotes(text)
    PROVE  CommandFault(text) = "ok"
  <1> DEFINE parsed == ParseCommandLine(text)
  <1>1. /\ parsed.argv \in Seq(Text) /\ 2 * Len(parsed.argv) <= Len(text) + 1
        /\ parsed.wild = FALSE
    BY AnyTextIsRead
  <1> HIDE DEF parsed
  <1>2. ~(Len(parsed.argv) + 1 > ArgvSize)
    <2>1. Len(parsed.argv) \in Nat /\ Len(text) \in Nat /\ ArgvSize \in Nat
      BY <1>1, ArgvAssumption DEF Text
    <2> QED
      BY <1>1, <2>1
  <1>3. CommandFault(text) =
            CASE text = << >> -> "nullCommandLine"
              [] parsed.wild -> "nullLastp"
              [] ~parsed.wild /\ Len(parsed.argv) + 1 > ArgvSize -> "argvOverrun"
              [] OTHER -> "ok"
    BY Zenon DEF CommandFault, parsed
  <1> QED
    BY <1>1, <1>2, <1>3, Zenon
=============================================================================
