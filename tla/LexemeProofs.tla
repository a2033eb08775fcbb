----------------------------- MODULE LexemeProofs -----------------------------
(***************************************************************************)
(* The lexemes of the texts of Bodies: which ones a report or a list of    *)
(* entries is written with, in every style; that no other value is written *)
(* with them; and what encoding/json therefore reads of a text.            *)
(***************************************************************************)
EXTENDS Bodies, SequenceLemmas, FiniteSetTheorems

\* What is built from base in n steps: a function, and the only one.
Builds(f, n, V, base, step) ==
    /\ f \in [0 .. n -> V]
    /\ f[0] = base
    /\ \A k \in 1 .. n : f[k] = step[k][f[k - 1]]
IsOnly(f, n, V, base, step) ==
    \A g : /\ g[0] = base
           /\ \A k \in 1 .. n : g[k - 1] \in V => g[k] = step[k][g[k - 1]]
           => \A k \in 0 .. n : g[k] = f[k]

\* A function that is defined by recursion over its argument exists, and
\* there is one.
LEMMA Recursion ==
    ASSUME NEW n \in Nat, NEW V, NEW base \in V, NEW step \in [1 .. n -> [V -> V]]
    PROVE  \E f : Builds(f, n, V, base, step) /\ IsOnly(f, n, V, base, step)
<1> DEFINE S == {m \in Nat : m <= n => \E f : Builds(f, m, V, base, step)}
<1>1. 0 \in S
  <2>1. Builds([k \in 0 .. 0 |-> base], 0, V, base, step)
      BY DEF Builds
  <2> QED BY <2>1
<1>2. ASSUME NEW m \in Nat, m \in S PROVE m + 1 \in S
  <2> SUFFICES ASSUME m + 1 <= n PROVE \E f : Builds(f, m + 1, V, base, step)
      OBVIOUS
  <2>0. PICK f : Builds(f, m, V, base, step)
      BY <1>2
  <2>1. f \in [0 .. m -> V] /\ f[0] = base /\ \A k \in 1 .. m : f[k] = step[k][f[k - 1]]
      BY <2>0 DEF Builds
  <2> DEFINE g == [k \in 0 .. m + 1 |-> IF k = m + 1 THEN step[m + 1][f[m]] ELSE f[k]]
  <2>2. f \in [0 .. m -> V] /\ step[m + 1][f[m]] \in V
      BY <2>1
  <2>3. g \in [0 .. m + 1 -> V] /\ g[0] = base /\ g[m + 1] = step[m + 1][f[m]]
      BY <2>1, <2>2
  <2>4. \A k \in 0 .. m : g[k] = f[k]
      OBVIOUS
  <2>5. \A k \in 1 .. m + 1 : g[k] = step[k][g[k - 1]]
      BY <2>1, <2>3, <2>4
  <2> HIDE DEF g
  <2> QED BY <2>3, <2>5 DEF Builds
<1>3. PICK f : Builds(f, n, V, base, step)
  <2>1. Nat \subseteq S
      BY <1>1, <1>2, NatSetInduction
  <2> QED BY <2>1
<1>4. ASSUME NEW g, g[0] = base,
             \A k \in 1 .. n : g[k - 1] \in V => g[k] = step[k][g[k - 1]]
      PROVE  \A k \in 0 .. n : g[k] = f[k]
  <2> DEFINE T == {k \in Nat : k <= n => g[k] = f[k]}
  <2>1. 0 \in T
      BY <1>3, <1>4 DEF Builds
  <2>2. ASSUME NEW k \in Nat, k \in T PROVE k + 1 \in T
    <3> SUFFICES ASSUME k + 1 <= n PROVE g[k + 1] = f[k + 1]
        OBVIOUS
    <3>1. k + 1 \in 1 .. n /\ (k + 1) - 1 = k /\ g[k] = f[k] /\ f[k] \in V
        BY <1>3, <2>2 DEF Builds
    <3> QED BY <1>3, <1>4, <3>1 DEF Builds
  <2>3. Nat \subseteq T
      BY <2>1, <2>2, NatSetInduction
  <2> QED BY <2>3
<1> QED BY <1>3, <1>4 DEF IsOnly

\* The texts, and what the lexer has at a point of one.
Texts == Seq(Tokens)

\* What the alphabet holds.
LEMMA SpecialTokens ==
    /\ Quote \in Tokens /\ Nul \in Tokens /\ " " \in Tokens
    /\ Names \subseteq Tokens /\ Marks \subseteq Tokens /\ Numbers \subseteq Tokens
BY DEF Tokens

States == [done : Seq(Texts), open : Texts]
Start == [done |-> <<>>, open |-> <<>>]

\* A step of the lexer.
LEMMA LexType ==
    ASSUME NEW l \in States, NEW t \in Tokens
    PROVE  Lex(l, t) \in States
<1>0. l.done \in Seq(Texts) /\ l.open \in Texts
    BY DEF States
<1>1. \A u \in Tokens : <<u>> \in Texts
    BY DEF Texts
<1>1a. <<Nul>> \in Texts /\ <<t>> \in Texts /\ <<Quote>> \in Texts /\ <<>> \in Texts
    BY <1>1, SpecialTokens, EmptySeq DEF Texts
<1>2. Append(l.open, t) \in Texts /\ Append(l.open, Quote) \in Texts
    BY <1>0, AppendProperties, SpecialTokens DEF Texts
<1>3. \A w \in Texts : Append(l.done, w) \in Seq(Texts)
    BY <1>0, AppendProperties
<1> QED BY <1>0, <1>1a, <1>2, <1>3 DEF Lex, States

\* The states a text is scanned through.
LEMMA Scanned ==
    ASSUME NEW text \in Texts
    PROVE  \E f \in [0 .. Len(text) -> States] :
              /\ f[0] = Start
              /\ \A k \in 1 .. Len(text) : f[k] = Lex(f[k - 1], text[k])
              /\ Scan(text) = f[Len(text)]
              /\ \A g : /\ g[0] = Start
                        /\ \A k \in 1 .. Len(text) : g[k] = Lex(g[k - 1], text[k])
                        => \A k \in 0 .. Len(text) : g[k] = f[k]
<1> DEFINE n == Len(text)
           step == [k \in 1 .. n |-> [l \in States |-> Lex(l, text[k])]]
           Runs(f) == f = [k \in 0 .. n |-> IF k = 0 THEN Start ELSE Lex(f[k - 1], text[k])]
           upTo == CHOOSE f : Runs(f)
<1>1. n \in Nat /\ \A k \in 1 .. n : text[k] \in Tokens
    BY DEF Texts
<1>2. Scan(text) = upTo[n]
    BY DEF Scan, Start
<1>3. Start \in States
    BY DEF Start, States, Texts
<1>4. step \in [1 .. n -> [States -> States]]
    BY <1>1, LexType
<1>5. \A k \in 1 .. n, l \in States : step[k][l] = Lex(l, text[k])
    OBVIOUS
<1> HIDE DEF n, step
<1>6. PICK f : Builds(f, n, States, Start, step) /\ IsOnly(f, n, States, Start, step)
    BY <1>1, <1>3, <1>4, Recursion
<1>7. /\ f \in [0 .. n -> States] /\ f[0] = Start
      /\ \A k \in 1 .. n : f[k - 1] \in States /\ f[k] = Lex(f[k - 1], text[k])
    BY <1>1, <1>5, <1>6 DEF Builds
<1>8. \A g : /\ g[0] = Start
             /\ \A k \in 1 .. n : g[k] = Lex(g[k - 1], text[k])
             => \A k \in 0 .. n : g[k] = f[k]
    BY <1>5, <1>6 DEF IsOnly
<1>9. Runs(f)
    BY <1>1, <1>7
<1>10. Runs(upTo)
    BY <1>9, Zenon
<1>11. upTo[0] = Start /\ \A k \in 1 .. n : upTo[k] = Lex(upTo[k - 1], text[k])
  <2> HIDE DEF upTo
  <2>1. \A k \in 0 .. n : upTo[k] = IF k = 0 THEN Start ELSE Lex(upTo[k - 1], text[k])
      BY <1>10
  <2> QED BY <1>1, <2>1
<1> HIDE DEF upTo
<1>12. Scan(text) = f[n]
    BY <1>1, <1>2, <1>8, <1>11
<1> QED BY <1>7, <1>8, <1>12 DEF n

\* What is scanned of a text has its type.
LEMMA ScanType ==
    ASSUME NEW text \in Texts
    PROVE  Scan(text) \in States
<1>1. Len(text) \in 0 .. Len(text)
    BY DEF Texts
<1> QED BY <1>1, Scanned

\* Scanning is incremental.
LEMMA ScanAppend ==
    ASSUME NEW text \in Texts, NEW t \in Tokens
    PROVE  Scan(Append(text, t)) = Lex(Scan(text), t)
<1> DEFINE n == Len(text)
           u == Append(text, t)
<1>1. /\ n \in Nat /\ u \in Texts /\ Len(u) = n + 1 /\ u[n + 1] = t
      /\ \A k \in 1 .. n : u[k] = text[k]
    BY AppendProperties, LenProperties DEF Texts
<1> HIDE DEF n, u
<1>2. PICK f \in [0 .. n + 1 -> States] :
              /\ f[0] = Start
              /\ \A k \in 1 .. n + 1 : f[k] = Lex(f[k - 1], u[k])
              /\ Scan(u) = f[n + 1]
    BY <1>1, Scanned
<1>3. \A k \in 1 .. n : f[k] = Lex(f[k - 1], text[k])
    BY <1>1, <1>2
<1>4. PICK e \in [0 .. n -> States] :
              /\ Scan(text) = e[n]
              /\ \A g : /\ g[0] = Start
                        /\ \A k \in 1 .. n : g[k] = Lex(g[k - 1], text[k])
                        => \A k \in 0 .. n : g[k] = e[k]
    BY <1>1, Scanned DEF n
<1>5. f[n] = Scan(text)
    BY <1>1, <1>2, <1>3, <1>4
<1>6. n + 1 \in 1 .. n + 1 /\ (n + 1) - 1 = n
    BY <1>1
<1> QED BY <1>1, <1>2, <1>5, <1>6 DEF u

\* Nothing is scanned of an empty text.
LEMMA ScanEmpty == Scan(<<>>) = Start
<1>1. <<>> \in Texts /\ Len(<<>>) = 0
    BY DEF Texts
<1> QED BY <1>1, Scanned

\* A piece of text that is scanned, from outside a string, as the lexemes w.
Closed(a, w) ==
    /\ a \in Texts /\ w \in Seq(Texts)
    /\ \A p \in Texts : Scan(p).open = <<>> =>
           Scan(p \o a) = [done |-> Scan(p).done \o w, open |-> <<>>]

\* A closed text, scanned on its own.
LEMMA ClosedScan ==
    ASSUME NEW a, NEW w, Closed(a, w)
    PROVE  Scan(a) = [done |-> w, open |-> <<>>]
<1>1. <<>> \in Texts /\ <<>> \o a = a /\ <<>> \o w = w
    BY ConcatEmptySeq, EmptySeq DEF Closed, Texts
<1>2. Scan(<<>>).open = <<>> /\ Scan(<<>>).done = <<>>
    BY ScanEmpty DEF Start
<1> QED BY <1>1, <1>2 DEF Closed

\* One closed text after the other.
LEMMA ClosedConcat ==
    ASSUME NEW a, NEW w, NEW b, NEW x, Closed(a, w), Closed(b, x)
    PROVE  Closed(a \o b, w \o x)
<1>1. a \o b \in Texts /\ w \o x \in Seq(Texts)
    BY ConcatProperties DEF Closed, Texts
<1> SUFFICES ASSUME NEW p \in Texts, Scan(p).open = <<>>
             PROVE  Scan(p \o (a \o b)) = [done |-> Scan(p).done \o (w \o x), open |-> <<>>]
    BY <1>1 DEF Closed
<1>2. p \o a \in Texts /\ p \o (a \o b) = (p \o a) \o b
    BY ConcatProperties, ConcatAssociative, SMTT(30) DEF Closed, Texts
<1>3. Scan(p \o a) = [done |-> Scan(p).done \o w, open |-> <<>>]
    BY DEF Closed
<1> DEFINE q == p \o a
<1>4. q \in Texts /\ Scan(q).open = <<>> /\ Scan(q).done = Scan(p).done \o w
    BY <1>2, <1>3
<1> HIDE DEF q
<1>5. Scan(q \o b) = [done |-> (Scan(p).done \o w) \o x, open |-> <<>>]
    BY <1>4 DEF Closed
<1>6. PICK d \in Seq(Texts) : d = Scan(p).done
    BY ScanType DEF States
<1>7. (d \o w) \o x = d \o (w \o x)
    BY ConcatAssociative DEF Closed
<1> QED BY <1>2, <1>5, <1>6, <1>7 DEF q

\* The empty text is closed.
LEMMA ClosedEmpty == Closed(<<>>, <<>>)
<1>1. <<>> \in Texts /\ <<>> \in Seq(Texts)
    BY EmptySeq DEF Texts
<1>2. ASSUME NEW p \in Texts, Scan(p).open = <<>>
      PROVE  Scan(p \o <<>>) = [done |-> Scan(p).done \o <<>>, open |-> <<>>]
  <2>1. p \o <<>> = p
      BY ConcatEmptySeq DEF Texts
  <2>2. Scan(p) \in States
      BY ScanType
  <2>3. Scan(p).done \o <<>> = Scan(p).done
      BY <2>2, ConcatEmptySeq DEF States
  <2> QED BY <1>2, <2>1, <2>2, <2>3 DEF States
<1> QED BY <1>1, <1>2 DEF Closed

\* Appending one token, and one lexeme.
LEMMA AppendOne ==
    ASSUME NEW S, NEW s \in Seq(S), NEW e \in S
    PROVE  s \o <<e>> = Append(s, e) /\ <<e>> \in Seq(S)
BY AppendIsConcat

\* A blank outside strings is no lexeme.
LEMMA ClosedBlank == Closed(<<" ">>, <<>>)
<1>1. <<" ">> \in Texts /\ <<>> \in Seq(Texts)
    BY EmptySeq, SpecialTokens, AppendOne DEF Texts
<1>2. ASSUME NEW p \in Texts, Scan(p).open = <<>>
      PROVE  Scan(p \o <<" ">>) = [done |-> Scan(p).done \o <<>>, open |-> <<>>]
  <2>1. p \o <<" ">> = Append(p, " ")
      BY SpecialTokens, AppendOne DEF Texts
  <2>2. Scan(p) \in States
      BY ScanType
  <2>3. Scan(p).done \o <<>> = Scan(p).done
      BY <2>2, ConcatEmptySeq DEF States
  <2>4. Scan(Append(p, " ")) = Lex(Scan(p), " ")
      BY ScanAppend, SpecialTokens
  <2> QED BY <1>2, <2>1, <2>2, <2>3, <2>4 DEF States, Lex, Quote, Nul
<1> QED BY <1>1, <1>2 DEF Closed

\* A lexeme of one token.
Lexeme(t) == <<t>>
ObjectOpens == Lexeme("{")
ObjectCloses == Lexeme("}")
ArrayOpens == Lexeme("[")
ArrayCloses == Lexeme("]")
Colon == Lexeme(":")
Separator == Lexeme(",")

\* The tokens that are a lexeme wherever they stand outside strings.
Plain == Tokens \ {Quote, Nul, " "}

\* Names, marks and numbers are lexemes of their own.
LEMMA PlainTokens == Names \subseteq Plain /\ Marks \subseteq Plain /\ Numbers \subseteq Plain
BY SpecialTokens, NumbersAssumption DEF Plain, Names, Marks, Quote, Nul

\* What holds these lexemes apart.
LEMMA MarksDiffer ==
    /\ ObjectOpens # ArrayOpens /\ ObjectOpens # ArrayCloses
    /\ Separator # ArrayCloses
BY DEF ObjectOpens, ArrayOpens, ArrayCloses, Separator, Lexeme

\* A name, a mark or a number is one lexeme,
LEMMA ClosedToken ==
    ASSUME NEW t \in Plain
    PROVE  Closed(<<t>>, <<Lexeme(t)>>)
<1> SUFFICES Closed(<<t>>, << <<t>> >>)
    BY DEF Lexeme
<1> USE DEF Plain
<1>1. <<t>> \in Texts /\ << <<t>> >> \in Seq(Texts)
    BY EmptySeq, AppendOne DEF Texts
<1>2. ASSUME NEW p \in Texts, Scan(p).open = <<>>
      PROVE  Scan(p \o <<t>>) = [done |-> Scan(p).done \o << <<t>> >>, open |-> <<>>]
  <2>1. p \o <<t>> = Append(p, t)
      BY AppendOne DEF Texts
  <2>2. Scan(p) \in States
      BY ScanType
  <2>3. Scan(p).done \o << <<t>> >> = Append(Scan(p).done, <<t>>)
      BY <1>1, <2>2, AppendOne DEF States
  <2>4. Scan(Append(p, t)) = Lex(Scan(p), t)
      BY ScanAppend
  <2> QED BY <1>2, <2>1, <2>2, <2>3, <2>4 DEF States, Lex
<1> QED BY <1>1, <1>2 DEF Closed

\* ... as each mark is.
LEMMA ClosedMarks ==
    /\ Closed(<<"{">>, <<ObjectOpens>>) /\ Closed(<<"}">>, <<ObjectCloses>>)
    /\ Closed(<<"[">>, <<ArrayOpens>>) /\ Closed(<<"]">>, <<ArrayCloses>>)
    /\ Closed(<<":">>, <<Colon>>) /\ Closed(<<",">>, <<Separator>>)
<1>1. "{" \in Plain /\ "}" \in Plain /\ "[" \in Plain /\ "]" \in Plain
      /\ ":" \in Plain /\ "," \in Plain
    BY PlainTokens DEF Marks
<1> QED BY <1>1, ClosedToken DEF ObjectOpens, ObjectCloses, ArrayOpens, ArrayCloses, Colon, Separator

\* A string is one lexeme.
LEMMA ClosedStr ==
    ASSUME NEW c \in Seq(Tokens \ {Quote, Nul})
    PROVE  Closed(Str(c), <<Str(c)>>)
<1> DEFINE n == Len(c)
           In(k) == <<Quote>> \o SubSeq(c, 1, k)
<1>1. /\ n \in Nat /\ c \in Texts /\ <<Quote>> \in Texts
      /\ \A k \in 1 .. n : c[k] \in Tokens /\ c[k] # Quote /\ c[k] # Nul
  <2>1. c \in Seq(Tokens)
    <3>1. Tokens \ {Quote, Nul} \subseteq Tokens
        OBVIOUS
    <3> QED BY <3>1, SeqMonotonic
  <2>2. \A k \in 1 .. n : c[k] \in Tokens \ {Quote, Nul}
      BY ElementOfSeq
  <2>3. n \in Nat
      BY LenProperties
  <2>4. <<Quote>> \in Texts
      BY AppendOne, SpecialTokens, EmptySeq DEF Texts
  <2> QED BY <2>1, <2>2, <2>3, <2>4 DEF Texts
<1>2. /\ In(0) = <<Quote>>
      /\ \A k \in 0 .. n : In(k) \in Texts /\ In(k) # <<>>
      /\ \A k \in 0 .. n - 1 : In(k + 1) = Append(In(k), c[k + 1])
      /\ SubSeq(c, 1, n) = c
  <2>1. SubSeq(c, 1, 0) = <<>> /\ SubSeq(c, 1, n) = c
      BY <1>1, SubSeqEmpty, SubSeqFull DEF Texts
  <2>2. In(0) = <<Quote>>
      BY <1>1, <2>1, ConcatEmptySeq DEF Texts
  <2>3. ASSUME NEW k \in 0 .. n PROVE In(k) \in Texts /\ In(k) # <<>> /\ SubSeq(c, 1, k) \in Texts
    <3>1. SubSeq(c, 1, k) \in Texts
        BY <1>1, SubSeqProperties DEF Texts
    <3> QED BY <1>1, <3>1, ConcatProperties, ConcatEqualIffEmpty DEF Texts
  <2>4. ASSUME NEW k \in 0 .. n - 1 PROVE In(k + 1) = Append(In(k), c[k + 1])
    <3>1. c[k + 1] \in Tokens /\ k \in 0 .. n /\ k \in Nat
        BY <1>1
    <3>2. SubSeq(c, 1, k + 1) = Append(SubSeq(c, 1, k), c[k + 1])
        BY <1>1, SubSeqRecursiveSecond DEF Texts
    <3>3. SubSeq(c, 1, k) \in Texts
        BY <2>3, <3>1
    <3>4. SubSeq(c, 1, k + 1) = SubSeq(c, 1, k) \o <<c[k + 1]>> /\ <<c[k + 1]>> \in Texts
        BY <3>1, <3>2, <3>3, AppendOne DEF Texts
    <3>5. In(k + 1) = In(k) \o <<c[k + 1]>>
        BY <1>1, <3>3, <3>4, ConcatAssociative DEF Texts
    <3> QED BY <2>3, <3>1, <3>5, AppendOne DEF Texts
  <2> QED BY <2>1, <2>2, <2>3, <2>4
<1>3. Str(c) \in Texts /\ <<Str(c)>> \in Seq(Texts) /\ Str(c) = Append(In(n), Quote)
  <2>0. In(n) \in Texts /\ Quote \in Tokens /\ Str(c) = In(n) \o <<Quote>>
    <3>1. In(n) = <<Quote>> \o c /\ In(n) \in Texts
        BY <1>1, <1>2
    <3> QED BY <3>1, SpecialTokens DEF Str
  <2> HIDE DEF In
  <2>1. Str(c) = Append(In(n), Quote)
      BY <2>0, AppendOne DEF Texts
  <2>2. Str(c) \in Texts
      BY <2>0, <2>1, AppendProperties DEF Texts
  <2> QED BY <2>1, <2>2, AppendOne
<1> HIDE DEF n, In
<1> SUFFICES ASSUME NEW p \in Texts, Scan(p).open = <<>>
             PROVE  Scan(p \o Str(c)) = [done |-> Scan(p).done \o <<Str(c)>>, open |-> <<>>]
    BY <1>3 DEF Closed
<1> DEFINE T == {k \in Nat : k <= n => Scan(p \o In(k)) = [done |-> Scan(p).done, open |-> In(k)]}
<1>4. 0 \in T
  <2>1. p \o In(0) = Append(p, Quote)
      BY <1>2, AppendOne, SpecialTokens DEF Texts
  <2>2. Scan(Append(p, Quote)) = [done |-> Scan(p).done, open |-> <<Quote>>]
      BY ScanAppend, SpecialTokens DEF Lex, Quote, Nul
  <2> QED BY <1>2, <2>1, <2>2
<1>5. ASSUME NEW k \in Nat, k \in T PROVE k + 1 \in T
  <2> SUFFICES ASSUME k + 1 <= n
               PROVE  Scan(p \o In(k + 1)) = [done |-> Scan(p).done, open |-> In(k + 1)]
      OBVIOUS
  <2>1. k \in 0 .. n /\ k \in 0 .. n - 1 /\ k + 1 \in 1 .. n
      BY <1>1
  <2>2. /\ In(k + 1) = Append(In(k), c[k + 1]) /\ In(k) \in Texts /\ In(k) # <<>>
        /\ c[k + 1] \in Tokens /\ c[k + 1] # Quote /\ c[k + 1] # Nul
      BY <1>1, <1>2, <2>1
  <2>3. p \o In(k) \in Texts /\ p \o In(k + 1) = Append(p \o In(k), c[k + 1])
    <3>1. <<c[k + 1]>> \in Texts /\ p \o In(k) \in Texts /\ In(k + 1) = In(k) \o <<c[k + 1]>>
        BY <2>2, AppendOne, ConcatProperties, EmptySeq, ZenonT(60) DEF Texts
    <3>2. p \o (In(k) \o <<c[k + 1]>>) = (p \o In(k)) \o <<c[k + 1]>>
        BY <2>2, <3>1, ConcatAssociative, SMTT(30) DEF Texts
    <3>3. (p \o In(k)) \o <<c[k + 1]>> = Append(p \o In(k), c[k + 1])
        BY <2>2, <3>1, AppendOne DEF Texts
    <3> QED BY <3>1, <3>2, <3>3
  <2>4. Scan(p \o In(k)) = [done |-> Scan(p).done, open |-> In(k)]
      BY <1>5, <2>1
  <2>5. Scan(p \o In(k + 1)) = Lex(Scan(p \o In(k)), c[k + 1])
      BY <2>2, <2>3, ScanAppend
  <2>6. Lex([done |-> Scan(p).done, open |-> In(k)], c[k + 1])
            = [done |-> Scan(p).done, open |-> Append(In(k), c[k + 1])]
      BY <2>2 DEF Lex
  <2> QED BY <2>2, <2>4, <2>5, <2>6
<1>6. n \in T
  <2> HIDE DEF T
  <2> QED BY <1>1, <1>4, <1>5, NatSetInduction
<1>7. Scan(p \o In(n)) = [done |-> Scan(p).done, open |-> In(n)] /\ In(n) # <<>> /\ In(n) \in Texts
    BY <1>1, <1>2, <1>6
<1>8. p \o In(n) \in Texts /\ p \o Str(c) = Append(p \o In(n), Quote)
  <2>1. <<Quote>> \in Texts /\ p \o In(n) \in Texts /\ Str(c) = In(n) \o <<Quote>>
      BY <1>1, <1>3, <1>7, AppendOne, ConcatProperties, SpecialTokens DEF Texts
  <2>2. p \o Str(c) = (p \o In(n)) \o <<Quote>>
      BY <1>7, <2>1, ConcatAssociative DEF Texts
  <2> QED BY <2>1, <2>2, AppendOne, SpecialTokens DEF Texts
<1>9. Scan(p \o Str(c)) = [done |-> Append(Scan(p).done, Append(In(n), Quote)), open |-> <<>>]
  <2>1. Scan(p \o Str(c)) = Lex(Scan(p \o In(n)), Quote)
      BY <1>8, ScanAppend, SpecialTokens
  <2>2. Lex([done |-> Scan(p).done, open |-> In(n)], Quote)
            = [done |-> Append(Scan(p).done, Append(In(n), Quote)), open |-> <<>>]
      BY <1>7 DEF Lex, Quote, Nul
  <2> QED BY <1>7, <2>1, <2>2
<1>10. Append(Scan(p).done, Str(c)) = Scan(p).done \o <<Str(c)>>
  <2>1. Scan(p).done \in Seq(Texts)
      BY ScanType DEF States
  <2> QED BY <1>3, <2>1, AppendOne
<1> QED BY <1>3, <1>9, <1>10

-----------------------------------------------------------------------------
(* The lexemes of what a sender writes.                                    *)

\* FlattenSeq joins the pieces one by one.
LEMMA Flattened ==
    ASSUME NEW seqs \in Seq(Texts)
    PROVE  \E f : /\ f[0] = <<>>
                  /\ \A k \in 0 .. Len(seqs) : f[k] \in Texts
                  /\ \A k \in 1 .. Len(seqs) : f[k] = f[k - 1] \o seqs[k]
                  /\ FlattenSeq(seqs) = f[Len(seqs)]
<1> DEFINE n == Len(seqs)
           step == [k \in 1 .. n |-> [t \in Texts |-> t \o seqs[k]]]
           Runs(h) == h = [k \in 1 .. n |-> IF k = 1 THEN seqs[k] ELSE h[k - 1] \o seqs[k]]
           flatten == CHOOSE h : Runs(h)
<1>1. n \in Nat /\ \A k \in 1 .. n : seqs[k] \in Texts
    BY ElementOfSeq, LenProperties
<1>2. <<>> \in Texts /\ \A t \in Texts : <<>> \o t = t
    BY EmptySeq, ConcatEmptySeq DEF Texts
<1>3. n = 0 => FlattenSeq(seqs) = <<>>
    BY EmptySeq DEF FlattenSeq
<1>4. n # 0 => FlattenSeq(seqs) = flatten[n]
    BY DEF FlattenSeq
<1>5. step \in [1 .. n -> [Texts -> Texts]]
    BY <1>1, ConcatProperties DEF Texts
<1>6. \A k \in 1 .. n, t \in Texts : step[k][t] = t \o seqs[k]
    OBVIOUS
<1> HIDE DEF n, step
<1>7. PICK f : Builds(f, n, Texts, <<>>, step) /\ IsOnly(f, n, Texts, <<>>, step)
    BY <1>1, <1>2, <1>5, Recursion
<1>8. /\ f \in [0 .. n -> Texts] /\ f[0] = <<>>
      /\ \A k \in 1 .. n : f[k] = f[k - 1] \o seqs[k]
  <2>1. /\ f \in [0 .. n -> Texts] /\ f[0] = <<>>
        /\ \A k \in 1 .. n : f[k] = step[k][f[k - 1]]
      BY <1>7 DEF Builds
  <2>2. \A k \in 1 .. n : f[k - 1] \in Texts
      BY <1>1, <2>1
  <2> QED BY <1>6, <2>1, <2>2
<1>9. n # 0 => FlattenSeq(seqs) = f[n]
  <2> SUFFICES ASSUME n # 0 PROVE flatten[n] = f[n]
      BY <1>4
  <2> DEFINE h == [k \in 1 .. n |-> f[k]]
  <2>1. h = [k \in 1 .. n |-> IF k = 1 THEN seqs[k] ELSE h[k - 1] \o seqs[k]]
    <3>1. \A k \in 1 .. n : h[k] = IF k = 1 THEN seqs[k] ELSE h[k - 1] \o seqs[k]
      <4> SUFFICES ASSUME NEW k \in 1 .. n
                   PROVE  h[k] = IF k = 1 THEN seqs[k] ELSE h[k - 1] \o seqs[k]
          OBVIOUS
      <4>1. f[k] = f[k - 1] \o seqs[k] /\ h[k] = f[k]
          BY <1>8
      <4>2. k = 1 => f[k - 1] = <<>> /\ <<>> \o seqs[k] = seqs[k]
          BY <1>1, <1>2, <1>8
      <4>3. k # 1 => h[k - 1] = f[k - 1]
          BY <1>1
      <4> HIDE DEF h
      <4> QED BY <4>1, <4>2, <4>3
    <3>2. h = [k \in 1 .. n |-> h[k]]
        OBVIOUS
    <3> HIDE DEF h
    <3> QED BY <3>1, <3>2
  <2>2. Runs(h)
      BY <2>1
  <2>3. Runs(flatten)
      BY <2>2, Zenon
  <2> HIDE DEF flatten
  <2>4. \A k \in 1 .. n : flatten[k] = IF k = 1 THEN seqs[k] ELSE flatten[k - 1] \o seqs[k]
      BY <2>3
  <2> DEFINE g == [k \in 0 .. n |-> IF k = 0 THEN <<>> ELSE flatten[k]]
  <2>5. g[0] = <<>> /\ \A k \in 1 .. n : g[k] = flatten[k]
      BY <1>1
  <2>6. \A k \in 1 .. n : g[k - 1] \in Texts => g[k] = step[k][g[k - 1]]
    <3> SUFFICES ASSUME NEW k \in 1 .. n, g[k - 1] \in Texts PROVE g[k] = g[k - 1] \o seqs[k]
        BY <1>6
    <3>1. CASE k = 1
      <4>1. g[k] = seqs[k] /\ g[k - 1] = <<>> /\ <<>> \o seqs[k] = seqs[k]
          BY <1>1, <1>2, <2>4, <2>5, <3>1
      <4> HIDE DEF g
      <4> QED BY <4>1
    <3>2. CASE k # 1
      <4>1. k - 1 \in 1 .. n
          BY <1>1, <3>2
      <4>2. g[k - 1] = flatten[k - 1] /\ g[k] = flatten[k]
          BY <2>5, <4>1
      <4>3. flatten[k] = flatten[k - 1] \o seqs[k]
          BY <2>4, <3>2
      <4> HIDE DEF g
      <4> QED BY <4>2, <4>3
    <3> QED BY <3>1, <3>2
  <2> HIDE DEF g
  <2>7. g[n] = f[n]
      BY <1>1, <1>7, <2>5, <2>6 DEF IsOnly
  <2> QED BY <1>1, <2>5, <2>7
<1>10. FlattenSeq(seqs) = f[n]
    BY <1>3, <1>8, <1>9
<1> QED BY <1>8, <1>10 DEF n

\* An entry is nine lexemes.
EntryAt(w, o, entry, style) ==
    /\ w[o + 1] = ObjectOpens /\ w[o + 9] = ObjectCloses
    /\ w[o + 3] = Colon /\ w[o + 5] = Separator /\ w[o + 7] = Colon
    /\ style.swap = FALSE => /\ w[o + 2] = Name("k", style) /\ w[o + 4] = Lexeme(entry.k)
                            /\ w[o + 6] = Name("v", style) /\ w[o + 8] = Str(entry.v)
    /\ style.swap = TRUE => /\ w[o + 2] = Name("v", style) /\ w[o + 4] = Str(entry.v)
                           /\ w[o + 6] = Name("k", style) /\ w[o + 8] = Lexeme(entry.k)

\* A list of entries is what they are, and what stands between and around.
Span(n) == IF n = 0 THEN 2 ELSE 10 * n + 1
EntriesAt(w, o, entries, style) ==
    /\ w[o + 1] = ArrayOpens /\ w[o + Span(Len(entries))] = ArrayCloses
    /\ \A i \in 2 .. Len(entries) : w[o + 10 * i - 9] = Separator
    /\ \A i \in 1 .. Len(entries) : EntryAt(w, o + 10 * i - 9, entries[i], style)

\* A report is a list between the lexemes of the other member.
ReportIs(w, report, style) ==
    LET n == Span(Len(report.ek))
    IN  /\ Len(w) = n + 8
        /\ w[1] = ObjectOpens /\ w[3] = Colon /\ w[n + 8] = ObjectCloses
        /\ style.swap = FALSE =>
               /\ w[2] = Name("version", style) /\ w[4] = Str(report.version)
               /\ w[5] = Separator /\ w[6] = Name("ek", style) /\ w[7] = Colon
               /\ EntriesAt(w, 7, report.ek, style)
        /\ style.swap = TRUE =>
               /\ w[2] = Name("ek", style) /\ EntriesAt(w, 3, report.ek, style)
               /\ w[n + 4] = Separator /\ w[n + 5] = Name("version", style)
               /\ w[n + 6] = Colon /\ w[n + 7] = Str(report.version)

\* Texts written out.
LEMMA Pair ==
    ASSUME NEW a, NEW b
    PROVE  <<a>> \o <<b>> = <<a, b>>
<1> DEFINE S == {a, b}
<1>1. <<a>> \in Seq(S) /\ <<b>> \in Seq(S) /\ <<a, b>> \in Seq(S) /\ Len(<<a, b>>) = 2
      /\ Len(<<a>>) = 1 /\ Len(<<b>>) = 1
    OBVIOUS
<1>2. /\ <<a>> \o <<b>> \in Seq(S) /\ Len(<<a>> \o <<b>>) = 2
      /\ (<<a>> \o <<b>>)[1] = a /\ (<<a>> \o <<b>>)[2] = b
    BY <1>1, ConcatProperties
<1>3. \A i \in 1 .. 2 : (<<a>> \o <<b>>)[i] = <<a, b>>[i]
    BY <1>2
<1> QED BY <1>1, <1>2, <1>3, SeqEqual

\* ... and of three tokens.
LEMMA Triple ==
    ASSUME NEW a, NEW b, NEW c
    PROVE  <<a, b>> \o <<c>> = <<a, b, c>>
<1> DEFINE S == {a, b, c}
           l == <<a, b>> \o <<c>>
<1>1. <<a, b>> \in Seq(S) /\ <<c>> \in Seq(S) /\ <<a, b, c>> \in Seq(S) /\ Len(<<a, b, c>>) = 3
      /\ Len(<<a, b>>) = 2 /\ Len(<<c>>) = 1
    OBVIOUS
<1>2. l \in Seq(S) /\ Len(l) = 3 /\ l[1] = a /\ l[2] = b /\ l[3] = c
    BY <1>1, ConcatProperties
<1>3. \A i \in 1 .. 3 : l[i] = <<a, b, c>>[i]
    BY <1>2
<1> QED BY <1>1, <1>2, <1>3, SeqEqual

\* A name is one lexeme, with quotes or without.
LEMMA ClosedName ==
    ASSUME NEW name \in Names, NEW style \in Styles
    PROVE  Closed(Name(name, style), <<Name(name, style)>>)
<1>1. name \in Plain
    BY PlainTokens
<1>2. CASE name \in style.bare
    BY <1>1, <1>2, ClosedToken DEF Name, Lexeme
<1>3. CASE name \notin style.bare
  <2>1. <<name>> \in Seq(Tokens \ {Quote, Nul})
      BY <1>1, EmptySeq, AppendOne DEF Plain
  <2>2. Str(<<name>>) = <<Quote, name, Quote>>
    <3>1. <<Quote>> \o <<name>> = <<Quote, name>>
        BY Pair
    <3>2. <<Quote, name>> \o <<Quote>> = <<Quote, name, Quote>>
        BY Triple
    <3> QED BY <3>1, <3>2 DEF Str
  <2> QED BY <1>3, <2>1, <2>2, ClosedStr DEF Name
<1> QED BY <1>2, <1>3

\* A member is its name, a colon and its value.
Named(m, name, colon, w) ==
    /\ Len(w) \in Nat /\ Len(m) = Len(w) + 2 /\ m[1] = name /\ m[2] = colon
    /\ \A i \in 1 .. Len(w) : m[i + 2] = w[i]

\* Where the lexemes of a member with a value of one lexeme are.
LEMMA NamedOne ==
    ASSUME NEW m, NEW name, NEW colon, NEW w, Named(m, name, colon, w), Len(w) = 1
    PROVE  Len(m) = 3 /\ m[1] = name /\ m[2] = colon /\ m[3] = w[1]
BY DEF Named

\* The lexemes of a member: its name, the colon, its value.
LEMMA ClosedMember ==
    ASSUME NEW name \in Names, NEW style \in Styles, NEW a, NEW w, Closed(a, w)
    PROVE  \E m : /\ Closed(Member(name, a, style), m)
                  /\ Named(m, Name(name, style), Colon, w)
<1> DEFINE N == Name(name, style)
<1>1. Closed(<<":">>, <<Colon>>) /\ Closed(N, <<N>>)
    BY ClosedMarks, ClosedName
<1>2. Closed(Gap(style), <<>>)
    BY ClosedEmpty, ClosedBlank DEF Gap
<1>3. <<N>> \o <<Colon>> = <<N, Colon>> /\ <<N, Colon>> \o <<>> = <<N, Colon>>
  <2>1. <<N, Colon>> \in Seq({N, Colon})
      OBVIOUS
  <2> QED BY <2>1, Pair, ConcatEmptySeq
<1>4. Closed(N \o <<":">>, <<N, Colon>>)
    BY <1>1, <1>3, ClosedConcat
<1>5. Closed((N \o <<":">>) \o Gap(style), <<N, Colon>>)
    BY <1>2, <1>3, <1>4, ClosedConcat
<1>6. Closed(Member(name, a, style), <<N, Colon>> \o w)
    BY <1>5, ClosedConcat DEF Member
<1> DEFINE m == <<N, Colon>> \o w
<1>7. <<N, Colon>> \in Seq(Texts) /\ w \in Seq(Texts) /\ Len(w) \in Nat
    BY <1>5, LenProperties DEF Closed
<1>8. /\ Len(m) = Len(w) + 2
      /\ \A i \in 1 .. 2 + Len(w) : m[i] = IF i <= 2 THEN <<N, Colon>>[i] ELSE w[i - 2]
    BY <1>7, ConcatProperties
<1> HIDE DEF m
<1>9. m[1] = N /\ m[2] = Colon
    BY <1>7, <1>8
<1>10. \A i \in 1 .. Len(w) : m[i + 2] = w[i]
    BY <1>7, <1>8
<1>11. Named(m, N, Colon, w)
    BY <1>7, <1>8, <1>9, <1>10 DEF Named
<1> QED BY <1>6, <1>11 DEF m

\* A comma is one lexeme, whatever follows it.
LEMMA ClosedComma ==
    ASSUME NEW style \in Styles
    PROVE  Closed(Comma(style), <<Separator>>)
<1>1. Closed(<<",">>, <<Separator>>)
    BY ClosedMarks
<1>2. Closed(Gap(style), <<>>)
    BY ClosedEmpty, ClosedBlank DEF Gap
<1>3. <<Separator>> \o <<>> = <<Separator>>
  <2>1. <<Separator>> \in Seq({Separator})
      OBVIOUS
  <2> QED BY <2>1, ConcatEmptySeq
<1> QED BY <1>1, <1>2, <1>3, ClosedConcat DEF Comma

\* Three pieces in a row.
Joined(z, u, v, w) ==
    /\ Len(u) \in Nat /\ Len(v) \in Nat /\ Len(w) \in Nat
    /\ Len(z) = Len(u) + Len(v) + Len(w)
    /\ \A i \in 1 .. Len(u) : z[i] = u[i]
    /\ \A i \in 1 .. Len(v) : z[Len(u) + i] = v[i]
    /\ \A i \in 1 .. Len(w) : z[Len(u) + Len(v) + i] = w[i]

\* Three closed texts.
LEMMA ClosedThree ==
    ASSUME NEW a, NEW b, NEW c, NEW u, NEW v, NEW w, Closed(a, u), Closed(b, v), Closed(c, w)
    PROVE  \E z : Closed((a \o b) \o c, z) /\ Joined(z, u, v, w)
<1> DEFINE y == u \o v
           z == y \o w
<1>1. Closed(a \o b, y) /\ Closed((a \o b) \o c, z)
    BY ClosedConcat
<1>2. u \in Seq(Texts) /\ v \in Seq(Texts) /\ w \in Seq(Texts) /\ y \in Seq(Texts)
    BY <1>1 DEF Closed
<1>3. Len(u) \in Nat /\ Len(v) \in Nat /\ Len(w) \in Nat
    BY <1>2, LenProperties
<1>4. Len(y) = Len(u) + Len(v) /\ \A i \in 1 .. Len(u) + Len(v) :
          y[i] = IF i <= Len(u) THEN u[i] ELSE v[i - Len(u)]
    BY <1>2, ConcatProperties
<1>5. Len(z) = Len(y) + Len(w) /\ \A i \in 1 .. Len(y) + Len(w) :
          z[i] = IF i <= Len(y) THEN y[i] ELSE w[i - Len(y)]
    BY <1>2, ConcatProperties
<1> HIDE DEF y, z
<1>6. \A i \in 1 .. Len(u) : z[i] = u[i]
    BY <1>3, <1>4, <1>5
<1>7. \A i \in 1 .. Len(v) : z[Len(u) + i] = v[i]
    BY <1>3, <1>4, <1>5
<1>8. \A i \in 1 .. Len(w) : z[Len(u) + Len(v) + i] = w[i]
    BY <1>3, <1>4, <1>5
<1>9. Joined(z, u, v, w)
    BY <1>3, <1>4, <1>5, <1>6, <1>7, <1>8 DEF Joined
<1> QED BY <1>1, <1>9 DEF z

\* Between braces, one member and the other.
Between(z, a, w, b, x, c) ==
    /\ Len(w) \in Nat /\ Len(x) \in Nat /\ Len(z) = Len(w) + Len(x) + 3
    /\ z[1] = a /\ z[Len(w) + 2] = b /\ z[Len(w) + Len(x) + 3] = c
    /\ \A i \in 1 .. Len(w) : z[1 + i] = w[i]
    /\ \A i \in 1 .. Len(x) : z[Len(w) + 2 + i] = x[i]

\* Joined twice, with braces that are one lexeme each.
LEMMA JoinedBetween ==
    ASSUME NEW w, NEW x, NEW y, NEW z, NEW open, NEW comma, NEW close,
           Len(open) = 1, Len(comma) = 1, Len(close) = 1,
           Joined(y, w, comma, x), Joined(z, open, y, close)
    PROVE  Between(z, open[1], w, comma[1], x, close[1])
<1>6. /\ Len(w) \in Nat /\ Len(x) \in Nat /\ Len(y) = Len(w) + 1 + Len(x)
      /\ \A i \in 1 .. Len(w) : y[i] = w[i]
      /\ y[Len(w) + 1] = comma[1]
      /\ \A i \in 1 .. Len(x) : y[Len(w) + 1 + i] = x[i]
    BY DEF Joined
<1>7. /\ Len(z) = Len(y) + 2 /\ z[1] = open[1] /\ z[Len(y) + 2] = close[1]
      /\ \A i \in 1 .. Len(y) : z[1 + i] = y[i]
    BY DEF Joined
<1>8. z[Len(w) + 2] = comma[1] /\ Len(z) = Len(w) + Len(x) + 3 /\ z[Len(w) + Len(x) + 3] = close[1]
    BY <1>6, <1>7
<1>9. \A i \in 1 .. Len(w) : z[1 + i] = w[i]
    BY <1>6, <1>7
<1>10. \A i \in 1 .. Len(x) : z[Len(w) + 2 + i] = x[i]
  <2> SUFFICES ASSUME NEW i \in 1 .. Len(x) PROVE z[Len(w) + 2 + i] = x[i]
      OBVIOUS
  <2>1. Len(w) + 1 + i \in 1 .. Len(y) /\ 1 + (Len(w) + 1 + i) = Len(w) + 2 + i
      BY <1>6
  <2> QED BY <1>6, <1>7, <2>1
<1> QED BY <1>6, <1>7, <1>8, <1>9, <1>10 DEF Between

\* ... where both members have three lexemes.
LEMMA BetweenThree ==
    ASSUME NEW z, NEW a, NEW w, NEW b, NEW x, NEW c, Between(z, a, w, b, x, c),
           Len(w) = 3, Len(x) = 3
    PROVE  /\ Len(z) = 9 /\ z[1] = a /\ z[5] = b /\ z[9] = c
           /\ z[2] = w[1] /\ z[3] = w[2] /\ z[4] = w[3]
           /\ z[6] = x[1] /\ z[7] = x[2] /\ z[8] = x[3]
BY DEF Between

\* A closed text in braces.
LEMMA ClosedBraces ==
    ASSUME NEW style \in Styles, NEW a, NEW w, Closed(a, w), NEW b, NEW x, Closed(b, x)
    PROVE  \E z : /\ Closed((<<"{">> \o ((a \o Comma(style)) \o b)) \o <<"}">>, z)
                  /\ Between(z, ObjectOpens, w, Separator, x, ObjectCloses)
<1> DEFINE open == <<ObjectOpens>>
           close == <<ObjectCloses>>
           comma == <<Separator>>
<1>1. Closed(<<"{">>, open) /\ Closed(<<"}">>, close)
    BY ClosedMarks
<1>2. Closed(Comma(style), comma)
    BY ClosedComma
<1>3. /\ Len(open) = 1 /\ Len(close) = 1 /\ Len(comma) = 1
      /\ open[1] = ObjectOpens /\ close[1] = ObjectCloses /\ comma[1] = Separator
    OBVIOUS
<1> HIDE DEF open, close, comma
<1>4. PICK y : Closed((a \o Comma(style)) \o b, y) /\ Joined(y, w, comma, x)
    BY <1>2, ClosedThree
<1>5. PICK z : /\ Closed((<<"{">> \o ((a \o Comma(style)) \o b)) \o <<"}">>, z)
               /\ Joined(z, open, y, close)
    BY <1>1, <1>4, ClosedThree
<1>6. Between(z, open[1], w, comma[1], x, close[1])
    BY <1>3, <1>4, <1>5, JoinedBetween
<1> QED BY <1>3, <1>5, <1>6

\* An object is its two members, in either order.
LEMMA ClosedObject ==
    ASSUME NEW style \in Styles, NEW a, NEW w, Closed(a, w), NEW b, NEW x, Closed(b, x)
    PROVE  \E z : /\ Closed(Object(a, b, style), z)
                  /\ style.swap = FALSE => Between(z, ObjectOpens, w, Separator, x, ObjectCloses)
                  /\ style.swap = TRUE => Between(z, ObjectOpens, x, Separator, w, ObjectCloses)
<1>1. CASE style.swap = FALSE
  <2>1. Object(a, b, style) = (<<"{">> \o ((a \o Comma(style)) \o b)) \o <<"}">>
      BY <1>1 DEF Object
  <2>2. PICK z : Closed((<<"{">> \o ((a \o Comma(style)) \o b)) \o <<"}">>, z) /\ Between(z, ObjectOpens, w, Separator, x, ObjectCloses)
      BY ClosedBraces
  <2> QED BY <1>1, <2>1, <2>2
<1>2. CASE style.swap = TRUE
  <2>1. Object(a, b, style) = (<<"{">> \o ((b \o Comma(style)) \o a)) \o <<"}">>
      BY <1>2 DEF Object
  <2>2. PICK z : Closed((<<"{">> \o ((b \o Comma(style)) \o a)) \o <<"}">>, z) /\ Between(z, ObjectOpens, x, Separator, w, ObjectCloses)
      BY ClosedBraces
  <2> QED BY <1>2, <2>1, <2>2
<1> QED BY <1>1, <1>2 DEF Styles

\* The lexemes of an entry.
LEMMA ClosedEntry ==
    ASSUME NEW style \in Styles, NEW entry \in [k : Numbers, v : Values]
    PROVE  \E z : Closed(Entry(entry, style), z) /\ Len(z) = 9 /\ EntryAt(z, 0, entry, style)
<1> DEFINE key == <<Lexeme(entry.k)>>
           value == <<Str(entry.v)>>
<1>1. Closed(<<entry.k>>, key)
    BY ClosedToken, PlainTokens
<1>2. Closed(Str(entry.v), value)
    BY ClosedStr DEF Values
<1>3. Len(key) = 1 /\ key[1] = Lexeme(entry.k) /\ Len(value) = 1 /\ value[1] = Str(entry.v)
    OBVIOUS
<1>4. "k" \in Names /\ "v" \in Names
    BY DEF Names
<1> HIDE DEF key, value
<1>5. PICK m : /\ Closed(Member("k", <<entry.k>>, style), m)
               /\ Named(m, Name("k", style), Colon, key)
    BY <1>1, <1>4, ClosedMember
<1>6. PICK n : /\ Closed(Member("v", Str(entry.v), style), n)
               /\ Named(n, Name("v", style), Colon, value)
    BY <1>2, <1>4, ClosedMember
<1>7. /\ Len(m) = 3 /\ m[1] = Name("k", style) /\ m[2] = Colon /\ m[3] = Lexeme(entry.k)
      /\ Len(n) = 3 /\ n[1] = Name("v", style) /\ n[2] = Colon /\ n[3] = Str(entry.v)
    BY <1>3, <1>5, <1>6, NamedOne
<1>8. PICK z : /\ Closed(Entry(entry, style), z)
               /\ style.swap = FALSE => Between(z, ObjectOpens, m, Separator, n, ObjectCloses)
               /\ style.swap = TRUE => Between(z, ObjectOpens, n, Separator, m, ObjectCloses)
    BY <1>5, <1>6, ClosedObject DEF Entry
<1>9. Len(z) = 9 /\ EntryAt(z, 0, entry, style)
  <2>1. CASE style.swap = FALSE
    <3>1. /\ Len(z) = 9 /\ z[1] = ObjectOpens /\ z[5] = Separator /\ z[9] = ObjectCloses
          /\ z[2] = m[1] /\ z[3] = m[2] /\ z[4] = m[3]
          /\ z[6] = n[1] /\ z[7] = n[2] /\ z[8] = n[3]
      <4>1. Between(z, ObjectOpens, m, Separator, n, ObjectCloses)
          BY <1>8, <2>1
      <4>2. Len(m) = 3 /\ Len(n) = 3
          BY <1>7
      <4> QED BY <4>1, <4>2, BetweenThree
    <3>2. 0 + 1 = 1 /\ 0 + 2 = 2 /\ 0 + 3 = 3 /\ 0 + 4 = 4 /\ 0 + 5 = 5 /\ 0 + 6 = 6
          /\ 0 + 7 = 7 /\ 0 + 8 = 8 /\ 0 + 9 = 9
        OBVIOUS
    <3> QED BY <1>7, <2>1, <3>1, <3>2, Zenon DEF EntryAt
  <2>2. CASE style.swap = TRUE
    <3>1. /\ Len(z) = 9 /\ z[1] = ObjectOpens /\ z[5] = Separator /\ z[9] = ObjectCloses
          /\ z[2] = n[1] /\ z[3] = n[2] /\ z[4] = n[3]
          /\ z[6] = m[1] /\ z[7] = m[2] /\ z[8] = m[3]
      <4>1. Between(z, ObjectOpens, n, Separator, m, ObjectCloses)
          BY <1>8, <2>2
      <4>2. Len(m) = 3 /\ Len(n) = 3
          BY <1>7
      <4> QED BY <4>1, <4>2, BetweenThree
    <3>2. 0 + 1 = 1 /\ 0 + 2 = 2 /\ 0 + 3 = 3 /\ 0 + 4 = 4 /\ 0 + 5 = 5 /\ 0 + 6 = 6
          /\ 0 + 7 = 7 /\ 0 + 8 = 8 /\ 0 + 9 = 9
        OBVIOUS
    <3> QED BY <1>7, <2>2, <3>1, <3>2, Zenon DEF EntryAt
  <2> QED BY <2>1, <2>2 DEF Styles
<1> QED BY <1>8, <1>9

\* Where an entry or a list of entries stands does not matter.
LEMMA EntryMoved ==
    ASSUME NEW v, NEW w, NEW p \in Int, NEW o \in Int, NEW entry, NEW style,
           EntryAt(v, p, entry, style), \A j \in 1 .. 9 : w[o + j] = v[p + j]
    PROVE  EntryAt(w, o, entry, style)
<1>1. /\ w[o + 1] = v[p + 1] /\ w[o + 2] = v[p + 2] /\ w[o + 3] = v[p + 3]
      /\ w[o + 4] = v[p + 4] /\ w[o + 5] = v[p + 5] /\ w[o + 6] = v[p + 6]
      /\ w[o + 7] = v[p + 7] /\ w[o + 8] = v[p + 8] /\ w[o + 9] = v[p + 9]
    OBVIOUS
<1> QED BY <1>1, Zenon DEF EntryAt

\* How long a list of n entries is.
LEMMA SpanOf ==
    ASSUME NEW n \in Nat
    PROVE  /\ Span(n) \in Nat /\ Span(n) >= 2
           /\ \A i \in 1 .. n : 10 * i + 1 <= Span(n)
           /\ \A m \in Nat : Span(m) = Span(n) => m = n
BY DEF Span

\* A list of entries elsewhere.
LEMMA EntriesMoved ==
    ASSUME NEW v, NEW w, NEW p \in Int, NEW o \in Int, NEW entries \in EntryLists, NEW style,
           EntriesAt(v, p, entries, style),
           \A j \in 1 .. Span(Len(entries)) : w[o + j] = v[p + j]
    PROVE  EntriesAt(w, o, entries, style)
<1> DEFINE n == Len(entries)
<1>1. n \in Nat
    BY LenProperties DEF EntryLists
<1> HIDE DEF n
<1>2. Span(n) \in Nat /\ Span(n) >= 2 /\ \A i \in 1 .. n : 10 * i + 1 <= Span(n)
    BY <1>1, SpanOf
<1>3. \A j \in 1 .. Span(n) : w[o + j] = v[p + j]
    BY DEF n
<1>4. w[o + 1] = v[p + 1] /\ w[o + Span(n)] = v[p + Span(n)]
    BY <1>2, <1>3
<1>5. ASSUME NEW i \in 2 .. n PROVE w[o + 10 * i - 9] = Separator
  <2>1. 10 * i - 9 \in 1 .. Span(n) /\ o + (10 * i - 9) = o + 10 * i - 9
        /\ p + (10 * i - 9) = p + 10 * i - 9
      BY <1>1, <1>2
  <2>2. v[p + 10 * i - 9] = Separator
      BY DEF EntriesAt, n
  <2> QED BY <1>3, <2>1, <2>2
<1>6. ASSUME NEW i \in 1 .. n PROVE EntryAt(w, o + 10 * i - 9, entries[i], style)
  <2>1. EntryAt(v, p + 10 * i - 9, entries[i], style)
      BY DEF EntriesAt, n
  <2>2. ASSUME NEW j \in 1 .. 9 PROVE w[(o + 10 * i - 9) + j] = v[(p + 10 * i - 9) + j]
    <3>1. 10 * i - 9 + j \in 1 .. Span(n) /\ o + (10 * i - 9 + j) = (o + 10 * i - 9) + j
          /\ p + (10 * i - 9 + j) = (p + 10 * i - 9) + j
        BY <1>1, <1>2
    <3> QED BY <1>3, <3>1
  <2>3. o + 10 * i - 9 \in Int /\ p + 10 * i - 9 \in Int
      BY <1>1
  <2> QED BY <2>1, <2>2, <2>3, EntryMoved
<1>7. v[p + 1] = ArrayOpens /\ v[p + Span(n)] = ArrayCloses
    BY DEF EntriesAt, n
<1> QED BY <1>4, <1>5, <1>6, <1>7 DEF EntriesAt, n

\* The first k entries and the commas between them.
FirstEntries(w, k, entries, style) ==
    /\ Len(w) = IF k = 0 THEN 0 ELSE 10 * k - 1
    /\ \A i \in 2 .. k : w[10 * i - 10] = Separator
    /\ \A i \in 1 .. k : EntryAt(w, 10 * i - 10, entries[i], style)

\* One entry after the first k.
LEMMA OneMoreEntry ==
    ASSUME NEW w \in Seq(Texts), NEW u \in Seq(Texts), NEW z, NEW k \in Nat, NEW entries, NEW style,
           FirstEntries(w, k, entries, style),
           EntryAt(z, 0, entries[k + 1], style),
           k = 0 => Len(u) = 9 /\ \A j \in 1 .. 9 : u[j] = z[j],
           k # 0 => Len(u) = 10 /\ u[1] = Separator /\ \A j \in 1 .. 9 : u[1 + j] = z[j]
    PROVE  FirstEntries(w \o u, k + 1, entries, style)
<1> DEFINE x == w \o u
           l == Len(w)
           m == Len(u)
<1>1. /\ Len(x) = l + m /\ l \in Nat /\ m \in Nat
      /\ \A i \in 1 .. l + m : x[i] = IF i <= l THEN w[i] ELSE u[i - l]
    BY ConcatProperties, LenProperties
<1>2. l = IF k = 0 THEN 0 ELSE 10 * k - 1
    BY DEF FirstEntries
<1>2a. m = IF k = 0 THEN 9 ELSE 10
    OBVIOUS
<1> HIDE DEF x, l, m
<1>3. Len(x) = 10 * (k + 1) - 1
    BY <1>1, <1>2, <1>2a
<1>4. \A i \in 1 .. l : x[i] = w[i]
    BY <1>1, SMTT(30)
<1>5. \A j \in 1 .. 9 : x[10 * k + j] = z[j]
  <2>1. CASE k = 0
      BY <1>1, <1>2, <1>2a, <2>1
  <2>2. CASE k # 0
    <3> SUFFICES ASSUME NEW j \in 1 .. 9 PROVE x[10 * k + j] = z[j]
        OBVIOUS
    <3>1. PICK p \in Int : p = 10 * k + j
        OBVIOUS
    <3>2. p \in 1 .. l + m /\ ~(p <= l) /\ p - l = 1 + j
        BY <1>2, <1>2a, <2>2, <3>1
    <3>3. \A i \in 1 .. l + m : x[i] = IF i <= l THEN w[i] ELSE u[i - l]
        BY <1>1
    <3>4. x[p] = u[p - l]
        BY <3>2, <3>3, Zenon
    <3>5. x[p] = u[1 + j] /\ u[1 + j] = z[j]
        BY <2>2, <3>2, <3>4
    <3> QED BY <3>1, <3>5
  <2> QED BY <2>1, <2>2
<1>6. ASSUME NEW i \in 2 .. k + 1 PROVE x[10 * i - 10] = Separator
  <2>1. CASE i = k + 1
    <3>1. 10 * i - 10 = l + 1 /\ k # 0 /\ l + 1 \in 1 .. l + m /\ l + 1 - l = 1 /\ l + 1 > l
        BY <1>1, <1>2, <1>2a, <2>1
    <3>2. x[l + 1] = IF l + 1 <= l THEN w[l + 1] ELSE u[l + 1 - l]
        BY <1>1, <3>1
    <3>3. ~(l + 1 <= l) /\ l + 1 - l = 1
        BY <1>1
    <3> QED BY <3>1, <3>2, <3>3
  <2>2. CASE i # k + 1
    <3>0. k # 0 /\ i <= k /\ i >= 2 /\ i \in Int /\ k \in Int
        BY <2>2
    <3>1. i \in 2 .. k /\ 10 * i - 10 \in 1 .. l
        BY <1>2, <3>0
    <3> QED BY <1>4, <3>1 DEF FirstEntries
  <2> QED BY <2>1, <2>2
<1>7. ASSUME NEW i \in 1 .. k + 1 PROVE EntryAt(x, 10 * i - 10, entries[i], style)
  <2>1. CASE i = k + 1
    <3>1. 10 * i - 10 = 10 * k /\ 10 * k \in Int
        BY <2>1
    <3>2. \A j \in 1 .. 9 : x[10 * k + j] = z[0 + j]
      <4>1. \A j \in 1 .. 9 : 0 + j = j
          OBVIOUS
      <4> QED BY <1>5, <4>1
    <3>3. EntryAt(x, 10 * k, entries[k + 1], style)
        BY <3>1, <3>2, EntryMoved
    <3> QED BY <2>1, <3>1, <3>3
  <2>2. CASE i # k + 1
    <3>1. i \in 1 .. k /\ 10 * i - 10 \in Int
        BY <2>2
    <3>2. \A j \in 1 .. 9 : x[10 * i - 10 + j] = w[10 * i - 10 + j]
      <4>1. \A j \in 1 .. 9 : 10 * i - 10 + j \in 1 .. l
        <5>1. k # 0 /\ i <= k /\ l = 10 * k - 1 /\ i \in Int /\ i >= 1
            BY <1>2, <3>1
        <5> QED BY <5>1
      <4> QED BY <1>4, <4>1
    <3>3. EntryAt(w, 10 * i - 10, entries[i], style)
        BY <3>1 DEF FirstEntries
    <3> QED BY <3>1, <3>2, <3>3, EntryMoved
  <2> QED BY <2>1, <2>2
<1>8. k + 1 # 0
    OBVIOUS
<1> QED BY <1>3, <1>6, <1>7, <1>8 DEF FirstEntries, x

\* The lexemes of a list of entries, by induction over the entries.
LEMMA ClosedEntries ==
    ASSUME NEW style \in Styles, NEW entries \in EntryLists
    PROVE  \E z : /\ Closed(Entries(entries, style), z)
                  /\ Len(z) = Span(Len(entries)) /\ EntriesAt(z, 0, entries, style)
<1> DEFINE n == Len(entries)
           items == [i \in DOMAIN entries |-> Entry(entries[i], style)]
           pieces == [i \in DOMAIN items |-> IF i = 1 THEN items[i] ELSE Comma(style) \o items[i]]
<1>1. n \in Nat /\ DOMAIN entries = 1 .. n /\ \A i \in 1 .. n : entries[i] \in [k : Numbers, v : Values]
    BY ElementOfSeq, LenProperties DEF EntryLists
<1>2. Entries(entries, style) = (<<"[">> \o FlattenSeq(pieces)) \o <<"]">>
    BY DEF Entries, Array
<1>3. \A i \in 1 .. n : pieces[i] = IF i = 1 THEN Entry(entries[i], style)
                                   ELSE Comma(style) \o Entry(entries[i], style)
    BY <1>1
<1>4. pieces = [i \in 1 .. n |-> pieces[i]]
    BY <1>1
<1> HIDE DEF n, items, pieces
<1>5. ASSUME NEW i \in 1 .. n
      PROVE  \E u, z : /\ Closed(pieces[i], u) /\ EntryAt(z, 0, entries[i], style)
                       /\ i = 1 => Len(u) = 9 /\ \A j \in 1 .. 9 : u[j] = z[j]
                       /\ i # 1 => Len(u) = 10 /\ u[1] = Separator /\ \A j \in 1 .. 9 : u[1 + j] = z[j]
  <2>1. PICK z : Closed(Entry(entries[i], style), z) /\ Len(z) = 9 /\ EntryAt(z, 0, entries[i], style)
      BY <1>1, ClosedEntry
  <2>2. CASE i = 1
      BY <1>3, <2>1, <2>2
  <2>3. CASE i # 1
    <3> DEFINE s == <<Separator>>
               u == s \o z
    <3>1. Closed(pieces[i], u) /\ s \in Seq(Texts) /\ z \in Seq(Texts)
      <4>1. Closed(Comma(style), s)
          BY ClosedComma
      <4>2. Closed(Comma(style) \o Entry(entries[i], style), u)
          BY <2>1, <4>1, ClosedConcat
      <4> QED BY <1>3, <2>1, <2>3, <4>1, <4>2 DEF Closed
    <3>2. Len(s) = 1 /\ s[1] = Separator
        OBVIOUS
    <3> HIDE DEF s
    <3>2a. Len(u) = Len(s) + Len(z)
           /\ \A j \in 1 .. Len(s) + Len(z) : u[j] = IF j <= Len(s) THEN s[j] ELSE z[j - Len(s)]
        BY <3>1, ConcatProperties
    <3> HIDE DEF u
    <3>3. Len(u) = 10 /\ \A j \in 1 .. 10 : u[j] = IF j <= 1 THEN s[j] ELSE z[j - 1]
        BY <2>1, <3>2, <3>2a
    <3>4. u[1] = Separator
        BY <3>2, <3>3
    <3>5. \A j \in 1 .. 9 : u[1 + j] = z[j]
        BY <3>3
    <3>6. Len(u) = 10
        BY <3>3
    <3>7. /\ Closed(pieces[i], u) /\ EntryAt(z, 0, entries[i], style)
          /\ i = 1 => Len(u) = 9 /\ \A j \in 1 .. 9 : u[j] = z[j]
          /\ i # 1 => Len(u) = 10 /\ u[1] = Separator /\ \A j \in 1 .. 9 : u[1 + j] = z[j]
        BY <2>1, <2>3, <3>1, <3>4, <3>5, <3>6
    <3> WITNESS u, z
    <3> QED BY <3>7
  <2> QED BY <2>2, <2>3
<1>6. pieces \in Seq(Texts) /\ Len(pieces) = n
  <2>1. \A i \in 1 .. n : pieces[i] \in Texts
      BY <1>5 DEF Closed
  <2>2. pieces \in [1 .. n -> Texts]
      BY <1>4, <2>1
  <2> QED BY <1>1, <2>2
<1>7. PICK f : /\ f[0] = <<>>
               /\ \A k \in 1 .. n : f[k] = f[k - 1] \o pieces[k]
               /\ FlattenSeq(pieces) = f[n]
    BY <1>6, Flattened
<1> DEFINE T == {k \in Nat : k <= n =>
                   \E w : Closed(f[k], w) /\ FirstEntries(w, k, entries, style)}
<1>8. 0 \in T
  <2>1. Closed(f[0], <<>>)
      BY <1>7, ClosedEmpty
  <2>2. FirstEntries(<<>>, 0, entries, style)
      BY DEF FirstEntries
  <2> QED BY <2>1, <2>2
<1>9. ASSUME NEW k \in Nat, k \in T PROVE k + 1 \in T
  <2> SUFFICES ASSUME k + 1 <= n
               PROVE  \E w : Closed(f[k + 1], w) /\ FirstEntries(w, k + 1, entries, style)
      OBVIOUS
  <2>1. PICK w : Closed(f[k], w) /\ FirstEntries(w, k, entries, style)
      BY <1>1, <1>9
  <2>2. k + 1 \in 1 .. n /\ (k + 1) - 1 = k /\ (k + 1 = 1 <=> k = 0)
      BY <1>1
  <2>3. PICK u, z : /\ Closed(pieces[k + 1], u) /\ EntryAt(z, 0, entries[k + 1], style)
                    /\ k = 0 => Len(u) = 9 /\ \A j \in 1 .. 9 : u[j] = z[j]
                    /\ k # 0 => Len(u) = 10 /\ u[1] = Separator /\ \A j \in 1 .. 9 : u[1 + j] = z[j]
      BY <1>5, <2>2
  <2>4. Closed(f[k + 1], w \o u)
    <3>1. f[k + 1] = f[k] \o pieces[k + 1]
        BY <1>7, <2>2
    <3> QED BY <2>1, <2>3, <3>1, ClosedConcat
  <2>5. w \in Seq(Texts) /\ u \in Seq(Texts)
      BY <2>1, <2>3 DEF Closed
  <2>6. FirstEntries(w \o u, k + 1, entries, style)
      BY <2>1, <2>3, <2>5, OneMoreEntry
  <2> QED BY <2>4, <2>6
<1>10. PICK w : Closed(f[n], w) /\ FirstEntries(w, n, entries, style)
  <2> HIDE DEF T
  <2>1. Nat \subseteq T
      BY <1>8, <1>9, NatSetInduction
  <2>2. n \in T
      BY <1>1, <2>1
  <2> QED BY <1>1, <2>2 DEF T
<1> DEFINE open == <<ArrayOpens>>
           close == <<ArrayCloses>>
<1>11. Closed(<<"[">>, open) /\ Closed(<<"]">>, close)
    BY ClosedMarks
<1>12. Len(open) = 1 /\ open[1] = ArrayOpens /\ Len(close) = 1 /\ close[1] = ArrayCloses
    OBVIOUS
<1> HIDE DEF open, close
<1>13. PICK z : Closed((<<"[">> \o f[n]) \o <<"]">>, z) /\ Joined(z, open, w, close)
    BY <1>10, <1>11, ClosedThree
<1>14. /\ Len(z) = Len(w) + 2 /\ z[1] = ArrayOpens /\ z[Len(w) + 2] = ArrayCloses
       /\ \A i \in 1 .. Len(w) : z[1 + i] = w[i]
    BY <1>12, <1>13 DEF Joined
<1>15. Len(w) = IF n = 0 THEN 0 ELSE 10 * n - 1
    BY <1>10 DEF FirstEntries
<1>16. Len(w) + 2 = Span(n)
    BY <1>1, <1>15 DEF Span
<1>17. ASSUME NEW i \in 2 .. n PROVE z[0 + 10 * i - 9] = Separator
  <2>1. 10 * i - 10 \in 1 .. Len(w) /\ 0 + 10 * i - 9 = 1 + (10 * i - 10)
      BY <1>1, <1>15
  <2>2. w[10 * i - 10] = Separator
      BY <1>10 DEF FirstEntries
  <2> QED BY <1>14, <2>1, <2>2
<1>18. ASSUME NEW i \in 1 .. n PROVE EntryAt(z, 0 + 10 * i - 9, entries[i], style)
  <2>1. EntryAt(w, 10 * i - 10, entries[i], style)
      BY <1>10 DEF FirstEntries
  <2>2. ASSUME NEW j \in 1 .. 9 PROVE z[0 + 10 * i - 9 + j] = w[10 * i - 10 + j]
    <3>1. 10 * i - 10 + j \in 1 .. Len(w) /\ 0 + 10 * i - 9 + j = 1 + (10 * i - 10 + j)
        BY <1>1, <1>15
    <3> QED BY <1>14, <3>1
  <2>3. 0 + 10 * i - 9 \in Int /\ 10 * i - 10 \in Int
      BY <1>1
  <2> QED BY <2>1, <2>2, <2>3, EntryMoved
<1>19. 0 + 1 = 1 /\ 0 + Span(n) = Span(n)
    BY <1>1, SpanOf
<1>20. EntriesAt(z, 0, entries, style)
    BY <1>14, <1>16, <1>17, <1>18, <1>19 DEF EntriesAt, n
<1> QED BY <1>2, <1>7, <1>13, <1>14, <1>16, <1>20 DEF n

\* The lexemes of a report.
LEMMA ClosedReport ==
    ASSUME NEW style \in Styles, NEW report \in [version : Values, ek : EntryLists]
    PROVE  \E z : Closed(Report(report, style), z) /\ ReportIs(z, report, style)
<1> DEFINE value == <<Str(report.version)>>
           N == Span(Len(report.ek))
<1>1. Closed(Str(report.version), value)
    BY ClosedStr DEF Values
<1>2. Len(value) = 1 /\ value[1] = Str(report.version)
    OBVIOUS
<1>3. "version" \in Names /\ "ek" \in Names
    BY DEF Names
<1> HIDE DEF value
<1>4. PICK list : /\ Closed(Entries(report.ek, style), list)
                  /\ Len(list) = N /\ EntriesAt(list, 0, report.ek, style)
    BY ClosedEntries
<1>5. PICK m : /\ Closed(Member("version", Str(report.version), style), m)
               /\ Named(m, Name("version", style), Colon, value)
    BY <1>1, <1>3, ClosedMember
<1>6. PICK n : /\ Closed(Member("ek", Entries(report.ek, style), style), n)
               /\ Named(n, Name("ek", style), Colon, list)
    BY <1>3, <1>4, ClosedMember
<1>7. /\ Len(m) = 3 /\ m[1] = Name("version", style) /\ m[2] = Colon /\ m[3] = Str(report.version)
    BY <1>2, <1>5, NamedOne
<1>8. /\ Len(n) = N + 2 /\ n[1] = Name("ek", style) /\ n[2] = Colon
      /\ \A i \in 1 .. N : n[i + 2] = list[i]
    BY <1>4, <1>6 DEF Named
<1>9. N \in Nat /\ N >= 2
    BY LenProperties, SpanOf DEF EntryLists
<1>10. PICK z : /\ Closed(Report(report, style), z)
                /\ style.swap = FALSE => Between(z, ObjectOpens, m, Separator, n, ObjectCloses)
                /\ style.swap = TRUE => Between(z, ObjectOpens, n, Separator, m, ObjectCloses)
    BY <1>5, <1>6, ClosedObject DEF Report
<1>11. PICK ek \in EntryLists : ek = report.ek
    OBVIOUS
<1>11a. EntriesAt(list, 0, ek, style) /\ N = Span(Len(ek))
    BY <1>4, <1>11
<1> HIDE DEF N
<1>12. CASE style.swap = FALSE
  <2>1. Between(z, ObjectOpens, m, Separator, n, ObjectCloses)
      BY <1>10, <1>12
  <2>2. /\ Len(z) = N + 8 /\ z[1] = ObjectOpens /\ z[5] = Separator /\ z[N + 8] = ObjectCloses
        /\ z[2] = m[1] /\ z[3] = m[2] /\ z[4] = m[3]
        /\ \A i \in 1 .. N + 2 : z[5 + i] = n[i]
      BY <1>7, <1>8, <1>9, <2>1 DEF Between
  <2>3. z[6] = n[1] /\ z[7] = n[2]
      BY <1>9, <2>2
  <2>4. \A i \in 1 .. N : z[7 + i] = list[0 + i]
    <3> SUFFICES ASSUME NEW i \in 1 .. N PROVE z[7 + i] = list[0 + i]
        OBVIOUS
    <3>1. i + 2 \in 1 .. N + 2 /\ 5 + (i + 2) = 7 + i /\ 0 + i = i
        BY <1>9
    <3> QED BY <1>8, <2>2, <3>1
  <2>5. EntriesAt(z, 7, report.ek, style)
    <3>1. \A i \in 1 .. Span(Len(ek)) : z[7 + i] = list[0 + i]
        BY <1>11a, <2>4
    <3>2. EntriesAt(z, 7, ek, style)
        BY <1>11a, <3>1, EntriesMoved, SMTT(30)
    <3> QED BY <1>11, <3>2
  <2>6. ReportIs(z, report, style)
      BY <1>7, <1>8, <1>12, <2>2, <2>3, <2>5, Zenon DEF ReportIs, N
  <2> QED BY <1>10, <2>6
<1>13. CASE style.swap = TRUE
  <2>1. Between(z, ObjectOpens, n, Separator, m, ObjectCloses)
      BY <1>10, <1>13
  <2>2. /\ Len(z) = N + 8 /\ z[1] = ObjectOpens /\ z[N + 4] = Separator /\ z[N + 8] = ObjectCloses
        /\ \A i \in 1 .. N + 2 : z[1 + i] = n[i]
        /\ \A i \in 1 .. 3 : z[(N + 4) + i] = m[i]
      BY <1>7, <1>8, <1>9, <2>1 DEF Between
  <2>3. /\ z[2] = n[1] /\ z[3] = n[2]
        /\ z[N + 5] = m[1] /\ z[N + 6] = m[2] /\ z[N + 7] = m[3]
    <3>1. z[2] = n[1] /\ z[3] = n[2]
        BY <1>9, <2>2
    <3>2. z[(N + 4) + 1] = m[1] /\ z[(N + 4) + 2] = m[2] /\ z[(N + 4) + 3] = m[3]
        BY <2>2
    <3>3. (N + 4) + 1 = N + 5 /\ (N + 4) + 2 = N + 6 /\ (N + 4) + 3 = N + 7
        BY <1>9
    <3> QED BY <3>1, <3>2, <3>3
  <2>4. \A i \in 1 .. N : z[3 + i] = list[0 + i]
    <3> SUFFICES ASSUME NEW i \in 1 .. N PROVE z[3 + i] = list[0 + i]
        OBVIOUS
    <3>1. i + 2 \in 1 .. N + 2 /\ 1 + (i + 2) = 3 + i /\ 0 + i = i
        BY <1>9
    <3> QED BY <1>8, <2>2, <3>1
  <2>5. EntriesAt(z, 3, report.ek, style)
    <3>1. \A i \in 1 .. Span(Len(ek)) : z[3 + i] = list[0 + i]
        BY <1>11a, <2>4
    <3>2. EntriesAt(z, 3, ek, style)
        BY <1>11a, <3>1, EntriesMoved, SMTT(30)
    <3> QED BY <1>11, <3>2
  <2>6. ReportIs(z, report, style)
      BY <1>7, <1>8, <1>13, <2>2, <2>3, <2>5, Zenon DEF ReportIs, N
  <2> QED BY <1>10, <2>6
<1> QED BY <1>12, <1>13 DEF Styles

-----------------------------------------------------------------------------
(* What tells lexemes apart.                                               *)

\* A name in quotes, as a lexeme.
QuotedName(name) == <<Quote, name, Quote>>

\* A name without quotes; a lexeme that is neither that nor a zero byte.
Bare(x) == \E name \in Names : x = Lexeme(name)
Inert(x) == x # Lexeme(Nul) /\ ~Bare(x)

\* A lexeme of one token.
LEMMA LexemeFacts ==
    ASSUME NEW t
    PROVE  Len(Lexeme(t)) = 1 /\ \A u : Lexeme(u) = Lexeme(t) => u = t
BY DEF Lexeme

\* A string, and the value it is the string of.
LEMMA StrFacts ==
    ASSUME NEW c \in Values
    PROVE  /\ Str(c) \in Texts /\ Len(c) \in Nat /\ Len(Str(c)) = Len(c) + 2
           /\ SubSeq(Str(c), 2, Len(Str(c)) - 1) = c
<1> DEFINE s == Str(c)
           q == <<Quote>>
           a == q \o c
           n == Len(c)
<1>1. c \in Texts /\ q \in Texts /\ Len(q) = 1 /\ n \in Nat
  <2>1. c \in Seq(Tokens)
    <3>1. Tokens \ {Quote, Nul} \subseteq Tokens
        OBVIOUS
    <3> QED BY <3>1, SeqMonotonic DEF Values
  <2>2. q \in Texts
      BY AppendOne, SpecialTokens, EmptySeq DEF Texts
  <2> QED BY <2>1, <2>2, LenProperties DEF Texts
<1>2. s = a \o q
    BY DEF Str
<1> HIDE DEF q, s, n
<1>3. a \in Texts /\ Len(a) = n + 1 /\ \A i \in 1 .. n + 1 : a[i] = IF i <= 1 THEN q[i] ELSE c[i - 1]
  <2>1. /\ a \in Texts /\ Len(a) = Len(q) + Len(c)
        /\ \A i \in 1 .. Len(q) + Len(c) : a[i] = IF i <= Len(q) THEN q[i] ELSE c[i - Len(q)]
      BY <1>1, ConcatProperties DEF Texts
  <2>2. Len(q) + Len(c) = n + 1
      BY <1>1 DEF n
  <2> HIDE DEF a
  <2> QED BY <1>1, <2>1, <2>2
<1> HIDE DEF a
<1>4. s \in Texts /\ Len(s) = n + 2 /\ \A i \in 1 .. n + 2 : s[i] = IF i <= n + 1 THEN a[i] ELSE q[i - (n + 1)]
  <2>1. /\ s \in Texts /\ Len(s) = Len(a) + Len(q)
        /\ \A i \in 1 .. Len(a) + Len(q) : s[i] = IF i <= Len(a) THEN a[i] ELSE q[i - Len(a)]
      BY <1>1, <1>2, <1>3, ConcatProperties DEF Texts
  <2>2. Len(a) + Len(q) = n + 2
      BY <1>1, <1>3
  <2> QED BY <1>1, <1>3, <2>1, <2>2
<1>5. \A i \in 1 .. n : s[i + 1] = c[i]
    BY <1>1, <1>3, <1>4
<1> DEFINE b == SubSeq(s, 2, n + 1)
<1>6. b \in Seq(Tokens) /\ Len(b) = n /\ \A i \in 1 .. n : b[i] = s[i + 1]
  <2>1. 2 \in 1 .. Len(s) + 1 /\ n + 1 \in 0 .. Len(s) /\ s \in Seq(Tokens)
      BY <1>1, <1>4 DEF Texts
  <2>2. (n + 1) - 2 + 1 = n /\ \A i \in 1 .. n : 2 + i - 1 = i + 1
      BY <1>1
  <2> QED BY <1>1, <2>1, <2>2, SubSeqProperties
<1> HIDE DEF b
<1>7. b = c
    BY <1>1, <1>5, <1>6, SeqEqual DEF Texts, n
<1>8. Len(s) - 1 = n + 1
    BY <1>1, <1>4
<1> QED BY <1>1, <1>4, <1>7, <1>8 DEF b, s, n

\* The lexemes that no repair changes.
LEMMA InertLexemes ==
    /\ Inert(ObjectOpens) /\ Inert(ObjectCloses) /\ Inert(ArrayOpens) /\ Inert(ArrayCloses)
    /\ Inert(Colon) /\ Inert(Separator)
    /\ \A k \in Numbers : Inert(Lexeme(k))
    /\ \A c \in Values : Inert(Str(c))
<1>1. ASSUME NEW t, t # Nul, t \notin Names PROVE Inert(Lexeme(t))
    BY <1>1, LexemeFacts DEF Inert, Bare
<1>2. ASSUME NEW t \in Marks PROVE t # Nul /\ t \notin Names
    BY DEF Marks, Nul, Names
<1>3. \A t \in Marks : Inert(Lexeme(t))
    BY <1>1, <1>2
<1>4. "{" \in Marks /\ "}" \in Marks /\ "[" \in Marks /\ "]" \in Marks /\ ":" \in Marks /\ "," \in Marks
    BY DEF Marks
<1>5. ASSUME NEW k \in Numbers PROVE Inert(Lexeme(k))
  <2>1. k \notin Names /\ k # Nul
      BY NumbersAssumption
  <2> QED BY <1>1, <2>1
<1>6. ASSUME NEW c \in Values PROVE Inert(Str(c))
  <2>1. Len(Str(c)) # 1
    <3>1. Len(Str(c)) = Len(c) + 2 /\ Len(c) \in Nat
        BY StrFacts
    <3> QED BY <3>1
  <2> QED BY <2>1, LexemeFacts DEF Inert, Bare
<1>7. /\ Inert(ObjectOpens) /\ Inert(ObjectCloses) /\ Inert(ArrayOpens) /\ Inert(ArrayCloses)
      /\ Inert(Colon) /\ Inert(Separator)
    BY <1>3, <1>4, Zenon DEF ObjectOpens, ObjectCloses, ArrayOpens, ArrayCloses, Colon, Separator
<1> QED BY <1>5, <1>6, <1>7

\* A name as a lexeme, in every style.
LEMMA NameFacts ==
    ASSUME NEW name \in Names
    PROVE  /\ Len(QuotedName(name)) = 3 /\ Inert(QuotedName(name))
           /\ \A other : QuotedName(other) = QuotedName(name) => other = name
           /\ \A style \in Styles :
                 /\ Name(name, style) # Lexeme(Nul)
                 /\ Bare(Name(name, style)) => style.bare # {}
                 /\ name \in style.bare => Name(name, style) = Lexeme(name)
                 /\ name \notin style.bare => Name(name, style) = QuotedName(name)
<1>1. Len(QuotedName(name)) = 3 /\ \A other : QuotedName(other) = QuotedName(name) => other = name
  <2>1. Len(QuotedName(name)) = 3 /\ \A other : QuotedName(other)[2] = other
      BY DEF QuotedName
  <2> QED BY <2>1
<1>2. Inert(QuotedName(name))
    BY <1>1, LexemeFacts DEF Inert, Bare
<1>3. ASSUME NEW style \in Styles
      PROVE /\ name \in style.bare => Name(name, style) = Lexeme(name)
            /\ name \notin style.bare => Name(name, style) = QuotedName(name)
    BY DEF Name, Lexeme, QuotedName
<1>4. Lexeme(name) # Lexeme(Nul)
  <2>1. name # Nul
      BY DEF Names, Nul
  <2> QED BY <2>1, LexemeFacts
<1> QED BY <1>1, <1>2, <1>3, <1>4 DEF Inert

\* No zero byte, and no name without quotes but where the style has one: not
\* at the beginning of an array.
InPlace(w, j, style) ==
    /\ w[j] # Lexeme(Nul)
    /\ Bare(w[j]) => style.bare # {} /\ w[j - 1] # ArrayOpens

\* The lexemes of an entry are in place, and one opens an object.
LEMMA EntryInPlace ==
    ASSUME NEW w, NEW o \in Int, NEW entry \in [k : Numbers, v : Values], NEW style \in Styles,
           EntryAt(w, o, entry, style), NEW d \in 1 .. 9
    PROVE  InPlace(w, o + d, style) /\ (w[o + d] = ObjectOpens <=> d = 1)
<1>1. "k" \in Names /\ "v" \in Names
    BY DEF Names
<1>2. \A name \in Names : /\ Name(name, style) # Lexeme(Nul)
                          /\ Bare(Name(name, style)) => style.bare # {}
                          /\ Name(name, style) # ObjectOpens
  <2> SUFFICES ASSUME NEW name \in Names
               PROVE  /\ Name(name, style) # Lexeme(Nul)
                      /\ Bare(Name(name, style)) => style.bare # {}
                      /\ Name(name, style) # ObjectOpens
      OBVIOUS
  <2>1. ~Bare(ObjectOpens) /\ Len(ObjectOpens) = 1
      BY InertLexemes, LexemeFacts DEF Inert, ObjectOpens
  <2>2. Name(name, style) = Lexeme(name) \/ Len(Name(name, style)) = 3
      BY NameFacts
  <2>3. Lexeme(name) # ObjectOpens
      BY <2>1 DEF Bare
  <2>4. Name(name, style) # ObjectOpens
      BY <2>1, <2>2, <2>3
  <2> QED BY <2>4, NameFacts
<1>3. /\ Inert(ObjectOpens) /\ Inert(ObjectCloses) /\ Inert(Colon) /\ Inert(Separator)
      /\ Inert(Lexeme(entry.k)) /\ Inert(Str(entry.v))
    BY InertLexemes
<1>4. /\ ObjectCloses # ObjectOpens /\ Colon # ObjectOpens /\ Separator # ObjectOpens
      /\ Lexeme(entry.k) # ObjectOpens /\ Str(entry.v) # ObjectOpens
      /\ ObjectOpens # ArrayOpens /\ Separator # ArrayOpens
  <2>1. /\ ObjectCloses # ObjectOpens /\ Colon # ObjectOpens /\ Separator # ObjectOpens
        /\ ObjectOpens # ArrayOpens /\ Separator # ArrayOpens
      BY DEF ObjectOpens, ObjectCloses, Colon, Separator, ArrayOpens, Lexeme
  <2>2. Lexeme(entry.k) # ObjectOpens
    <3>1. entry.k # "{"
        BY NumbersAssumption DEF Marks
    <3> QED BY <3>1, LexemeFacts DEF ObjectOpens
  <2>3. Str(entry.v) # ObjectOpens
    <3>1. PICK v \in Values : v = entry.v
        OBVIOUS
    <3>2. Len(Str(v)) = Len(v) + 2 /\ Len(v) \in Nat
        BY StrFacts
    <3>3. Len(ObjectOpens) = 1
        BY LexemeFacts DEF ObjectOpens
    <3>4. Str(v) # ObjectOpens
        BY <3>2, <3>3
    <3> QED BY <3>1, <3>4
  <2> QED BY <2>1, <2>2, <2>3
<1>5. /\ w[o + 1] = ObjectOpens /\ w[o + 9] = ObjectCloses
      /\ w[o + 3] = Colon /\ w[o + 5] = Separator /\ w[o + 7] = Colon
    BY DEF EntryAt
<1>6. \/ /\ w[o + 2] = Name("k", style) /\ w[o + 4] = Lexeme(entry.k)
         /\ w[o + 6] = Name("v", style) /\ w[o + 8] = Str(entry.v)
      \/ /\ w[o + 2] = Name("v", style) /\ w[o + 4] = Str(entry.v)
         /\ w[o + 6] = Name("k", style) /\ w[o + 8] = Lexeme(entry.k)
  <2>1. style.swap = FALSE \/ style.swap = TRUE
      BY DEF Styles
  <2> QED BY <2>1 DEF EntryAt
<1>7. (o + 2) - 1 = o + 1 /\ (o + 6) - 1 = o + 5
    OBVIOUS
<1>8. InPlace(w, o + 2, style) /\ InPlace(w, o + 6, style) /\ w[o + 2] # ObjectOpens /\ w[o + 6] # ObjectOpens
    BY <1>1, <1>2, <1>4, <1>5, <1>6, <1>7 DEF InPlace
<1>9. /\ Inert(w[o + 1]) /\ Inert(w[o + 3]) /\ Inert(w[o + 4]) /\ Inert(w[o + 5])
      /\ Inert(w[o + 7]) /\ Inert(w[o + 8]) /\ Inert(w[o + 9])
      /\ w[o + 1] = ObjectOpens /\ w[o + 3] # ObjectOpens /\ w[o + 4] # ObjectOpens /\ w[o + 5] # ObjectOpens
      /\ w[o + 7] # ObjectOpens /\ w[o + 8] # ObjectOpens /\ w[o + 9] # ObjectOpens
    BY <1>3, <1>4, <1>5, <1>6, ZenonT(20)
<1>10. \A x \in {1, 3, 4, 5, 7, 8, 9} : Inert(w[o + x]) /\ (w[o + x] = ObjectOpens <=> x = 1)
    BY <1>9
<1>11. \A x \in {2, 6} : InPlace(w, o + x, style) /\ w[o + x] # ObjectOpens
    BY <1>8
<1>12. d \in {1, 3, 4, 5, 7, 8, 9} \/ d \in {2, 6}
    OBVIOUS
<1>13. CASE d \in {1, 3, 4, 5, 7, 8, 9}
    BY <1>10, <1>13 DEF InPlace, Inert
<1>14. CASE d \in {2, 6}
  <2>1. d # 1
      BY <1>14
  <2> QED BY <1>11, <1>14, <2>1
<1> QED BY <1>12, <1>13, <1>14

\* Each position in a list is one of its ends, between two entries, or in one.
LEMMA Position ==
    ASSUME NEW n \in Nat, NEW j \in 1 .. Span(n)
    PROVE  \/ j = 1 \/ j = Span(n)
           \/ \E i \in 2 .. n : j = 10 * i - 9
           \/ \E i \in 1 .. n, d \in 1 .. 9 : j = 10 * i - 9 + d
<1>1. CASE n = 0
    BY <1>1 DEF Span
<1>2. CASE n # 0
  <2> DEFINE i == (j + 8) \div 10
             d == (j + 8) % 10
  <2>1. i \in Int /\ d \in 0 .. 9 /\ j + 8 = 10 * i + d
      OBVIOUS
  <2> HIDE DEF i, d
  <2>2. j \in 1 .. 10 * n + 1
      BY <1>2 DEF Span
  <2>3. CASE j = 1
      BY <2>3
  <2>4. CASE j = 10 * n + 1
      BY <1>2, <2>4 DEF Span
  <2>5. CASE j # 1 /\ j # 10 * n + 1
    <3>1. i >= 1 /\ i <= n
        BY <2>1, <2>2, <2>5
    <3>2. CASE d = 9
      <4>1. i + 1 \in 2 .. n /\ j = 10 * (i + 1) - 9
          BY <2>1, <2>2, <2>5, <3>1, <3>2
      <4> QED BY <4>1
    <3>3. CASE d # 9
      <4>1. i \in 1 .. n /\ d + 1 \in 1 .. 9 /\ j = 10 * i - 9 + (d + 1)
          BY <2>1, <2>2, <3>1, <3>3
      <4> QED BY <4>1
    <3> QED BY <3>2, <3>3
  <2> QED BY <2>3, <2>4, <2>5
<1> QED BY <1>1, <1>2

\* The lexemes of a list of entries are in place; each entry opens an object.
LEMMA EntriesInPlace ==
    ASSUME NEW w, NEW o \in Int, NEW entries \in EntryLists, NEW style \in Styles,
           EntriesAt(w, o, entries, style), NEW j \in 1 .. Span(Len(entries))
    PROVE  /\ InPlace(w, o + j, style)
           /\ w[o + j] = ObjectOpens <=> \E i \in 1 .. Len(entries) : j = 10 * i - 8
<1> DEFINE n == Len(entries)
<1>1. n \in Nat /\ \A i \in 1 .. n : entries[i] \in [k : Numbers, v : Values]
    BY ElementOfSeq, LenProperties DEF EntryLists
<1>2. /\ w[o + 1] = ArrayOpens /\ w[o + Span(n)] = ArrayCloses
      /\ \A i \in 2 .. n : w[o + 10 * i - 9] = Separator
      /\ \A i \in 1 .. n : EntryAt(w, o + 10 * i - 9, entries[i], style)
    BY DEF EntriesAt
<1>3. j \in 1 .. Span(n)
    OBVIOUS
<1> HIDE DEF n
<1>4. /\ \A x : Inert(w[x]) => InPlace(w, x, style)
      /\ Inert(ArrayOpens) /\ Inert(ArrayCloses) /\ Inert(Separator)
      /\ ArrayOpens # ObjectOpens /\ ArrayCloses # ObjectOpens /\ Separator # ObjectOpens
    BY InertLexemes DEF InPlace, Inert, ObjectOpens, ArrayOpens, ArrayCloses, Separator, Lexeme
<1>5. Span(n) = 10 * n + 1 \/ Span(n) = 2
    BY DEF Span
<1>6. CASE j = 1 \/ j = Span(n) \/ \E i \in 2 .. n : j = 10 * i - 9
  <2>1. Inert(w[o + j]) /\ w[o + j] # ObjectOpens
    <3>1. CASE \E i \in 2 .. n : j = 10 * i - 9
      <4>1. PICK i \in 2 .. n : j = 10 * i - 9
          BY <3>1
      <4>2. o + j = o + 10 * i - 9
          BY <1>1, <4>1
      <4> QED BY <1>2, <1>4, <4>2
    <3>2. CASE j = 1 \/ j = Span(n)
        BY <1>2, <1>4, <3>2
    <3> QED BY <1>6, <3>1, <3>2
  <2>2. \A i \in 1 .. n : j # 10 * i - 8
    <3>1. CASE \E i \in 2 .. n : j = 10 * i - 9
        BY <1>1, <3>1
    <3>2. CASE j = 1 \/ j = Span(n)
      <4>1. n = 0 \/ Span(n) = 10 * n + 1
          BY DEF Span
      <4> QED BY <1>1, <3>2, <4>1
    <3> QED BY <1>6, <3>1, <3>2
  <2> QED BY <1>4, <2>1, <2>2 DEF n
<1>7. CASE \E i \in 1 .. n, d \in 1 .. 9 : j = 10 * i - 9 + d
  <2>1. PICK i \in 1 .. n, d \in 1 .. 9 : j = 10 * i - 9 + d
      BY <1>7
  <2>2. PICK p \in Int : p = o + 10 * i - 9
      BY <1>1
  <2>2a. p + d = o + j
      BY <1>1, <2>1, <2>2
  <2>2b. EntryAt(w, p, entries[i], style) /\ entries[i] \in [k : Numbers, v : Values]
      BY <1>1, <1>2, <2>2
  <2>3. InPlace(w, p + d, style) /\ (w[p + d] = ObjectOpens <=> d = 1)
      BY <2>2b, EntryInPlace
  <2>4. d = 1 <=> \E m \in 1 .. n : j = 10 * m - 8
      BY <1>1, <2>1
  <2> QED BY <2>2a, <2>3, <2>4 DEF n
<1> QED BY <1>1, <1>3, <1>6, <1>7, Position

\* As many as there are indices.
LEMMA Counted ==
    ASSUME NEW o \in Int, NEW n \in Nat,
           NEW S, \A j : j \in S <=> j \in Int /\ \E i \in 1 .. n : j = o + 10 * i
    PROVE  IsFiniteSet(S) /\ Cardinality(S) = n
<1> DEFINE f == [i \in 1 .. n |-> o + 10 * i]
<1>1. f \in [1 .. n -> S] /\ \A i \in 1 .. n : f[i] = o + 10 * i
    OBVIOUS
<1>2. \A j \in S : \E i \in 1 .. n : f[i] = j
    BY <1>1
<1>3. \A i, m \in 1 .. n : f[i] = f[m] => i = m
    BY <1>1
<1> HIDE DEF f
<1>4. f \in Bijection(1 .. n, S)
    BY <1>1, <1>2, <1>3 DEF Bijection, Injection, Surjection, IsInjective
<1>5. ExistsBijection(1 .. n, S)
    BY <1>4 DEF ExistsBijection
<1> QED BY <1>5, FS_NatBijection, FS_CountingElements

\* What is between the list and the ends of a report.
LEMMA ReportInPlace ==
    ASSUME NEW w, NEW report \in [version : Values, ek : EntryLists], NEW style \in Styles,
           ReportIs(w, report, style)
    PROVE  /\ \A j \in 1 .. Len(w) : InPlace(w, j, style)
           /\ \E o \in {3, 7} : \A j \in 1 .. Len(w) :
                 w[j] = ObjectOpens <=> j = 1 \/ \E i \in 1 .. Len(report.ek) : j = o + 10 * i - 8
<1> DEFINE n == Len(report.ek)
           N == Span(n)
           P(j) == InPlace(w, j, style)
           Opens(j) == w[j] = ObjectOpens
<1>1. n \in Nat /\ N \in Nat /\ N >= 2 /\ \A i \in 1 .. n : 10 * i + 1 <= N
    BY LenProperties, SpanOf DEF EntryLists
<1>2. PICK ek \in EntryLists : ek = report.ek
    OBVIOUS
<1>3. PICK c \in Values : c = report.version
    OBVIOUS
<1>4. /\ Inert(ObjectOpens) /\ Inert(ObjectCloses) /\ Inert(Colon) /\ Inert(Separator) /\ Inert(Str(c))
      /\ \A x : Inert(w[x]) => P(x)
      /\ ObjectCloses # ObjectOpens /\ Colon # ObjectOpens /\ Separator # ObjectOpens
      /\ Str(c) # ObjectOpens
      /\ ObjectOpens # ArrayOpens /\ Separator # ArrayOpens
  <2>1. /\ ObjectCloses # ObjectOpens /\ Colon # ObjectOpens /\ Separator # ObjectOpens
        /\ ObjectOpens # ArrayOpens /\ Separator # ArrayOpens
      BY DEF ObjectOpens, ObjectCloses, Colon, Separator, ArrayOpens, Lexeme
  <2>2. Len(Str(c)) = Len(c) + 2 /\ Len(c) \in Nat /\ Len(ObjectOpens) = 1
      BY StrFacts, LexemeFacts DEF ObjectOpens
  <2>3. Str(c) # ObjectOpens
    <3>1. Len(Str(c)) # Len(ObjectOpens)
        BY <2>2
    <3> QED BY <3>1, Zenon
  <2>4. \A x : Inert(w[x]) => P(x)
      BY DEF InPlace, Inert
  <2> QED BY <2>1, <2>3, <2>4, InertLexemes
<1>5. ASSUME NEW name \in Names
      PROVE  /\ Name(name, style) # Lexeme(Nul) /\ Name(name, style) # ObjectOpens
             /\ Bare(Name(name, style)) => style.bare # {}
  <2>1. ~Bare(ObjectOpens) /\ ~Bare(QuotedName(name)) /\ Len(QuotedName(name)) = 3 /\ Len(ObjectOpens) = 1
      BY <1>4, NameFacts, LexemeFacts DEF Inert, ObjectOpens
  <2>2. Name(name, style) = Lexeme(name) \/ Name(name, style) = QuotedName(name)
      BY NameFacts
  <2>3. Lexeme(name) # ObjectOpens
      BY <2>1 DEF Bare
  <2>4. QuotedName(name) # ObjectOpens
      BY <2>1
  <2>5. Name(name, style) # ObjectOpens
      BY <2>2, <2>3, <2>4
  <2> QED BY <2>5, NameFacts
<1>6. "version" \in Names /\ "ek" \in Names
    BY DEF Names
<1>7. ASSUME NEW j, NEW name \in Names, w[j] = Name(name, style), w[j - 1] = ObjectOpens \/ w[j - 1] = Separator
      PROVE  P(j) /\ ~Opens(j)
    BY <1>4, <1>5, <1>7 DEF InPlace
<1>8. ASSUME NEW o \in Int, EntriesAt(w, o, ek, style), NEW j \in o + 1 .. o + N
      PROVE  P(j) /\ (Opens(j) <=> \E i \in 1 .. n : j = o + 10 * i - 8)
  <2>1. PICK d \in 1 .. N : j = o + d
    <3>1. j - o \in 1 .. N /\ j = o + (j - o)
        BY <1>1
    <3> QED BY <3>1
  <2>2. P(o + d) /\ (Opens(o + d) <=> \E i \in 1 .. n : d = 10 * i - 8)
      BY <1>2, <1>8, EntriesInPlace
  <2>3. (\E i \in 1 .. n : d = 10 * i - 8) <=> \E i \in 1 .. n : j = o + 10 * i - 8
      BY <1>1, <2>1
  <2> HIDE DEF P, Opens
  <2> QED BY <2>1, <2>2, <2>3
<1>9. CASE style.swap = FALSE
  <2>1. /\ Len(w) = N + 8 /\ w[1] = ObjectOpens /\ w[3] = Colon /\ w[N + 8] = ObjectCloses
        /\ w[2] = Name("version", style) /\ w[4] = Str(c)
        /\ w[5] = Separator /\ w[6] = Name("ek", style) /\ w[7] = Colon
        /\ EntriesAt(w, 7, ek, style)
      BY <1>2, <1>3, <1>9 DEF ReportIs
  <2>2. P(1) /\ Opens(1) /\ P(2) /\ ~Opens(2) /\ P(3) /\ ~Opens(3) /\ P(4) /\ ~Opens(4) /\ P(5) /\ ~Opens(5)
        /\ P(6) /\ ~Opens(6) /\ P(7) /\ ~Opens(7) /\ P(N + 8) /\ ~Opens(N + 8)
    <3>1. P(2) /\ ~Opens(2) /\ P(6) /\ ~Opens(6)
      <4>1. 2 - 1 = 1 /\ 6 - 1 = 5
          OBVIOUS
      <4> HIDE DEF P, Opens
      <4> QED BY <1>6, <1>7, <2>1, <4>1
    <3>2. P(1) /\ P(3) /\ P(4) /\ P(5) /\ P(7) /\ P(N + 8)
      <4> HIDE DEF P
      <4> QED BY <1>4, <2>1, ZenonT(20)
    <3> QED BY <1>4, <2>1, <3>1, <3>2
  <2>3. \A j \in 8 .. 7 + N : P(j) /\ (Opens(j) <=> \E i \in 1 .. n : j = 7 + 10 * i - 8)
      BY <1>8, <2>1
  <2> HIDE DEF P, Opens, N
  <2>4. ASSUME NEW j \in 1 .. Len(w)
        PROVE  P(j) /\ (Opens(j) <=> j = 1 \/ \E i \in 1 .. n : j = 7 + 10 * i - 8)
    <3>1. CASE j \in 8 .. 7 + N
        BY <2>3, <3>1
    <3>2. CASE j \notin 8 .. 7 + N
      <4>1. j \in {1, 2, 3, 4, 5, 6, 7, N + 8}
          BY <1>1, <2>1, <3>2
      <4>2. P(j) /\ (Opens(j) <=> j = 1)
          BY <1>1, <2>2, <4>1
      <4>3. \A i \in 1 .. n : j # 7 + 10 * i - 8
          BY <1>1, <3>2
      <4> QED BY <4>2, <4>3
    <3> QED BY <3>1, <3>2
  <2> QED BY <2>4 DEF P, Opens
<1>10. CASE style.swap = TRUE
  <2>1. /\ Len(w) = N + 8 /\ w[1] = ObjectOpens /\ w[3] = Colon /\ w[N + 8] = ObjectCloses
        /\ w[2] = Name("ek", style) /\ EntriesAt(w, 3, ek, style)
        /\ w[N + 4] = Separator /\ w[N + 5] = Name("version", style)
        /\ w[N + 6] = Colon /\ w[N + 7] = Str(c)
      BY <1>2, <1>3, <1>10 DEF ReportIs
  <2>2. P(1) /\ Opens(1) /\ P(2) /\ ~Opens(2) /\ P(3) /\ ~Opens(3) /\ P(N + 4) /\ ~Opens(N + 4)
        /\ P(N + 5) /\ ~Opens(N + 5) /\ P(N + 6) /\ ~Opens(N + 6) /\ P(N + 7) /\ ~Opens(N + 7)
        /\ P(N + 8) /\ ~Opens(N + 8)
    <3>1. P(2) /\ ~Opens(2) /\ P(N + 5) /\ ~Opens(N + 5)
      <4>1. 2 - 1 = 1 /\ (N + 5) - 1 = N + 4
          BY <1>1
      <4> HIDE DEF P, Opens
      <4> QED BY <1>6, <1>7, <2>1, <4>1
    <3>2. P(1) /\ P(3) /\ P(N + 4) /\ P(N + 6) /\ P(N + 7) /\ P(N + 8)
      <4> HIDE DEF P
      <4> QED BY <1>4, <2>1, ZenonT(20)
    <3> QED BY <1>4, <2>1, <3>1, <3>2
  <2>3. \A j \in 4 .. 3 + N : P(j) /\ (Opens(j) <=> \E i \in 1 .. n : j = 3 + 10 * i - 8)
      BY <1>8, <2>1
  <2> HIDE DEF P, Opens, N
  <2>4. ASSUME NEW j \in 1 .. Len(w)
        PROVE  P(j) /\ (Opens(j) <=> j = 1 \/ \E i \in 1 .. n : j = 3 + 10 * i - 8)
    <3>1. CASE j \in 4 .. 3 + N
        BY <2>3, <3>1
    <3>2. CASE j \notin 4 .. 3 + N
      <4>1. j \in {1, 2, 3, N + 4, N + 5, N + 6, N + 7, N + 8}
          BY <1>1, <2>1, <3>2
      <4>2. P(j) /\ (Opens(j) <=> j = 1)
          BY <1>1, <2>2, <4>1
      <4>3. \A i \in 1 .. n : j # 3 + 10 * i - 8
          BY <1>1, <3>2
      <4> QED BY <4>2, <4>3
    <3> QED BY <3>1, <3>2
  <2> QED BY <2>4 DEF P, Opens
<1> QED BY <1>9, <1>10 DEF Styles

-----------------------------------------------------------------------------
(* What one list of lexemes can mean.                                      *)

\* The same lexemes, but for names that are quoted.
Fixed(a, b) == b = a \/ \E name \in Names : a = Lexeme(name) /\ b = QuotedName(name)
Repaired(w, x) == Len(x) = Len(w) /\ \A j \in 1 .. Len(w) : Fixed(w[j], x[j])

\* What is no name stays as it is.
LEMMA FixedInert ==
    ASSUME NEW a, NEW b, Fixed(a, b), Inert(a)
    PROVE  b = a
BY DEF Fixed, Inert, Bare

\* A name stays the same name.
LEMMA FixedName ==
    ASSUME NEW name \in Names, NEW other \in Names, NEW style \in Styles, NEW repaired \in Styles,
           Fixed(Name(name, style), Name(other, repaired))
    PROVE  other = name
<1> DEFINE a == Name(name, style)
           b == Name(other, repaired)
<1>1. (a = Lexeme(name) \/ a = QuotedName(name)) /\ (b = Lexeme(other) \/ b = QuotedName(other))
    BY NameFacts
<1>2. b = a \/ \E n \in Names : a = Lexeme(n) /\ b = QuotedName(n)
    BY DEF Fixed
<1> HIDE DEF a, b
<1>3. \A n, m \in Names : /\ Lexeme(n) = Lexeme(m) => n = m
                          /\ QuotedName(n) = QuotedName(m) => n = m
                          /\ Lexeme(n) # QuotedName(m)
  <2>1. \A n, m \in Names : Len(Lexeme(n)) = 1 /\ Len(QuotedName(m)) = 3
      BY LexemeFacts, NameFacts
  <2>2. \A n, m \in Names : Lexeme(n) # QuotedName(m)
      BY <2>1
  <2> QED BY <2>2, LexemeFacts, NameFacts
<1> QED BY <1>1, <1>2, <1>3

\* A string is the string of one value.
LEMMA StrUnique ==
    ASSUME NEW c \in Values, NEW d \in Values, Str(c) = Str(d)
    PROVE  c = d
BY StrFacts, Zenon

\* The lexemes of an entry are those of no other, whatever the style.
LEMMA EntryUnique ==
    ASSUME NEW w, NEW x, NEW o \in Int,
           NEW a \in [k : Numbers, v : Values], NEW b \in [k : Numbers, v : Values],
           NEW style \in Styles, NEW repaired \in Styles,
           EntryAt(w, o, a, style), EntryAt(x, o, b, repaired),
           \A d \in 1 .. 9 : Fixed(w[o + d], x[o + d])
    PROVE  b = a
<1>1. "k" \in Names /\ "v" \in Names /\ "k" # "v"
    BY DEF Names
<1>2. PICK k \in Numbers, l \in Numbers : k = a.k /\ l = b.k
    OBVIOUS
<1>3. PICK c \in Values, d \in Values : c = a.v /\ d = b.v
    OBVIOUS
<1>4. Inert(Lexeme(k)) /\ Inert(Str(c))
    BY InertLexemes
<1>5. Fixed(w[o + 2], x[o + 2]) /\ Fixed(w[o + 4], x[o + 4]) /\ Fixed(w[o + 8], x[o + 8])
    OBVIOUS
<1>6. /\ style.swap = FALSE => /\ w[o + 2] = Name("k", style) /\ w[o + 4] = Lexeme(k)
                               /\ w[o + 8] = Str(c)
      /\ style.swap = TRUE => /\ w[o + 2] = Name("v", style) /\ w[o + 4] = Str(c)
                              /\ w[o + 8] = Lexeme(k)
    BY <1>2, <1>3 DEF EntryAt
<1>7. /\ repaired.swap = FALSE => /\ x[o + 2] = Name("k", repaired) /\ x[o + 4] = Lexeme(l)
                                  /\ x[o + 8] = Str(d)
      /\ repaired.swap = TRUE => /\ x[o + 2] = Name("v", repaired) /\ x[o + 4] = Str(d)
                                 /\ x[o + 8] = Lexeme(l)
    BY <1>2, <1>3 DEF EntryAt
<1>8. /\ style.swap = FALSE \/ style.swap = TRUE
      /\ repaired.swap = FALSE \/ repaired.swap = TRUE
    BY DEF Styles
<1>9. /\ style.swap = TRUE <=> repaired.swap = TRUE
      /\ style.swap = FALSE <=> repaired.swap = FALSE
  <2>1. CASE style.swap = FALSE /\ repaired.swap = TRUE
    <3>1. Fixed(Name("k", style), Name("v", repaired))
        BY <1>5, <1>6, <1>7, <2>1
    <3> QED BY <1>1, <3>1, FixedName
  <2>2. CASE style.swap = TRUE /\ repaired.swap = FALSE
    <3>1. Fixed(Name("v", style), Name("k", repaired))
        BY <1>5, <1>6, <1>7, <2>2
    <3> QED BY <1>1, <3>1, FixedName
  <2> QED BY <1>8, <2>1, <2>2
<1>10. Lexeme(l) = Lexeme(k) /\ Str(d) = Str(c)
  <2>1. CASE style.swap = FALSE
      BY <1>4, <1>5, <1>6, <1>7, <1>9, <2>1, FixedInert
  <2>2. CASE style.swap = TRUE
      BY <1>4, <1>5, <1>6, <1>7, <1>9, <2>2, FixedInert
  <2> QED BY <1>8, <2>1, <2>2
<1>11. l = k /\ d = c
    BY <1>10, LexemeFacts, StrUnique
<1>12. a = [k |-> k, v |-> c] /\ b = [k |-> l, v |-> d]
    BY <1>2, <1>3
<1> QED BY <1>11, <1>12

\* ... nor those of a list of entries,
LEMMA EntriesUnique ==
    ASSUME NEW w, NEW x, NEW o \in Int, NEW a \in EntryLists, NEW b \in EntryLists,
           NEW style \in Styles, NEW repaired \in Styles,
           EntriesAt(w, o, a, style), EntriesAt(x, o, b, repaired), Len(a) = Len(b),
           \A j \in 1 .. Span(Len(a)) : Fixed(w[o + j], x[o + j])
    PROVE  b = a
<1> DEFINE n == Len(a)
<1>1. /\ n \in Nat
      /\ \A i \in 1 .. n : a[i] \in [k : Numbers, v : Values] /\ b[i] \in [k : Numbers, v : Values]
    BY ElementOfSeq, LenProperties DEF EntryLists
<1>2. \A i \in 1 .. n : EntryAt(w, o + 10 * i - 9, a[i], style) /\ EntryAt(x, o + 10 * i - 9, b[i], repaired)
    BY DEF EntriesAt
<1>3. \A j \in 1 .. Span(n) : Fixed(w[o + j], x[o + j])
    OBVIOUS
<1> HIDE DEF n
<1>4. ASSUME NEW i \in 1 .. n PROVE b[i] = a[i]
  <2>1. PICK p \in Int : p = o + 10 * i - 9
      BY <1>1
  <2>2. \A d \in 1 .. 9 : Fixed(w[p + d], x[p + d])
    <3> SUFFICES ASSUME NEW d \in 1 .. 9 PROVE Fixed(w[p + d], x[p + d])
        OBVIOUS
    <3>1. 10 * i + 1 <= Span(n) /\ Span(n) \in Nat
        BY <1>1, SpanOf
    <3>2. 10 * i - 9 + d \in 1 .. Span(n) /\ o + (10 * i - 9 + d) = p + d
        BY <1>1, <2>1, <3>1
    <3> QED BY <1>3, <3>2
  <2>3. EntryAt(w, p, a[i], style) /\ EntryAt(x, p, b[i], repaired)
      BY <1>2, <2>1
  <2> QED BY <1>1, <2>2, <2>3, EntryUnique
<1> QED BY <1>1, <1>4, SeqEqual DEF EntryLists, n

\* ... nor those of a report.
LEMMA ReportUnique ==
    ASSUME NEW w, NEW x,
           NEW a \in [version : Values, ek : EntryLists], NEW b \in [version : Values, ek : EntryLists],
           NEW style \in Styles, NEW repaired \in Styles,
           ReportIs(w, a, style), ReportIs(x, b, repaired), Repaired(w, x)
    PROVE  b = a
<1>1. PICK c \in Values, d \in Values : c = a.version /\ d = b.version
    OBVIOUS
<1>2. PICK e \in EntryLists, f \in EntryLists : e = a.ek /\ f = b.ek
    OBVIOUS
<1> DEFINE n == Span(Len(e))
           m == Span(Len(f))
<1>2a. a = [version |-> c, ek |-> e] /\ b = [version |-> d, ek |-> f]
    BY <1>1, <1>2
<1>3. Len(e) \in Nat /\ Len(f) \in Nat /\ n \in Nat /\ m \in Nat /\ n >= 2
    BY LenProperties, SpanOf DEF EntryLists
<1>4. Len(w) = n + 8 /\ Len(x) = m + 8
    BY <1>2 DEF ReportIs
<1>5. n = m /\ Len(e) = Len(f)
  <2>1. n = m
      BY <1>3, <1>4 DEF Repaired
  <2> QED BY <1>3, <2>1, SpanOf
<1>6. \A j \in 1 .. n + 8 : Fixed(w[j], x[j])
    BY <1>4 DEF Repaired
<1>7. /\ style.swap = FALSE =>
             w[2] = Name("version", style) /\ w[4] = Str(c) /\ EntriesAt(w, 7, e, style)
      /\ style.swap = TRUE =>
             w[2] = Name("ek", style) /\ EntriesAt(w, 3, e, style) /\ w[n + 7] = Str(c)
    BY <1>1, <1>2 DEF ReportIs
<1>8. /\ repaired.swap = FALSE =>
             x[2] = Name("version", repaired) /\ x[4] = Str(d) /\ EntriesAt(x, 7, f, repaired)
      /\ repaired.swap = TRUE =>
             x[2] = Name("ek", repaired) /\ EntriesAt(x, 3, f, repaired) /\ x[n + 7] = Str(d)
    BY <1>1, <1>2, <1>5 DEF ReportIs
<1> HIDE DEF n, m
<1>9. "version" \in Names /\ "ek" \in Names /\ "version" # "ek"
    BY DEF Names
<1>10. /\ style.swap = FALSE \/ style.swap = TRUE
       /\ repaired.swap = FALSE \/ repaired.swap = TRUE
    BY DEF Styles
<1>11. Fixed(w[2], x[2]) /\ Fixed(w[4], x[4]) /\ Fixed(w[n + 7], x[n + 7])
    BY <1>3, <1>6
<1>12. /\ style.swap = TRUE <=> repaired.swap = TRUE
       /\ style.swap = FALSE <=> repaired.swap = FALSE
  <2>1. CASE style.swap = FALSE /\ repaired.swap = TRUE
    <3>1. Fixed(Name("version", style), Name("ek", repaired))
        BY <1>7, <1>8, <1>11, <2>1
    <3> QED BY <1>9, <3>1, FixedName
  <2>2. CASE style.swap = TRUE /\ repaired.swap = FALSE
    <3>1. Fixed(Name("ek", style), Name("version", repaired))
        BY <1>7, <1>8, <1>11, <2>2
    <3> QED BY <1>9, <3>1, FixedName
  <2> QED BY <1>10, <2>1, <2>2
<1>13. Inert(Str(c))
    BY InertLexemes
<1>14. CASE style.swap = FALSE
  <2>1. Str(d) = Str(c)
      BY <1>7, <1>8, <1>11, <1>12, <1>13, <1>14, FixedInert
  <2>2. \A j \in 1 .. n : Fixed(w[7 + j], x[7 + j])
      BY <1>3, <1>6
  <2>3. f = e
      BY <1>5, <1>7, <1>8, <1>12, <1>14, <2>2, EntriesUnique, SMTT(30) DEF n
  <2> QED BY <1>2a, <2>1, <2>3, StrUnique
<1>15. CASE style.swap = TRUE
  <2>1. Str(d) = Str(c)
      BY <1>7, <1>8, <1>11, <1>12, <1>13, <1>15, FixedInert
  <2>2. \A j \in 1 .. n : Fixed(w[3 + j], x[3 + j])
      BY <1>3, <1>6
  <2>3. f = e
      BY <1>5, <1>7, <1>8, <1>12, <1>15, <2>2, EntriesUnique, SMTT(30) DEF n
  <2> QED BY <1>2a, <2>1, <2>3, StrUnique
<1> QED BY <1>10, <1>14, <1>15

-----------------------------------------------------------------------------
(* The values that a text can be read as are of the type of values.        *)

\* A lexeme of more than one token is a string, and so is what is open.
IsStr(x) == \E c \in Values : x = Str(c)
Tidy(l) ==
    /\ \A j \in 1 .. Len(l.done) : Len(l.done[j]) > 1 => IsStr(l.done[j])
    /\ l.open = <<>> \/ \E c \in Values : l.open = <<Quote>> \o c

\* Every string that is done has a value, and so far the open one.
LEMMA LexTidy ==
    ASSUME NEW l \in States, Tidy(l), NEW t \in Tokens
    PROVE  Tidy(Lex(l, t))
<1>1. PICK d \in Seq(Texts), o \in Texts : d = l.done /\ o = l.open
    BY DEF States
<1>2. /\ \A j \in 1 .. Len(d) : Len(d[j]) > 1 => IsStr(d[j])
      /\ o = <<>> \/ \E c \in Values : o = <<Quote>> \o c
    BY <1>1 DEF Tidy
<1>3. ASSUME NEW x \in Texts, Len(x) > 1 => IsStr(x)
      PROVE  \A j \in 1 .. Len(Append(d, x)) : Len(Append(d, x)[j]) > 1 => IsStr(Append(d, x)[j])
  <2>1. /\ Len(Append(d, x)) = Len(d) + 1 /\ Len(d) \in Nat
        /\ \A j \in 1 .. Len(d) : Append(d, x)[j] = d[j]
        /\ Append(d, x)[Len(d) + 1] = x
      BY AppendProperties, LenProperties
  <2> QED BY <1>2, <1>3, <2>1
<1>4. <<t>> \in Texts /\ Len(<<t>>) = 1
    BY AppendOne, SpecialTokens, EmptySeq DEF Texts
<1>5. CASE t = Nul
  <2>1. Lex(l, t).done = Append(d, <<t>>) /\ Lex(l, t).open = o
      BY <1>1, <1>5 DEF Lex
  <2>2. \A j \in 1 .. Len(Append(d, <<t>>)) :
            Len(Append(d, <<t>>)[j]) > 1 => IsStr(Append(d, <<t>>)[j])
    <3>1. PICK x \in Texts : x = <<t>> /\ Len(x) = 1
        BY <1>4
    <3>2. ~(Len(x) > 1)
        BY <3>1
    <3>3. \A j \in 1 .. Len(Append(d, x)) : Len(Append(d, x)[j]) > 1 => IsStr(Append(d, x)[j])
        BY <1>3, <3>2
    <3> QED BY <3>1, <3>3, Zenon
  <2> QED BY <1>2, <2>1, <2>2 DEF Tidy
<1>6. CASE t = Quote /\ o = <<>>
  <2>1. Lex(l, t).done = d /\ Lex(l, t).open = <<Quote>>
      BY <1>1, <1>6 DEF Lex, Quote, Nul
  <2>2. <<Quote>> \o <<>> = <<Quote>> /\ <<>> \in Values
      BY SpecialTokens, AppendOne, EmptySeq, ConcatEmptySeq DEF Values
  <2> QED BY <1>2, <2>1, <2>2 DEF Tidy
<1>7. CASE t = Quote /\ o # <<>>
  <2>1. Lex(l, t).done = Append(d, Append(o, Quote)) /\ Lex(l, t).open = <<>>
      BY <1>1, <1>7 DEF Lex, Quote, Nul
  <2>2. PICK c \in Values : o = <<Quote>> \o c
      BY <1>2, <1>7
  <2>3. Append(o, Quote) = Str(c) /\ Str(c) \in Texts
    <3>1. o \o <<Quote>> = Append(o, Quote)
        BY AppendOne, SpecialTokens DEF Texts
    <3> QED BY <2>2, <3>1, StrFacts DEF Str
  <2>4. IsStr(Append(o, Quote))
      BY <2>3 DEF IsStr
  <2> QED BY <1>3, <2>1, <2>3, <2>4 DEF Tidy
<1>8. CASE t # Nul /\ t # Quote /\ o # <<>>
  <2>1. Lex(l, t).done = d /\ Lex(l, t).open = Append(o, t)
      BY <1>1, <1>8 DEF Lex
  <2>2. PICK c \in Values : o = <<Quote>> \o c
      BY <1>2, <1>8
  <2>3. Append(c, t) \in Values /\ c \in Texts /\ <<Quote>> \in Texts
    <3>1. c \in Seq(Tokens)
      <4>1. Tokens \ {Quote, Nul} \subseteq Tokens
          OBVIOUS
      <4> QED BY <4>1, SeqMonotonic DEF Values
    <3>2. Append(c, t) \in Values
        BY <1>8, AppendProperties DEF Values
    <3> QED BY <3>1, <3>2, AppendOne, SpecialTokens, EmptySeq DEF Texts
  <2>4. Append(o, t) = <<Quote>> \o Append(c, t)
    <3>1. c \o <<t>> = Append(c, t) /\ o \o <<t>> = Append(o, t)
        BY <2>3, AppendOne DEF Texts
    <3>2. (<<Quote>> \o c) \o <<t>> = <<Quote>> \o (c \o <<t>>)
        BY <1>4, <2>3, ConcatAssociative DEF Texts
    <3> QED BY <2>2, <3>1, <3>2
  <2> QED BY <1>2, <2>1, <2>3, <2>4 DEF Tidy
<1>9. CASE t # Nul /\ t # Quote /\ o = <<>>
  <2>1. CASE t = " "
    <3>1. Lex(l, t) = l
        BY <1>1, <1>9, <2>1 DEF Lex
    <3> QED BY <3>1
  <2>2. CASE t # " "
    <3>1. Lex(l, t).done = Append(d, <<t>>) /\ Lex(l, t).open = <<>>
        BY <1>1, <1>9, <2>2 DEF Lex
    <3> QED BY <1>2, <1>3, <1>4, <3>1 DEF Tidy
  <2> QED BY <2>1, <2>2
<1> QED BY <1>5, <1>6, <1>7, <1>8, <1>9

\* ... of every text, by induction over its tokens.
LEMMA ScanTidy ==
    ASSUME NEW text \in Texts
    PROVE  Tidy(Scan(text))
<1> DEFINE n == Len(text)
<1>1. n \in Nat /\ \A k \in 1 .. n : text[k] \in Tokens
    BY ElementOfSeq, LenProperties DEF Texts
<1>2. PICK f \in [0 .. n -> States] :
          /\ f[0] = Start
          /\ \A k \in 1 .. n : f[k] = Lex(f[k - 1], text[k])
          /\ Scan(text) = f[n]
    BY Scanned
<1> HIDE DEF n
<1> DEFINE T == {k \in Nat : k <= n => Tidy(f[k])}
<1>3. 0 \in T
  <2>1. Start.done = <<>> /\ Start.open = <<>> /\ Len(<<>>) = 0
      BY DEF Start
  <2> QED BY <1>2, <2>1 DEF Tidy
<1>4. ASSUME NEW k \in Nat, k \in T PROVE k + 1 \in T
  <2> SUFFICES ASSUME k + 1 <= n PROVE Tidy(f[k + 1])
      OBVIOUS
  <2>1. k + 1 \in 1 .. n /\ (k + 1) - 1 = k /\ f[k] \in States /\ Tidy(f[k])
      BY <1>1, <1>2, <1>4
  <2> QED BY <1>1, <1>2, <2>1, LexTidy
<1>5. n \in T
  <2> HIDE DEF T
  <2> QED BY <1>1, <1>3, <1>4, NatSetInduction
<1> QED BY <1>1, <1>2, <1>5

\* What the strings of a text hold are values,
LEMMA ContentsTyped ==
    ASSUME NEW text \in Texts
    PROVE  Contents(Lexemes(text)) \subseteq Values
<1> DEFINE w == Lexemes(text)
<1>1. PICK d \in Seq(Texts), o \in Texts : d = Scan(text).done /\ o = Scan(text).open
    BY ScanType DEF States
<1>2. /\ \A j \in 1 .. Len(d) : Len(d[j]) > 1 => IsStr(d[j])
      /\ o = <<>> \/ \E c \in Values : o = <<Quote>> \o c
    BY <1>1, ScanTidy DEF Tidy
<1>3. /\ w = Append(d, o) /\ w \in Seq(Texts) /\ Len(w) = Len(d) + 1 /\ Len(d) \in Nat
      /\ \A j \in 1 .. Len(d) : w[j] = d[j]
      /\ w[Len(d) + 1] = o
    BY <1>1, AppendProperties, LenProperties DEF Lexemes
<1> HIDE DEF w
<1>4. ASSUME NEW i \in 1 .. Len(w), Len(w[i]) > 1
      PROVE  SubSeq(w[i], 2, Len(w[i]) - 1) \in Values
  <2>1. CASE i # Len(d) + 1
    <3>1. PICK c \in Values : w[i] = Str(c)
        BY <1>2, <1>3, <1>4, <2>1 DEF IsStr
    <3> QED BY <3>1, StrFacts
  <2>2. CASE i = Len(d) + 1
    <3>1. w[i] = o /\ o # <<>>
        BY <1>3, <1>4, <2>2
    <3>2. PICK c \in Values : o = <<Quote>> \o c
        BY <1>2, <3>1
    <3>3. c \in Texts /\ <<Quote>> \in Texts /\ Len(<<Quote>>) = 1
      <4>1. c \in Seq(Tokens)
        <5>1. Tokens \ {Quote, Nul} \subseteq Tokens
            OBVIOUS
        <5> QED BY <5>1, SeqMonotonic DEF Values
      <4> QED BY <4>1, AppendOne, SpecialTokens, EmptySeq DEF Texts
    <3>4. /\ Len(o) = 1 + Len(c) /\ Len(c) \in Nat
          /\ \A j \in 1 .. 1 + Len(c) : o[j] = IF j <= 1 THEN <<Quote>>[j] ELSE c[j - 1]
        BY <3>2, <3>3, ConcatProperties, LenProperties DEF Texts
    <3>5. \A j \in 2 .. Len(o) - 1 : o[j] \in Tokens \ {Quote, Nul}
      <4> SUFFICES ASSUME NEW j \in 2 .. Len(o) - 1 PROVE o[j] \in Tokens \ {Quote, Nul}
          OBVIOUS
      <4>1. j - 1 \in 1 .. Len(c) /\ o[j] = c[j - 1]
          BY <3>4
      <4> QED BY <4>1, ElementOfSeq DEF Values
    <3>6. Len(o) - 1 \in Int
        BY <3>4
    <3>7. SubSeq(o, 2, Len(o) - 1) \in Values
        BY <3>5, <3>6, SubSeqProperties DEF Values
    <3> QED BY <3>1, <3>7
  <2> QED BY <2>1, <2>2
<1>5. DOMAIN w = 1 .. Len(w)
    BY <1>3, LenProperties
<1> QED BY <1>4, <1>5 DEF Contents, w

\* ... and what can be made of them are lists of entries.
LEMMA EntriesInTyped ==
    ASSUME NEW text \in Texts, NEW n \in Int, NEW entries \in EntriesIn(Lexemes(text), n)
    PROVE  entries \in EntryLists /\ (n \in Nat => Len(entries) = n)
<1> DEFINE S == [k : {m \in Numbers : <<m>> \in ToSet(Lexemes(text))}, v : Contents(Lexemes(text))]
<1>1. entries \in [1 .. n -> S]
    BY DEF EntriesIn
<1>2. S \subseteq [k : Numbers, v : Values]
    BY ContentsTyped
<1> HIDE DEF S
<1>3. entries \in [1 .. n -> [k : Numbers, v : Values]]
    BY <1>1, <1>2
<1>4. CASE n \in Nat
  <2> DEFINE V == [k : Numbers, v : Values]
  <2> HIDE DEF V
  <2>1. entries \in [1 .. n -> V]
      BY <1>3 DEF V
  <2>2. entries \in Seq(V) /\ Len(entries) = n
      BY <1>4, <2>1
  <2> QED BY <2>2 DEF EntryLists, V
<1>5. CASE n \notin Nat
  <2>1. 1 .. n = 1 .. 0
      BY <1>5
  <2>2. entries \in [1 .. 0 -> [k : Numbers, v : Values]]
      BY <1>3, <2>1
  <2> QED BY <1>5, <2>2 DEF EntryLists
<1> QED BY <1>4, <1>5

\* The text of the lexemes z and a text that has the same ones.
LEMMA SameLexemes ==
    ASSUME NEW text \in Texts, NEW a, NEW z, Closed(a, z)
    PROVE  /\ Lexemes(a) = Lexemes(text) <=> Scan(text).done = z /\ Scan(text).open = <<>>
           /\ Scan(text).done = z /\ Scan(text).open = <<>> => Lexemes(text) = Append(z, <<>>)
<1>1. PICK d \in Seq(Texts), o \in Texts : d = Scan(text).done /\ o = Scan(text).open
    BY ScanType DEF States
<1>2. Lexemes(text) = Append(d, o)
    BY <1>1 DEF Lexemes
<1>3. Lexemes(a) = Append(z, <<>>)
    BY ClosedScan DEF Lexemes
<1>4. z \in Seq(Texts) /\ <<>> \in Texts
    BY EmptySeq DEF Closed, Texts
<1>5. Append(z, <<>>) = Append(d, o) => z = d /\ o = <<>>
  <2> SUFFICES ASSUME Append(z, <<>>) = Append(d, o) PROVE z = d /\ o = <<>>
      OBVIOUS
  <2> DEFINE y == Append(z, <<>>)
             x == Append(d, o)
  <2>1. /\ Len(y) = Len(z) + 1 /\ y[Len(z) + 1] = <<>> /\ \A j \in 1 .. Len(z) : y[j] = z[j]
        /\ Len(z) \in Nat
      BY <1>4, AppendProperties, LenProperties
  <2>2. /\ Len(x) = Len(d) + 1 /\ x[Len(d) + 1] = o /\ \A j \in 1 .. Len(d) : x[j] = d[j]
        /\ Len(d) \in Nat
      BY AppendProperties, LenProperties
  <2>3. x = y
      OBVIOUS
  <2> HIDE DEF x, y
  <2>4. Len(z) = Len(d) /\ o = <<>> /\ \A j \in 1 .. Len(z) : z[j] = d[j]
      BY <2>1, <2>2, <2>3
  <2> QED BY <1>4, <2>4, SeqEqual
<1> QED BY <1>1, <1>2, <1>3, <1>5

\* The styles of valid JSON are styles.
LEMMA QuotedStyles ==
    ASSUME NEW style \in Quoted
    PROVE  style \in Styles /\ style.bare = {} /\ style.spaced = FALSE
<1>1. PICK swap \in BOOLEAN : style = [bare |-> {}, swap |-> swap, spaced |-> FALSE]
    BY DEF Quoted
<1>2. style \in Styles
    BY <1>1 DEF Styles
<1> QED BY <1>1, <1>2

\* Objects are counted.
LEMMA ObjectsType ==
    ASSUME NEW text \in Texts
    PROVE  Objects(Lexemes(text)) \in Nat
<1> DEFINE w == Lexemes(text)
           S == {i \in DOMAIN w : w[i] = <<"{">>}
<1>1. w \in Seq(Texts)
  <2>1. Scan(text).done \in Seq(Texts) /\ Scan(text).open \in Texts
      BY ScanType DEF States
  <2> QED BY <2>1, AppendProperties DEF Lexemes
<1>2. DOMAIN w = 1 .. Len(w) /\ Len(w) \in Nat
    BY <1>1, LenProperties
<1>3. S \subseteq DOMAIN w
    OBVIOUS
<1> HIDE DEF w, S
<1>4. IsFiniteSet(S)
  <2>1. IsFiniteSet(1 .. Len(w))
      BY <1>2, FS_Interval
  <2> QED BY <1>2, <1>3, <2>1, FS_Subset
<1> QED BY <1>4, FS_CardinalityType DEF Objects, S, w

\* A text is read as a value that is written with its lexemes.
LEMMA ReportRead ==
    ASSUME NEW text \in Texts, NEW report \in ReadReport(text)
    PROVE  /\ report \in [version : Values, ek : EntryLists]
           /\ Scan(text).open = <<>>
           /\ \E style \in Styles : style.bare = {} /\ ReportIs(Scan(text).done, report, style)
<1>1. /\ report \in [version : Contents(Lexemes(text)),
                     ek : EntriesIn(Lexemes(text), Objects(Lexemes(text)) - 1)]
      /\ \E style \in Quoted : Lexemes(Report(report, style)) = Lexemes(text)
    BY DEF ReadReport
<1>2. report \in [version : Values, ek : EntryLists]
  <2>1. EntriesIn(Lexemes(text), Objects(Lexemes(text)) - 1) \subseteq EntryLists
      BY EntriesInTyped, ObjectsType
  <2> QED BY <1>1, <2>1, ContentsTyped
<1>3. PICK style \in Quoted : Lexemes(Report(report, style)) = Lexemes(text)
    BY <1>1
<1>4. style \in Styles /\ style.bare = {}
    BY QuotedStyles
<1>5. PICK z : Closed(Report(report, style), z) /\ ReportIs(z, report, style)
    BY <1>2, <1>4, ClosedReport
<1>6. Scan(text).done = z /\ Scan(text).open = <<>>
    BY <1>3, <1>5, SameLexemes
<1> QED BY <1>2, <1>4, <1>5, <1>6

\* ... as a list of entries that is,
LEMMA EntriesRead ==
    ASSUME NEW text \in Texts, NEW entries \in ReadEntries(text)
    PROVE  /\ entries \in EntryLists /\ Scan(text).open = <<>>
           /\ Len(Scan(text).done) = Span(Len(entries))
           /\ \E style \in Styles : style.bare = {} /\ EntriesAt(Scan(text).done, 0, entries, style)
<1>1. /\ entries \in EntriesIn(Lexemes(text), Objects(Lexemes(text)))
      /\ \E style \in Quoted : Lexemes(Entries(entries, style)) = Lexemes(text)
    BY DEF ReadEntries
<1>2. entries \in EntryLists
    BY <1>1, EntriesInTyped, ObjectsType
<1>3. PICK style \in Quoted : Lexemes(Entries(entries, style)) = Lexemes(text)
    BY <1>1
<1>4. style \in Styles /\ style.bare = {}
    BY QuotedStyles
<1>5. PICK z : /\ Closed(Entries(entries, style), z)
               /\ Len(z) = Span(Len(entries)) /\ EntriesAt(z, 0, entries, style)
    BY <1>2, <1>4, ClosedEntries
<1>6. Scan(text).done = z /\ Scan(text).open = <<>>
    BY <1>3, <1>5, SameLexemes
<1> QED BY <1>2, <1>4, <1>5, <1>6

\* ... and as an entry.
LEMMA EntryRead ==
    ASSUME NEW text \in Texts, NEW entries \in ReadEntry(text)
    PROVE  /\ entries \in EntryLists /\ Len(entries) = 1 /\ Scan(text).open = <<>>
           /\ Len(Scan(text).done) = 9
           /\ \E style \in Styles : style.bare = {} /\ EntryAt(Scan(text).done, 0, entries[1], style)
<1>1. /\ entries \in EntriesIn(Lexemes(text), 1)
      /\ \E style \in Quoted : Lexemes(Entry(entries[1], style)) = Lexemes(text)
    BY DEF ReadEntry
<1>2. entries \in EntryLists /\ Len(entries) = 1 /\ entries[1] \in [k : Numbers, v : Values]
  <2>1. 1 \in Int /\ 1 \in Nat
      OBVIOUS
  <2>2. entries \in EntryLists /\ Len(entries) = 1
      BY <1>1, <2>1, EntriesInTyped
  <2>3. 1 \in 1 .. Len(entries)
      BY <2>2
  <2> QED BY <2>2, <2>3, ElementOfSeq DEF EntryLists
<1>3. PICK style \in Quoted : Lexemes(Entry(entries[1], style)) = Lexemes(text)
    BY <1>1
<1>4. style \in Styles /\ style.bare = {}
    BY QuotedStyles
<1>5. PICK z : /\ Closed(Entry(entries[1], style), z)
               /\ Len(z) = 9 /\ EntryAt(z, 0, entries[1], style)
    BY <1>2, <1>4, ClosedEntry
<1>6. Scan(text).done = z /\ Scan(text).open = <<>>
    BY <1>3, <1>5, SameLexemes
<1> QED BY <1>2, <1>4, <1>5, <1>6

\* encoding/json refuses a name without quotes and a zero byte.
LEMMA Refused ==
    ASSUME NEW text \in Texts, NEW j \in 1 .. Len(Scan(text).done),
           ~Inert(Scan(text).done[j])
    PROVE  ReadReport(text) = {} /\ ReadEntries(text) = {} /\ ReadEntry(text) = {}
<1> DEFINE d == Scan(text).done
<1>1. \A style \in Styles : style.bare = {} => ~InPlace(d, j, style)
    BY DEF InPlace, Inert
<1>2. 0 \in Int /\ j \in Int
    OBVIOUS
<1> HIDE DEF d
<1>3. 0 + j = j /\ j \in 1 .. Len(d)
    BY <1>2 DEF d
<1>4. ASSUME NEW report \in ReadReport(text) PROVE FALSE
  <2>1. report \in [version : Values, ek : EntryLists]
      BY ReportRead
  <2>2. PICK style \in Styles : style.bare = {} /\ ReportIs(d, report, style)
      BY ReportRead DEF d
  <2> QED BY <1>1, <1>3, <2>1, <2>2, ReportInPlace
<1>5. ASSUME NEW entries \in ReadEntries(text) PROVE FALSE
  <2>1. entries \in EntryLists /\ Len(d) = Span(Len(entries))
      BY EntriesRead DEF d
  <2>2. PICK style \in Styles : style.bare = {} /\ EntriesAt(d, 0, entries, style)
      BY EntriesRead DEF d
  <2>3. InPlace(d, 0 + j, style)
      BY <1>2, <1>3, <2>1, <2>2, EntriesInPlace
  <2> QED BY <1>1, <1>3, <2>2, <2>3
<1>6. ASSUME NEW entries \in ReadEntry(text) PROVE FALSE
  <2>1. entries \in EntryLists /\ Len(entries) = 1 /\ Len(d) = 9
      BY EntryRead DEF d
  <2>2. PICK style \in Styles : style.bare = {} /\ EntryAt(d, 0, entries[1], style)
      BY EntryRead DEF d
  <2>3. entries[1] \in [k : Numbers, v : Values]
    <3>1. 1 \in 1 .. Len(entries)
        BY <2>1
    <3> QED BY <2>1, <3>1, ElementOfSeq DEF EntryLists
  <2>4. InPlace(d, 0 + j, style)
      BY <1>2, <1>3, <2>1, <2>2, <2>3, EntryInPlace
  <2> QED BY <1>1, <1>3, <2>2, <2>4
<1> QED BY <1>4, <1>5, <1>6

\* Styles that write the members of entries in the same way.
AlikeInEntries(a, b) ==
    /\ Name("k", a) = Name("k", b) /\ Name("v", a) = Name("v", b)
    /\ a.swap = b.swap

\* Styles that are alike write the same lexemes of an entry,
LEMMA EntrySame ==
    ASSUME NEW w, NEW x, NEW o \in Int, NEW entry, NEW a \in Styles, NEW b \in Styles,
           EntryAt(w, o, entry, a), EntryAt(x, o, entry, b), AlikeInEntries(a, b),
           NEW d \in 1 .. 9
    PROVE  w[o + d] = x[o + d]
<1>1. a.swap = FALSE \/ a.swap = TRUE
    BY DEF Styles
<1>2. /\ w[o + 1] = x[o + 1] /\ w[o + 3] = x[o + 3] /\ w[o + 5] = x[o + 5]
      /\ w[o + 7] = x[o + 7] /\ w[o + 9] = x[o + 9]
    BY DEF EntryAt
<1>3. w[o + 2] = x[o + 2] /\ w[o + 4] = x[o + 4] /\ w[o + 6] = x[o + 6] /\ w[o + 8] = x[o + 8]
  <2>1. CASE a.swap = FALSE
    <3>1. b.swap = FALSE
        BY <2>1 DEF AlikeInEntries
    <3> QED BY <2>1, <3>1, Zenon DEF EntryAt, AlikeInEntries
  <2>2. CASE a.swap = TRUE
    <3>1. b.swap = TRUE
        BY <2>2 DEF AlikeInEntries
    <3> QED BY <2>2, <3>1, Zenon DEF EntryAt, AlikeInEntries
  <2> QED BY <1>1, <2>1, <2>2
<1>4. d = 1 \/ d = 2 \/ d = 3 \/ d = 4 \/ d = 5 \/ d = 6 \/ d = 7 \/ d = 8 \/ d = 9
    OBVIOUS
<1> QED BY <1>2, <1>3, <1>4, Zenon

\* ... and of a list of entries.
LEMMA EntriesSame ==
    ASSUME NEW w, NEW x, NEW o \in Int, NEW entries \in EntryLists, NEW a \in Styles, NEW b \in Styles,
           EntriesAt(w, o, entries, a), EntriesAt(x, o, entries, b),
           Len(entries) # 0 => AlikeInEntries(a, b),
           NEW j \in 1 .. Span(Len(entries))
    PROVE  w[o + j] = x[o + j]
<1> DEFINE n == Len(entries)
<1>1. n \in Nat
    BY LenProperties DEF EntryLists
<1>2. /\ w[o + 1] = x[o + 1] /\ w[o + Span(n)] = x[o + Span(n)]
      /\ \A i \in 2 .. n : w[o + 10 * i - 9] = x[o + 10 * i - 9]
      /\ \A i \in 1 .. n : /\ EntryAt(w, o + 10 * i - 9, entries[i], a)
                           /\ EntryAt(x, o + 10 * i - 9, entries[i], b)
    BY DEF EntriesAt
<1>3. j \in 1 .. Span(n) /\ (n # 0 => AlikeInEntries(a, b))
    OBVIOUS
<1> HIDE DEF n
<1>4. CASE j = 1 \/ j = Span(n)
    BY <1>2, <1>4
<1>5. CASE \E i \in 2 .. n : j = 10 * i - 9
  <2>1. PICK i \in 2 .. n : j = 10 * i - 9
      BY <1>5
  <2>2. o + j = o + 10 * i - 9
      BY <1>1, <2>1
  <2> QED BY <1>2, <2>2
<1>6. CASE \E i \in 1 .. n, d \in 1 .. 9 : j = 10 * i - 9 + d
  <2>1. PICK i \in 1 .. n, d \in 1 .. 9 : j = 10 * i - 9 + d
      BY <1>6
  <2>2. PICK p \in Int : p = o + 10 * i - 9
      BY <1>1
  <2>3. p + d = o + j /\ n # 0
      BY <1>1, <2>1, <2>2
  <2>4. EntryAt(w, p, entries[i], a) /\ EntryAt(x, p, entries[i], b)
      BY <1>2, <2>2
  <2>4a. AlikeInEntries(a, b)
      BY <1>3, <2>3
  <2>5. w[p + d] = x[p + d]
      BY <2>4, <2>4a, EntrySame
  <2> QED BY <2>3, <2>5
<1> QED BY <1>1, <1>3, <1>4, <1>5, <1>6, Position

\* What the lexemes of an entry hold, and of entries.
Held(w) == [k : {m \in Numbers : <<m>> \in ToSet(w)}, v : Contents(w)]

\* An entry among the lexemes is one that encoding/json can read.
LEMMA EntryHeld ==
    ASSUME NEW w \in Seq(Texts), NEW p \in Nat, NEW entry \in [k : Numbers, v : Values],
           NEW style \in Styles, EntryAt(w, p, entry, style), p + 9 <= Len(w)
    PROVE  entry \in Held(w)
<1> DEFINE K == {m \in Numbers : <<m>> \in ToSet(w)}
           C == Contents(w)
<1>1. PICK k \in Numbers, v \in Values : k = entry.k /\ v = entry.v
    OBVIOUS
<1>2. entry = [k |-> k, v |-> v]
    BY <1>1
<1>3. /\ DOMAIN w = 1 .. Len(w) /\ Len(w) \in Nat
      /\ \A i \in 1 .. Len(w) : w[i] \in ToSet(w)
    BY ToSetOf
<1>4. /\ p + 4 \in 1 .. Len(w) /\ p + 8 \in 1 .. Len(w)
      /\ p + 4 # 1 /\ p + 8 # 1 /\ (p + 4) - 1 = p + 3 /\ (p + 8) - 1 = p + 7
    BY <1>3
<1>5. /\ w[p + 3] = Colon /\ w[p + 7] = Colon
      /\ \/ w[p + 4] = Lexeme(k) /\ w[p + 8] = Str(v)
         \/ w[p + 4] = Str(v) /\ w[p + 8] = Lexeme(k)
  <2>1. style.swap = FALSE \/ style.swap = TRUE
      BY DEF Styles
  <2> QED BY <1>1, <2>1 DEF EntryAt
<1>6. Lexeme(k) \in ToSet(w)
    BY <1>3, <1>4, <1>5
<1>7. \E j \in 1 .. Len(w) : j # 1 /\ w[j - 1] = Colon /\ w[j] = Str(v)
    BY <1>4, <1>5
<1>8. v \in C
  <2>1. Len(Str(v)) = Len(v) + 2 /\ Len(v) \in Nat /\ SubSeq(Str(v), 2, Len(Str(v)) - 1) = v
      BY StrFacts
  <2>2. PICK j \in DOMAIN w \ {1} : w[j - 1] = Colon /\ w[j] = Str(v)
      BY <1>3, <1>7
  <2>3. Len(w[j]) > 1 /\ SubSeq(w[j], 2, Len(w[j]) - 1) = v /\ w[j - 1] = <<":">>
      BY <2>1, <2>2 DEF Colon, Lexeme
  <2> QED BY <2>2, <2>3, Zenon DEF Contents
<1>9. k \in K
    BY <1>6 DEF Lexeme
<1> HIDE DEF K, C
<1>10. [k |-> k, v |-> v] \in [k : K, v : C]
    BY <1>8, <1>9
<1> QED BY <1>2, <1>10, Zenon DEF Held, K, C

\* ... and so is a list of entries.
LEMMA EntriesHeld ==
    ASSUME NEW w \in Seq(Texts), NEW o \in Nat, NEW entries \in EntryLists, NEW style \in Styles,
           EntriesAt(w, o, entries, style), o + Span(Len(entries)) <= Len(w)
    PROVE  entries \in EntriesIn(w, Len(entries))
<1> DEFINE n == Len(entries)
<1>1. n \in Nat /\ entries = [i \in 1 .. n |-> entries[i]]
      /\ \A i \in 1 .. n : entries[i] \in [k : Numbers, v : Values]
    BY ElementOfSeq, LenProperties DEF EntryLists
<1>2. \A i \in 1 .. n : EntryAt(w, o + 10 * i - 9, entries[i], style)
    BY DEF EntriesAt
<1>3. \A i \in 1 .. n : 10 * i + 1 <= Span(n) /\ Span(n) \in Nat
    BY <1>1, SpanOf
<1>4. o + Span(n) <= Len(w) /\ Len(w) \in Nat
    BY LenProperties
<1> HIDE DEF n
<1>5. ASSUME NEW i \in 1 .. n PROVE entries[i] \in Held(w)
  <2>1. i >= 1 /\ i \in Int /\ 10 * i + 1 <= Span(n) /\ Span(n) \in Nat
      BY <1>1, <1>3
  <2>2. PICK p \in Nat : p = o + 10 * i - 9
    <3>1. o + 10 * i - 9 \in Nat
        BY <2>1
    <3> QED BY <3>1
  <2>3. p + 9 = o + 10 * i
      BY <2>1, <2>2
  <2>4. p + 9 <= Len(w)
      BY <1>4, <2>1, <2>3
  <2>5. EntryAt(w, p, entries[i], style) /\ entries[i] \in [k : Numbers, v : Values]
      BY <1>1, <1>2, <2>2
  <2> QED BY <2>4, <2>5, EntryHeld
<1>6. entries \in [1 .. n -> Held(w)]
    BY <1>1, <1>5
<1> QED BY <1>6 DEF EntriesIn, Held, n

\* The style of valid JSON with the same order.
Mended(style) == [bare |-> {}, swap |-> style.swap, spaced |-> FALSE]

\* What it is.
LEMMA MendedStyle ==
    ASSUME NEW style \in Styles
    PROVE  /\ Mended(style) \in Quoted /\ Mended(style) \in Styles
           /\ Mended(style).bare = {} /\ Mended(style).swap = style.swap
<1>1. Mended(style) \in Quoted
    BY DEF Mended, Quoted, Styles
<1> QED BY <1>1, QuotedStyles DEF Mended

\* Entries with quoted names are valid JSON.
LEMMA AlikeMended ==
    ASSUME NEW style \in Styles, style.bare \cap {"k", "v"} = {}
    PROVE  AlikeInEntries(style, Mended(style))
<1> DEFINE m == Mended(style)
<1>1. m \in Styles /\ m.bare = {} /\ m.swap = style.swap
    BY MendedStyle
<1>2. "k" \in Names /\ "v" \in Names /\ "k" \notin style.bare /\ "v" \notin style.bare
    BY DEF Names
<1> HIDE DEF m
<1>3. Name("k", style) = QuotedName("k") /\ Name("v", style) = QuotedName("v")
    BY <1>2, NameFacts
<1>4. Name("k", m) = QuotedName("k") /\ Name("v", m) = QuotedName("v")
    BY <1>1, <1>2, NameFacts
<1> QED BY <1>1, <1>3, <1>4, Zenon DEF AlikeInEntries, m

\* Entries in valid JSON are read.
LEMMA EntriesReadable ==
    ASSUME NEW style \in Styles, NEW entries \in EntryLists,
           style.bare \cap {"k", "v"} = {} \/ Len(entries) = 0
    PROVE  entries \in ReadEntries(Entries(entries, style))
<1> DEFINE n == Len(entries)
           text == Entries(entries, style)
           m == Mended(style)
           w == Lexemes(text)
<1>1. n \in Nat /\ Span(n) \in Nat /\ \A i \in 1 .. n : 10 * i + 1 <= Span(n)
    BY LenProperties, SpanOf DEF EntryLists
<1>2. m \in Quoted /\ m \in Styles
    BY MendedStyle
<1>3. PICK z : Closed(text, z) /\ Len(z) = Span(n) /\ EntriesAt(z, 0, entries, style)
    BY ClosedEntries
<1>4. PICK y : Closed(Entries(entries, m), y) /\ Len(y) = Span(n) /\ EntriesAt(y, 0, entries, m)
    BY <1>2, ClosedEntries
<1>5. y = z
  <2>1. n # 0 => AlikeInEntries(style, m)
      BY AlikeMended
  <2> HIDE DEF m, text, w
  <2>2. ASSUME NEW j \in 1 .. Span(Len(entries)) PROVE z[j] = y[j]
    <3>1. EntriesAt(z, 0, entries, style) /\ EntriesAt(y, 0, entries, m) /\ 0 \in Int
        BY <1>3, <1>4
    <3>2. Len(entries) # 0 => AlikeInEntries(style, m)
        BY <2>1
    <3>3. z[0 + j] = y[0 + j]
        BY <1>2, <3>1, <3>2, EntriesSame
    <3>4. 0 + j = j
        OBVIOUS
    <3> QED BY <3>3, <3>4
  <2>3. \A j \in 1 .. Span(n) : z[j] = y[j]
      BY <2>2
  <2> QED BY <1>3, <1>4, <2>3, SeqEqual DEF Closed
<1>6. text \in Texts /\ z \in Seq(Texts) /\ Scan(text).done = z /\ Scan(text).open = <<>>
  <2> HIDE DEF text, w, m
  <2>1. Scan(text) = [done |-> z, open |-> <<>>]
      BY <1>3, ClosedScan
  <2> QED BY <1>3, <2>1 DEF Closed
<1> HIDE DEF text, m
<1>7. w = Append(z, <<>>) /\ Lexemes(Entries(entries, m)) = w
    BY <1>3, <1>4, <1>5, <1>6, SameLexemes
<1>8. /\ w \in Seq(Texts) /\ Len(w) = Span(n) + 1 /\ w[Span(n) + 1] = <<>>
      /\ \A j \in 1 .. Span(n) : w[j] = z[j]
  <2>1. <<>> \in Texts
      BY EmptySeq DEF Texts
  <2> QED BY <1>3, <1>6, <1>7, <2>1, AppendProperties
<1> HIDE DEF w, n
<1>9. EntriesAt(w, 0, entries, style)
  <2>1. \A j \in 1 .. Span(Len(entries)) : w[0 + j] = z[0 + j]
      BY <1>8 DEF n
  <2>2. EntriesAt(z, 0, entries, style) /\ 0 \in Int
      BY <1>3
  <2> QED BY <2>1, <2>2, EntriesMoved
<1>10. entries \in EntriesIn(w, n)
  <2>1. 0 + Span(n) <= Len(w) /\ 0 \in Nat
      BY <1>1, <1>8
  <2> QED BY <1>8, <1>9, <2>1, EntriesHeld DEF n
<1>11. Objects(w) = n
  <2> DEFINE S == {i \in DOMAIN w : w[i] = <<"{">>}
  <2>1. \A j : j \in S <=> j \in 1 .. Len(w) /\ w[j] = ObjectOpens
      BY <1>8, LenProperties DEF ObjectOpens, Lexeme
  <2> HIDE DEF S
  <2>2. \A j \in 1 .. Span(n) : w[0 + j] = ObjectOpens <=> \E i \in 1 .. n : j = 10 * i - 8
      BY <1>9, EntriesInPlace DEF n
  <2>3. ObjectOpens # <<>>
      BY DEF ObjectOpens, Lexeme
  <2>4. ASSUME NEW j PROVE j \in S <=> j \in Int /\ \E i \in 1 .. n : j = -8 + 10 * i
    <3>1. ASSUME j \in 1 .. Span(n)
          PROVE  j \in S <=> j \in Int /\ \E i \in 1 .. n : j = -8 + 10 * i
      <4>1. 0 + j = j /\ j \in 1 .. Len(w)
          BY <1>1, <1>8, <3>1
      <4>2. w[j] = ObjectOpens <=> \E i \in 1 .. n : j = 10 * i - 8
          BY <2>2, <3>1, <4>1
      <4>3. \A i \in 1 .. n : 10 * i - 8 = -8 + 10 * i
          BY <1>1
      <4> QED BY <2>1, <3>1, <4>1, <4>2, <4>3
    <3>2. ASSUME j \notin 1 .. Span(n) PROVE j \notin S
        BY <1>1, <1>8, <2>1, <2>3, <3>2
    <3>3. ASSUME j \in Int, NEW i \in 1 .. n, j = -8 + 10 * i PROVE j \in 1 .. Span(n)
        BY <1>1, <3>3
    <3> QED BY <3>1, <3>2, <3>3
  <2>5. -8 \in Int
      OBVIOUS
  <2>6. Cardinality(S) = n
      BY <1>1, <2>4, <2>5, Counted
  <2> QED BY <2>6 DEF Objects, S
<1>12. entries \in EntriesIn(w, Objects(w)) /\ Lexemes(Entries(entries, m)) = w
    BY <1>7, <1>10, <1>11
<1> QED BY <1>2, <1>12, Zenon DEF ReadEntries, w, text

\* One entry in valid JSON is read.
LEMMA EntryReadable ==
    ASSUME NEW style \in Styles, NEW entries \in EntryLists, Len(entries) = 1,
           style.bare \cap {"k", "v"} = {}
    PROVE  entries \in ReadEntry(Entry(entries[1], style))
<1> DEFINE entry == entries[1]
           text == Entry(entry, style)
           m == Mended(style)
           w == Lexemes(text)
<1>1. entry \in [k : Numbers, v : Values] /\ entries = [i \in 1 .. 1 |-> entries[i]]
  <2>1. 1 \in 1 .. Len(entries)
      OBVIOUS
  <2>2. entry \in [k : Numbers, v : Values]
      BY <2>1, ElementOfSeq DEF EntryLists
  <2>3. entries = [i \in 1 .. Len(entries) |-> entries[i]]
      BY LenProperties DEF EntryLists
  <2> QED BY <2>2, <2>3
<1>2. m \in Quoted /\ m \in Styles /\ AlikeInEntries(style, m)
    BY MendedStyle, AlikeMended
<1> HIDE DEF m, entry
<1>3. PICK z : Closed(text, z) /\ Len(z) = 9 /\ EntryAt(z, 0, entry, style)
    BY <1>1, ClosedEntry
<1>4. PICK y : Closed(Entry(entry, m), y) /\ Len(y) = 9 /\ EntryAt(y, 0, entry, m)
    BY <1>1, <1>2, ClosedEntry
<1> HIDE DEF text, w
<1>5. y = z
  <2>1. ASSUME NEW j \in 1 .. 9 PROVE z[j] = y[j]
    <3>1. EntryAt(z, 0, entry, style) /\ EntryAt(y, 0, entry, m) /\ 0 \in Int
        BY <1>3, <1>4
    <3>2. m \in Styles /\ AlikeInEntries(style, m)
        BY <1>2
    <3>3. z[0 + j] = y[0 + j]
        BY <3>1, <3>2, EntrySame
    <3>4. 0 + j = j
        OBVIOUS
    <3> QED BY <3>3, <3>4
  <2> QED BY <1>3, <1>4, <2>1, SeqEqual DEF Closed
<1>6. text \in Texts /\ z \in Seq(Texts) /\ Scan(text).done = z /\ Scan(text).open = <<>>
  <2>1. Scan(text) = [done |-> z, open |-> <<>>]
      BY <1>3, ClosedScan
  <2> QED BY <1>3, <2>1 DEF Closed
<1>7. w = Append(z, <<>>) /\ Lexemes(Entry(entry, m)) = w
    BY <1>3, <1>4, <1>5, <1>6, SameLexemes DEF w
<1>8. /\ w \in Seq(Texts) /\ Len(w) = 10
      /\ \A j \in 1 .. 9 : w[j] = z[j]
  <2>1. <<>> \in Texts
      BY EmptySeq DEF Texts
  <2>2. w \in Seq(Texts) /\ Len(w) = Len(z) + 1 /\ \A j \in 1 .. Len(z) : w[j] = z[j]
      BY <1>6, <1>7, <2>1, AppendProperties
  <2> QED BY <1>3, <2>2
<1>9. entry \in Held(w)
  <2>1. \A j \in 1 .. 9 : w[0 + j] = z[0 + j]
      BY <1>8
  <2>2. EntryAt(w, 0, entry, style)
      BY <1>3, <2>1, EntryMoved
  <2>3. 0 + 9 <= Len(w) /\ 0 \in Nat
      BY <1>8
  <2> QED BY <1>1, <1>8, <2>2, <2>3, EntryHeld
<1>10. entries \in [1 .. 1 -> Held(w)]
    BY <1>1, <1>9 DEF entry
<1>11. entries \in EntriesIn(w, 1)
    BY <1>10 DEF EntriesIn, Held
<1> QED BY <1>2, <1>7, <1>11, Zenon DEF ReadEntry, w, text, entry

-----------------------------------------------------------------------------
(* Injections.                                                             *)

\* What is left alone is repaired.
LEMMA FixedSelf ==
    ASSUME NEW a
    PROVE  Fixed(a, a)
BY DEF Fixed

\* The lexemes of an injection with a name that has no quotes.
LEMMA EntryBare ==
    ASSUME NEW w, NEW o \in Int, NEW entry, NEW style \in Styles,
           EntryAt(w, o, entry, style), style.bare \cap {"k", "v"} # {}
    PROVE  \E d \in 1 .. 9 : ~Inert(w[o + d])
<1>1. PICK name \in {"k", "v"} : name \in style.bare
    OBVIOUS
<1>2. name \in Names /\ (name = "k" \/ name = "v")
    BY DEF Names
<1>3. ~Inert(Name(name, style))
    BY <1>1, <1>2, NameFacts DEF Inert, Bare
<1>4. \/ w[o + 2] = Name("k", style) /\ w[o + 6] = Name("v", style)
      \/ w[o + 2] = Name("v", style) /\ w[o + 6] = Name("k", style)
  <2>1. style.swap = FALSE \/ style.swap = TRUE
      BY DEF Styles
  <2> QED BY <2>1 DEF EntryAt
<1>5. ~Inert(w[o + 2]) \/ ~Inert(w[o + 6])
    BY <1>2, <1>3, <1>4, Zenon
<1>6. 2 \in 1 .. 9 /\ 6 \in 1 .. 9
    OBVIOUS
<1> QED BY <1>5, <1>6

\* An array with such an injection.
LEMMA EntriesBare ==
    ASSUME NEW style \in Styles, NEW entries \in EntryLists, Len(entries) # 0,
           style.bare \cap {"k", "v"} # {}
    PROVE  \E j \in 1 .. Len(Scan(Entries(entries, style)).done) :
               ~Inert(Scan(Entries(entries, style)).done[j])
<1> DEFINE n == Len(entries)
           text == Entries(entries, style)
<1>1. PICK z : Closed(text, z) /\ Len(z) = Span(n) /\ EntriesAt(z, 0, entries, style)
    BY ClosedEntries
<1>2. Scan(text).done = z
  <2> HIDE DEF text
  <2>1. Scan(text) = [done |-> z, open |-> <<>>]
      BY <1>1, ClosedScan
  <2> QED BY <2>1
<1>3. n \in Nat /\ n # 0 /\ 1 \in 1 .. n
    BY LenProperties DEF EntryLists
<1>4. 10 * 1 + 1 <= Span(n) /\ Span(n) \in Nat
    BY <1>3, SpanOf
<1>5. EntryAt(z, 0 + 10 * 1 - 9, entries[1], style)
    BY <1>1, <1>3 DEF EntriesAt
<1>6. PICK p \in Int : p = 0 + 10 * 1 - 9
    OBVIOUS
<1>7. PICK d \in 1 .. 9 : ~Inert(z[p + d])
    BY <1>5, <1>6, EntryBare
<1>8. p + d \in 1 .. Span(n)
    BY <1>4, <1>6
<1> QED BY <1>1, <1>2, <1>7, <1>8

\* What PostAdminInject reads of entries in an array.
LEMMA EntriesInjected ==
    ASSUME NEW style \in Styles, NEW entries \in EntryLists
    PROVE  PostAdminInjectBody(Entries(entries, style))
             = IF style.bare \cap {"k", "v"} = {} \/ entries = <<>> THEN {entries} ELSE {}
<1> DEFINE n == Len(entries)
           text == Entries(entries, style)
<1>1. PICK z : Closed(text, z) /\ Len(z) = Span(n) /\ EntriesAt(z, 0, entries, style)
    BY ClosedEntries
<1>2. text \in Texts /\ Scan(text).done = z
  <2> HIDE DEF text
  <2>1. Scan(text) = [done |-> z, open |-> <<>>]
      BY <1>1, ClosedScan
  <2> QED BY <1>1, <2>1 DEF Closed
<1>3. n \in Nat /\ (n = 0 <=> entries = <<>>)
    BY LenProperties, EmptySeq DEF EntryLists
<1>4. entries \in ReadEntries(text) \/ ~(style.bare \cap {"k", "v"} = {} \/ n = 0)
    BY EntriesReadable
<1>5. ~(style.bare \cap {"k", "v"} = {} \/ n = 0) =>
          \E j \in 1 .. Len(Scan(text).done) : ~Inert(Scan(text).done[j])
    BY EntriesBare
<1> HIDE DEF text
<1>6. ASSUME NEW other \in ReadEntries(text) PROVE other = entries
  <2>1. other \in EntryLists /\ Len(z) = Span(Len(other))
      BY <1>2, EntriesRead
  <2>2. PICK repaired \in Styles : EntriesAt(z, 0, other, repaired)
      BY <1>2, EntriesRead
  <2>3. Len(other) = Len(entries)
    <3>1. Len(other) \in Nat /\ Span(Len(other)) = Span(n)
        BY <1>1, <2>1, LenProperties DEF EntryLists
    <3> QED BY <1>3, <3>1, SpanOf
  <2>4. \A j \in 1 .. Span(Len(entries)) : Fixed(z[0 + j], z[0 + j])
      BY FixedSelf
  <2>5. EntriesAt(z, 0, entries, style) /\ 0 \in Int
      BY <1>1
  <2> QED BY <2>1, <2>2, <2>3, <2>4, <2>5, EntriesUnique
<1>7. ReadEntry(text) = {}
  <2>1. ASSUME NEW other \in ReadEntry(text) PROVE FALSE
    <3>1. Len(z) = 9
        BY <1>2, <2>1, EntryRead
    <3>2. Span(n) = 9
        BY <1>1, <3>1
    <3> QED BY <1>3, <3>2 DEF Span
  <2> QED BY <2>1
<1>8. CASE style.bare \cap {"k", "v"} = {} \/ n = 0
  <2>1. ReadEntries(text) = {entries}
      BY <1>4, <1>6, <1>8
  <2> QED BY <1>3, <1>8, <2>1 DEF PostAdminInjectBody, text
<1>9. CASE ~(style.bare \cap {"k", "v"} = {} \/ n = 0)
  <2>1. ReadEntries(text) = {}
      BY <1>2, <1>5, <1>9, Refused
  <2>2. PostAdminInjectBody(text) = {}
      BY <1>7, <2>1 DEF PostAdminInjectBody
  <2> QED BY <1>3, <1>9, <2>2 DEF text
<1> QED BY <1>8, <1>9

\* ... and of one entry alone.
LEMMA EntryInjected ==
    ASSUME NEW style \in Styles, NEW entries \in EntryLists, Len(entries) = 1
    PROVE  PostAdminInjectBody(Entry(entries[1], style))
             = IF style.bare \cap {"k", "v"} = {} THEN {entries} ELSE {}
<1> DEFINE entry == entries[1]
           text == Entry(entry, style)
<1>1. entry \in [k : Numbers, v : Values] /\ entries = [i \in 1 .. 1 |-> entries[i]]
  <2>1. 1 \in 1 .. Len(entries)
      OBVIOUS
  <2>2. entry \in [k : Numbers, v : Values]
      BY <2>1, ElementOfSeq DEF EntryLists
  <2>3. entries = [i \in 1 .. Len(entries) |-> entries[i]]
      BY LenProperties DEF EntryLists
  <2> QED BY <2>2, <2>3
<1>2. entries \in ReadEntry(text) \/ style.bare \cap {"k", "v"} # {}
    BY EntryReadable
<1> HIDE DEF entry
<1>3. PICK z : Closed(text, z) /\ Len(z) = 9 /\ EntryAt(z, 0, entry, style)
    BY <1>1, ClosedEntry
<1> HIDE DEF text
<1>4. text \in Texts /\ Scan(text).done = z
  <2>1. Scan(text) = [done |-> z, open |-> <<>>]
      BY <1>3, ClosedScan
  <2> QED BY <1>3, <2>1 DEF Closed
<1>5. ASSUME NEW other \in ReadEntry(text) PROVE other = entries
  <2>1. other \in EntryLists /\ Len(other) = 1
      BY EntryRead, <1>4
  <2>2. PICK repaired \in Styles : EntryAt(z, 0, other[1], repaired)
      BY <1>4, EntryRead
  <2>3. other[1] \in [k : Numbers, v : Values]
    <3>1. 1 \in 1 .. Len(other)
        BY <2>1
    <3> QED BY <2>1, <3>1, ElementOfSeq DEF EntryLists
  <2>4. \A d \in 1 .. 9 : Fixed(z[0 + d], z[0 + d])
      BY FixedSelf
  <2>5. other[1] = entry
      BY <1>1, <1>3, <2>2, <2>3, <2>4, EntryUnique
  <2>6. \A i \in 1 .. Len(other) : other[i] = entries[i]
      BY <2>1, <2>5 DEF entry
  <2> QED BY <2>1, <2>6, SeqEqual DEF EntryLists
<1>6. ReadEntries(text) = {}
  <2>1. ASSUME NEW other \in ReadEntries(text) PROVE FALSE
    <3>1. other \in EntryLists /\ Span(Len(other)) = 9
        BY <1>3, <1>4, <2>1, EntriesRead
    <3>2. Len(other) \in Nat
        BY <3>1, LenProperties DEF EntryLists
    <3> QED BY <3>1, <3>2 DEF Span
  <2> QED BY <2>1
<1>7. CASE style.bare \cap {"k", "v"} = {}
  <2>1. ReadEntry(text) = {entries}
      BY <1>2, <1>5, <1>7
  <2> QED BY <1>6, <1>7, <2>1 DEF PostAdminInjectBody, text, entry
<1>8. CASE style.bare \cap {"k", "v"} # {}
  <2>1. PICK d \in 1 .. 9 : ~Inert(z[0 + d])
      BY <1>3, <1>8, EntryBare
  <2>2. d \in 1 .. Len(Scan(text).done) /\ ~Inert(Scan(text).done[d])
    <3>1. 0 + d = d
        OBVIOUS
    <3>2. ~Inert(z[d])
        BY <2>1, <3>1
    <3> QED BY <1>3, <1>4, <3>2
  <2>3. PostAdminInjectBody(text) = {}
      BY <1>4, <1>6, <2>2, Refused DEF PostAdminInjectBody
  <2> QED BY <1>8, <2>3 DEF text, entry
<1> QED BY <1>7, <1>8
=============================================================================
