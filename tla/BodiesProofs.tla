----------------------------- MODULE BodiesProofs -----------------------------
(***************************************************************************)
(* What the handlers read of a body.  A body that was cut keeps its zero   *)
(* bytes and is refused.  Of any other, NormalizeJSON changes no lexeme    *)
(* except names without quotes, or it breaks a string beyond repair: so a  *)
(* report is read as what its sender meant, or refused (Follows, Kept).    *)
(* And if devices write no blanks and no value holds what the rules look   *)
(* for, every name is quoted: reports are read (Tight, Free, Quoting).     *)
(***************************************************************************)
EXTENDS LexemeProofs

-----------------------------------------------------------------------------
(* The repair.                                                             *)

\* The rules are of this form: a name is quoted after one of these marks.
Befores == {"{", ",", "["}
Sound(rule) ==
    /\ rule.before \in Befores /\ rule.name \in Names
    /\ \/ rule.adds = <<>>
       \/ rule.adds = <<"{">> /\ Lexeme(rule.before) = ArrayOpens

\* A rule applies at i.
Found(text, rule, i) ==
    /\ i \in 2 .. Len(text) - 1
    /\ text[i - 1] = rule.before /\ text[i] = rule.name /\ text[i + 1] = ":"

\* What a rule puts into a text.
LEMMA AddsType ==
    ASSUME NEW rule, Sound(rule)
    PROVE  /\ QuotedName(rule.name) \in Texts /\ rule.adds \in Texts
           /\ rule.adds \o QuotedName(rule.name) \in Texts
<1>1. QuotedName(rule.name) \in Texts
  <2>1. PICK t \in Tokens : t = rule.name
      BY SpecialTokens DEF Sound
  <2>2. \A u \in Tokens : <<u>> \in Texts
      BY AppendOne, EmptySeq DEF Texts
  <2>3. <<Quote>> \o <<t>> = <<Quote, t>> /\ <<Quote, t>> \o <<Quote>> = <<Quote, t, Quote>>
      BY Pair, Triple
  <2>4. <<Quote, t>> \in Texts
      BY <2>2, <2>3, SpecialTokens, ConcatProperties DEF Texts
  <2>5. <<Quote, t, Quote>> \in Texts
      BY <2>2, <2>3, <2>4, SpecialTokens, ConcatProperties DEF Texts
  <2> QED BY <2>1, <2>5 DEF QuotedName
<1>2. <<>> \in Texts /\ <<"{">> \in Texts
  <2>1. "{" \in Tokens
      BY SpecialTokens DEF Marks
  <2> QED BY <2>1, AppendOne, EmptySeq DEF Texts
<1>3. rule.adds \in Texts
    BY <1>2, Zenon DEF Sound
<1> QED BY <1>1, <1>3, ConcatProperties DEF Texts

\* A text is rewritten token by token.
LEMMA Rewritten ==
    ASSUME NEW text \in Texts, NEW rule, Sound(rule)
    PROVE  \E f : /\ f[0] = <<>>
                  /\ \A k \in 0 .. Len(text) : f[k] \in Texts
                  /\ \A k \in 1 .. Len(text) :
                        IF Found(text, rule, k)
                        THEN f[k] = f[k - 1] \o (rule.adds \o QuotedName(rule.name))
                        ELSE f[k] = Append(f[k - 1], text[k])
                  /\ Rewrite(text, rule) = f[Len(text)]
<1> DEFINE n == Len(text)
           new == rule.adds \o QuotedName(rule.name)
           pieces == [i \in DOMAIN text |-> IF Found(text, rule, i) THEN new ELSE <<text[i]>>]
<1>1. n \in Nat /\ DOMAIN text = 1 .. n /\ \A i \in 1 .. n : text[i] \in Tokens
    BY ElementOfSeq, LenProperties DEF Texts
<1>2. Rewrite(text, rule) = FlattenSeq(pieces)
    BY Zenon DEF Rewrite, Found, QuotedName
<1>3. new \in Texts
    BY AddsType
<1>4. \A i \in 1 .. n : <<text[i]>> \in Texts
    BY <1>1, AppendOne, EmptySeq DEF Texts
<1> HIDE DEF new, n
<1>5. \A i \in 1 .. n : /\ Found(text, rule, i) => pieces[i] = new
                        /\ ~Found(text, rule, i) => pieces[i] = <<text[i]>>
    BY <1>1
<1>6. pieces \in [1 .. n -> Texts]
    BY <1>1, <1>3, <1>4
<1> HIDE DEF pieces
<1>7. pieces \in Seq(Texts) /\ Len(pieces) = n
    BY <1>1, <1>6
<1>8. PICK f : /\ f[0] = <<>>
               /\ \A k \in 0 .. n : f[k] \in Texts
               /\ \A k \in 1 .. n : f[k] = f[k - 1] \o pieces[k]
               /\ FlattenSeq(pieces) = f[n]
    BY <1>7, Flattened
<1>9. ASSUME NEW k \in 1 .. n
      PROVE  IF Found(text, rule, k) THEN f[k] = f[k - 1] \o new ELSE f[k] = Append(f[k - 1], text[k])
  <2>1. CASE Found(text, rule, k)
      BY <1>5, <1>8, <2>1
  <2>2. CASE ~Found(text, rule, k)
    <3>1. f[k] = f[k - 1] \o <<text[k]>>
        BY <1>5, <1>8, <2>2
    <3>2. f[k - 1] \in Texts /\ text[k] \in Tokens
        BY <1>1, <1>8
    <3> QED BY <2>2, <3>1, <3>2, AppendOne DEF Texts
  <2> QED BY <2>1, <2>2
<1> QED BY <1>2, <1>8, <1>9 DEF n, new

\* A text that is rewritten is a text.
LEMMA RewriteType ==
    ASSUME NEW text \in Texts, NEW rule, Sound(rule)
    PROVE  Rewrite(text, rule) \in Texts
<1>1. Len(text) \in 0 .. Len(text)
    BY LenProperties DEF Texts
<1>2. PICK f : /\ \A k \in 0 .. Len(text) : f[k] \in Texts
               /\ Rewrite(text, rule) = f[Len(text)]
    BY Rewritten
<1> QED BY <1>1, <1>2

\* The six rules of json_normalizer.go.
LEMMA SoundRules == Len(Rules) = 6 /\ \A k \in 1 .. 6 : Sound(Rules[k])
<1>1. Len(Rules) = 6
    BY DEF Rules
<1>2. /\ "{" \in Befores /\ "," \in Befores /\ "[" \in Befores
      /\ "k" \in Names /\ "v" \in Names /\ "version" \in Names /\ "ek" \in Names
    BY DEF Befores, Names
<1>3. \A before \in Befores, name \in Names : Sound(Rule(before, name, <<>>))
    BY DEF Sound, Rule
<1>4. Sound(Rule("[", "k", <<"{">>))
    BY <1>2, Zenon DEF Sound, Rule, ArrayOpens
<1>5. /\ Rules[1] = Rule("{", "k", <<>>) /\ Rules[2] = Rule(",", "v", <<>>)
      /\ Rules[3] = Rule("[", "k", <<"{">>) /\ Rules[4] = Rule("{", "version", <<>>)
      /\ Rules[5] = Rule(",", "version", <<>>) /\ Rules[6] = Rule(",", "ek", <<>>)
    BY DEF Rules
<1>6. /\ Sound(Rules[1]) /\ Sound(Rules[2]) /\ Sound(Rules[3])
      /\ Sound(Rules[4]) /\ Sound(Rules[5]) /\ Sound(Rules[6])
    BY <1>2, <1>3, <1>4, <1>5, Zenon
<1> QED BY <1>1, <1>6

\* The texts between one rule and the next.
LEMMA Normalized ==
    ASSUME NEW text \in Texts
    PROVE  \E f \in [0 .. 6 -> Texts] :
              /\ f[0] = text
              /\ \A k \in 1 .. 6 : f[k] = Rewrite(f[k - 1], Rules[k])
              /\ NormalizeJSON(text) = f[6]
<1> DEFINE step == [k \in 1 .. 6 |-> [t \in Texts |-> Rewrite(t, Rules[k])]]
           Runs(f) == f = [k \in 0 .. 6 |-> IF k = 0 THEN text ELSE Rewrite(f[k - 1], Rules[k])]
           after == CHOOSE f : Runs(f)
<1>1. NormalizeJSON(text) = after[6]
  <2>1. Len(Rules) = 6
      BY SoundRules
  <2> QED BY <2>1, Zenon DEF NormalizeJSON, Repair
<1>2. step \in [1 .. 6 -> [Texts -> Texts]]
    BY SoundRules, RewriteType
<1>3. \A k \in 1 .. 6, t \in Texts : step[k][t] = Rewrite(t, Rules[k])
    OBVIOUS
<1> HIDE DEF step
<1>4. PICK f : Builds(f, 6, Texts, text, step) /\ IsOnly(f, 6, Texts, text, step)
  <2>1. 6 \in Nat
      OBVIOUS
  <2> QED BY <1>2, <2>1, Recursion
<1>5. /\ f \in [0 .. 6 -> Texts] /\ f[0] = text
      /\ \A k \in 1 .. 6 : f[k - 1] \in Texts /\ f[k] = Rewrite(f[k - 1], Rules[k])
  <2>1. /\ f \in [0 .. 6 -> Texts] /\ f[0] = text
        /\ \A k \in 1 .. 6 : f[k] = step[k][f[k - 1]]
      BY <1>4 DEF Builds
  <2>2. \A k \in 1 .. 6 : f[k - 1] \in Texts
      BY <2>1
  <2> QED BY <1>3, <2>1, <2>2
<1>6. Runs(f)
    BY <1>5
<1>7. Runs(after)
    BY <1>6, Zenon
<1>8. after[0] = text /\ \A k \in 1 .. 6 : after[k] = Rewrite(after[k - 1], Rules[k])
  <2> HIDE DEF after
  <2>1. \A k \in 0 .. 6 : after[k] = IF k = 0 THEN text ELSE Rewrite(after[k - 1], Rules[k])
      BY <1>7
  <2> QED BY <2>1
<1> HIDE DEF after
<1>9. \A k \in 0 .. 6 : after[k] = f[k]
    BY <1>3, <1>4, <1>8 DEF IsOnly
<1>10. NormalizeJSON(text) = f[6]
    BY <1>1, <1>9
<1> QED BY <1>5, <1>10

-----------------------------------------------------------------------------
(* A body that was cut: its zero bytes stay, and encoding/json refuses it. *)

\* A text with a zero byte.
Zeroed(text) == \E i \in 1 .. Len(text) : text[i] = Nul

\* A rule leaves a zero byte where it is.
LEMMA ZeroedRewrite ==
    ASSUME NEW text \in Texts, NEW rule, Sound(rule), Zeroed(text)
    PROVE  Zeroed(Rewrite(text, rule))
<1> DEFINE n == Len(text)
<1>1. PICK i \in 1 .. n : text[i] = Nul
    BY DEF Zeroed
<1>2. n \in Nat /\ \A k \in 1 .. n : text[k] \in Tokens
    BY ElementOfSeq, LenProperties DEF Texts
<1>3. PICK f : /\ \A k \in 0 .. n : f[k] \in Texts
               /\ \A k \in 1 .. n :
                     IF Found(text, rule, k)
                     THEN f[k] = f[k - 1] \o (rule.adds \o QuotedName(rule.name))
                     ELSE f[k] = Append(f[k - 1], text[k])
               /\ Rewrite(text, rule) = f[n]
    BY Rewritten
<1>4. rule.adds \o QuotedName(rule.name) \in Texts
    BY AddsType
<1> HIDE DEF n
<1> DEFINE T == {k \in Nat : i + k <= n => Zeroed(f[i + k])}
<1>5. 0 \in T
  <2>1. ~Found(text, rule, i)
    <3>1. rule.name # Nul
        BY DEF Sound, Names, Nul
    <3> QED BY <1>1, <3>1 DEF Found
  <2>2. PICK u \in Texts : f[i] = Append(u, Nul)
    <3>1. i \in 1 .. n /\ i - 1 \in 0 .. n
        BY <1>1, <1>2
    <3>2. f[i] = Append(f[i - 1], text[i])
        BY <1>3, <2>1, <3>1
    <3> QED BY <1>1, <1>3, <3>1, <3>2
  <2>3. Len(f[i]) = Len(u) + 1 /\ Len(u) \in Nat /\ f[i][Len(u) + 1] = Nul
    <3>1. u \in Seq(Tokens) /\ Nul \in Tokens
        BY SpecialTokens DEF Texts
    <3>2. /\ Len(Append(u, Nul)) = Len(u) + 1 /\ Len(u) \in Nat
          /\ Append(u, Nul)[Len(u) + 1] = Nul
        BY <3>1, AppendProperties, LenProperties
    <3> QED BY <2>2, <3>2
  <2>4. Zeroed(f[i])
      BY <2>3 DEF Zeroed
  <2>5. i + 0 = i
      BY <1>1
  <2> QED BY <2>4, <2>5
<1>6. ASSUME NEW k \in Nat, k \in T PROVE k + 1 \in T
  <2> SUFFICES ASSUME i + (k + 1) <= n PROVE Zeroed(f[i + (k + 1)])
      OBVIOUS
  <2>1. PICK m \in 1 .. n : m = i + (k + 1) /\ m - 1 = i + k /\ m - 1 \in 0 .. n
      BY <1>1, <1>2
  <2>2. Zeroed(f[m - 1]) /\ f[m - 1] \in Texts
    <3>1. i + k <= n
        BY <1>1, <1>2
    <3> QED BY <1>3, <1>6, <2>1, <3>1
  <2>3. PICK j \in 1 .. Len(f[m - 1]) : f[m - 1][j] = Nul
      BY <2>2 DEF Zeroed
  <2>4. PICK u \in Texts : f[m] = f[m - 1] \o u
    <3>1. CASE Found(text, rule, m)
        BY <1>3, <1>4, <3>1
    <3>2. CASE ~Found(text, rule, m)
      <4>1. <<text[m]>> \in Texts /\ f[m] = f[m - 1] \o <<text[m]>>
          BY <1>2, <1>3, <2>2, <3>2, AppendOne, EmptySeq, ZenonT(60) DEF Texts
      <4> QED BY <4>1
    <3> QED BY <3>1, <3>2
  <2>5. /\ Len(f[m]) = Len(f[m - 1]) + Len(u) /\ Len(f[m - 1]) \in Nat /\ Len(u) \in Nat
        /\ \A x \in 1 .. Len(f[m - 1]) : f[m][x] = f[m - 1][x]
      BY <2>2, <2>4, ConcatProperties, LenProperties DEF Texts
  <2>6. j \in 1 .. Len(f[m]) /\ f[m][j] = Nul
      BY <2>3, <2>5, SMTT(30)
  <2> QED BY <2>1, <2>6 DEF Zeroed
<1>7. n - i \in T
  <2> HIDE DEF T
  <2>1. n - i \in Nat
      BY <1>1, <1>2
  <2> QED BY <1>5, <1>6, <2>1, NatSetInduction
<1>8. i + (n - i) = n
    BY <1>1, <1>2
<1> QED BY <1>2, <1>3, <1>7, <1>8

\* ... and so do all the rules.
LEMMA ZeroedNormalize ==
    ASSUME NEW text \in Texts, Zeroed(text)
    PROVE  NormalizeJSON(text) \in Texts /\ Zeroed(NormalizeJSON(text))
<1>1. PICK f \in [0 .. 6 -> Texts] :
              /\ f[0] = text
              /\ \A k \in 1 .. 6 : f[k] = Rewrite(f[k - 1], Rules[k])
              /\ NormalizeJSON(text) = f[6]
    BY Normalized
<1>2. \A k \in 1 .. 6 : f[k - 1] \in Texts /\ Sound(Rules[k])
    BY SoundRules
<1>3. \A k \in 1 .. 6 : Zeroed(f[k - 1]) => Zeroed(f[k])
    BY <1>1, <1>2, ZeroedRewrite
<1>4. Zeroed(f[0])
    BY <1>1
<1>5. Zeroed(f[1]) /\ Zeroed(f[2]) /\ Zeroed(f[3]) /\ Zeroed(f[4]) /\ Zeroed(f[5]) /\ Zeroed(f[6])
    BY <1>3, <1>4
<1> QED BY <1>1, <1>5

\* What is done of a text stays done, and a zero byte is done at once.
LEMMA LexGrows ==
    ASSUME NEW l \in States, NEW t \in Tokens
    PROVE  /\ \A j \in 1 .. Len(l.done) : /\ j \in 1 .. Len(Lex(l, t).done)
                                          /\ Lex(l, t).done[j] = l.done[j]
           /\ t = Nul => \E j \in 1 .. Len(Lex(l, t).done) : Lex(l, t).done[j] = Lexeme(Nul)
<1>1. PICK d \in Seq(Texts), o \in Texts : d = l.done /\ o = l.open
    BY DEF States
<1> DEFINE e == Lex(l, t).done
<1>2. e = d \/ \E x \in Texts : e = Append(d, x) /\ (t = Nul => x = Lexeme(Nul))
  <2>1. \A u \in Tokens : <<u>> \in Texts
      BY AppendOne, EmptySeq DEF Texts
  <2>2. Append(o, Quote) \in Texts
      BY AppendProperties, SpecialTokens DEF Texts
  <2>3. CASE t = Nul
    <3>1. e = Append(d, Lexeme(Nul)) /\ Lexeme(Nul) \in Texts
        BY <1>1, <2>1, <2>3, SpecialTokens DEF Lex, Lexeme
    <3> QED BY <3>1
  <2>4. CASE t # Nul
    <3>1. e = d \/ e = Append(d, Append(o, Quote)) \/ e = Append(d, <<t>>)
        BY <1>1, <2>4 DEF Lex
    <3> QED BY <2>1, <2>2, <2>4, <3>1
  <2> QED BY <2>3, <2>4
<1>3. t = Nul => e # d
  <2> SUFFICES ASSUME t = Nul PROVE e # d
      OBVIOUS
  <2>1. e = Append(d, Lexeme(Nul)) /\ Lexeme(Nul) \in Texts
    <3>1. \A u \in Tokens : <<u>> \in Texts
        BY AppendOne, EmptySeq DEF Texts
    <3> QED BY <1>1, <3>1, SpecialTokens DEF Lex, Lexeme
  <2> HIDE DEF e
  <2>2. Len(e) = Len(d) + 1 /\ Len(d) \in Nat
      BY <2>1, AppendProperties, LenProperties
  <2> QED BY <2>2
<1> HIDE DEF e
<1>4. ASSUME NEW x \in Texts, e = Append(d, x)
      PROVE  /\ Len(e) = Len(d) + 1 /\ Len(d) \in Nat /\ e[Len(d) + 1] = x
             /\ \A j \in 1 .. Len(d) : e[j] = d[j]
    BY <1>4, AppendProperties, LenProperties
<1>5. \A j \in 1 .. Len(d) : j \in 1 .. Len(e) /\ e[j] = d[j]
    BY <1>2, <1>4
<1>6. t = Nul => \E j \in 1 .. Len(e) : e[j] = Lexeme(Nul)
    BY <1>2, <1>3, <1>4
<1> QED BY <1>1, <1>5, <1>6 DEF e

\* A zero byte is a lexeme no value is written with.
LEMMA ZeroedScan ==
    ASSUME NEW text \in Texts, Zeroed(text)
    PROVE  \E j \in 1 .. Len(Scan(text).done) :
              Scan(text).done[j] = Lexeme(Nul) /\ ~Inert(Scan(text).done[j])
<1> DEFINE n == Len(text)
           Dead(l) == \E j \in 1 .. Len(l.done) : l.done[j] = Lexeme(Nul)
<1>1. PICK i \in 1 .. n : text[i] = Nul
    BY DEF Zeroed
<1>2. n \in Nat /\ \A k \in 1 .. n : text[k] \in Tokens
    BY ElementOfSeq, LenProperties DEF Texts
<1>3. PICK f \in [0 .. n -> States] :
          /\ \A k \in 1 .. n : f[k] = Lex(f[k - 1], text[k])
          /\ Scan(text) = f[n]
    BY Scanned
<1> HIDE DEF n
<1> DEFINE T == {k \in Nat : i + k <= n => Dead(f[i + k])}
<1>4. 0 \in T
  <2>1. f[i] = Lex(f[i - 1], text[i]) /\ f[i - 1] \in States /\ text[i] \in Tokens /\ i + 0 = i
      BY <1>1, <1>2, <1>3
  <2>2. Dead(Lex(f[i - 1], text[i]))
      BY <1>1, <2>1, LexGrows
  <2> QED BY <2>1, <2>2
<1>5. ASSUME NEW k \in Nat, k \in T PROVE k + 1 \in T
  <2> SUFFICES ASSUME i + (k + 1) <= n PROVE Dead(f[i + (k + 1)])
      OBVIOUS
  <2>1. PICK m \in 1 .. n : m = i + (k + 1) /\ m - 1 = i + k /\ m - 1 \in 0 .. n
      BY <1>1, <1>2
  <2>2. Dead(f[m - 1]) /\ f[m - 1] \in States /\ f[m] = Lex(f[m - 1], text[m]) /\ text[m] \in Tokens
    <3>1. i + k <= n
        BY <1>1, <1>2
    <3> QED BY <1>2, <1>3, <1>5, <2>1, <3>1
  <2>3. Dead(f[m])
      BY <2>2, LexGrows, ZenonT(60)
  <2> QED BY <2>1, <2>3
<1>6. n - i \in T
  <2> HIDE DEF T
  <2>1. n - i \in Nat
      BY <1>1, <1>2
  <2> QED BY <1>4, <1>5, <2>1, NatSetInduction
<1>7. i + (n - i) = n
    BY <1>1, <1>2
<1>8. Dead(Scan(text))
    BY <1>2, <1>3, <1>6, <1>7
<1> QED BY <1>8 DEF Inert

-----------------------------------------------------------------------------
(* The lexemes of a text that is rewritten follow those of the text.       *)

\* A name without quotes after a string: no repair reaches it, and it is
\* refused.  A name without quotes at the beginning of an array.
EndsInStr(d) == Len(d) > 0 /\ Len(d[Len(d)]) > 1
Doomed(d) == \E j \in 2 .. Len(d) : Bare(d[j]) /\ Len(d[j - 1]) > 1
BareArray(d) == \E j \in 2 .. Len(d) : Bare(d[j]) /\ d[j - 1] = ArrayOpens

\* A string, finished or open, that holds what the rules look for.
Traps(x) == ToSet(x) \cap Befores # {}
Trapped(l) == Traps(l.open) \/ \E j \in 1 .. Len(l.done) : Len(l.done[j]) > 1 /\ Traps(l.done[j])

\* The lexer at a point of a text, l, and at the same point of what a rule
\* makes of it, m: the same lexemes but for names that were quoted, or the
\* text is broken.
Follows(l, m) ==
    /\ l.open = <<>> <=> m.open = <<>>
    /\ l.open = <<>> /\ EndsInStr(l.done) => EndsInStr(m.done)
    /\ Doomed(l.done) => Doomed(m.done)
    /\ \/ m.open = l.open /\ Repaired(l.done, m.done)
       \/ Doomed(m.done) /\ Trapped(l)
       \/ BareArray(l.done)

\* Appending a lexeme.
LEMMA OneMoreLexeme ==
    ASSUME NEW d \in Seq(Texts), NEW x \in Texts
    PROVE  /\ Len(Append(d, x)) = Len(d) + 1 /\ Len(d) \in Nat
           /\ Append(d, x)[Len(d) + 1] = x /\ \A j \in 1 .. Len(d) : Append(d, x)[j] = d[j]
           /\ EndsInStr(Append(d, x)) <=> Len(x) > 1
           /\ Doomed(Append(d, x)) <=> Doomed(d) \/ (Bare(x) /\ EndsInStr(d))
           /\ BareArray(d) => BareArray(Append(d, x))
           /\ Len(d) > 0 /\ d[Len(d)] = ArrayOpens /\ Bare(x) => BareArray(Append(d, x))
           /\ \A e \in Seq(Texts), y \in Texts :
                 Repaired(d, e) /\ Fixed(x, y) => Repaired(Append(d, x), Append(e, y))
<1> DEFINE a == Append(d, x)
<1>1. /\ Len(a) = Len(d) + 1 /\ Len(d) \in Nat /\ a[Len(d) + 1] = x
      /\ \A j \in 1 .. Len(d) : a[j] = d[j]
    BY AppendProperties, LenProperties
<1> DEFINE n == Len(d)
<1>2. n \in Nat /\ n = Len(d)
    BY <1>1
<1> HIDE DEF a, n
<1>3. EndsInStr(a) <=> Len(x) > 1
    BY <1>1, <1>2 DEF EndsInStr
<1>4. Doomed(a) <=> Doomed(d) \/ (Bare(x) /\ EndsInStr(d))
  <2>1. ASSUME Doomed(a) PROVE Doomed(d) \/ (Bare(x) /\ EndsInStr(d))
    <3>1. PICK j \in 2 .. n + 1 : Bare(a[j]) /\ Len(a[j - 1]) > 1
        BY <1>1, <1>2, <2>1 DEF Doomed
    <3>2. CASE j = n + 1
      <4>1. j - 1 = n /\ n > 0 /\ n \in 1 .. n
          BY <1>2, <3>1, <3>2
      <4> QED BY <1>1, <1>2, <3>1, <3>2, <4>1 DEF EndsInStr
    <3>3. CASE j # n + 1
      <4>1. j \in 2 .. n /\ j \in 1 .. n /\ j - 1 \in 1 .. n
          BY <1>2, <3>1, <3>3
      <4> QED BY <1>1, <1>2, <3>1, <4>1 DEF Doomed
    <3> QED BY <3>2, <3>3
  <2>2. ASSUME Doomed(d) PROVE Doomed(a)
    <3>1. PICK j \in 2 .. n : Bare(d[j]) /\ Len(d[j - 1]) > 1
        BY <1>2, <2>2 DEF Doomed
    <3>2. j \in 2 .. n + 1 /\ j \in 1 .. n /\ j - 1 \in 1 .. n
        BY <1>2, <3>1
    <3> QED BY <1>1, <1>2, <3>1, <3>2 DEF Doomed
  <2>3. ASSUME Bare(x), EndsInStr(d) PROVE Doomed(a)
    <3>1. n + 1 \in 2 .. n + 1 /\ (n + 1) - 1 = n /\ n \in 1 .. n /\ Len(d[n]) > 1
        BY <1>2, <2>3 DEF EndsInStr
    <3>2. Bare(a[n + 1]) /\ Len(a[(n + 1) - 1]) > 1
        BY <1>1, <1>2, <2>3, <3>1
    <3> QED BY <1>1, <1>2, <3>1, <3>2 DEF Doomed
  <2> QED BY <2>1, <2>2, <2>3
<1>5. BareArray(d) => BareArray(a)
  <2> SUFFICES ASSUME BareArray(d) PROVE BareArray(a)
      OBVIOUS
  <2>1. PICK j \in 2 .. n : Bare(d[j]) /\ d[j - 1] = ArrayOpens
      BY <1>2 DEF BareArray
  <2>2. j \in 2 .. n + 1 /\ j \in 1 .. n /\ j - 1 \in 1 .. n
      BY <1>2, <2>1
  <2> QED BY <1>1, <1>2, <2>1, <2>2 DEF BareArray
<1>6. n > 0 /\ d[n] = ArrayOpens /\ Bare(x) => BareArray(a)
  <2> SUFFICES ASSUME n > 0, d[n] = ArrayOpens, Bare(x) PROVE BareArray(a)
      OBVIOUS
  <2>1. n + 1 \in 2 .. n + 1 /\ (n + 1) - 1 = n /\ n \in 1 .. n
      BY <1>2
  <2>2. Bare(a[n + 1]) /\ a[(n + 1) - 1] = ArrayOpens
      BY <1>1, <1>2, <2>1
  <2> QED BY <1>1, <1>2, <2>1, <2>2 DEF BareArray
<1>7. ASSUME NEW e \in Seq(Texts), NEW y \in Texts, Repaired(d, e), Fixed(x, y)
      PROVE  Repaired(a, Append(e, y))
  <2> DEFINE b == Append(e, y)
  <2>1. /\ Len(b) = Len(e) + 1 /\ b[Len(e) + 1] = y
        /\ \A j \in 1 .. Len(e) : b[j] = e[j]
      BY AppendProperties, LenProperties
  <2> HIDE DEF b
  <2>2. Len(e) = n /\ \A j \in 1 .. n : Fixed(d[j], e[j])
      BY <1>2, <1>7 DEF Repaired
  <2>3. \A j \in 1 .. n + 1 : Fixed(a[j], b[j])
      BY <1>1, <1>2, <1>7, <2>1, <2>2
  <2> QED BY <1>1, <1>2, <2>1, <2>2, <2>3 DEF Repaired, b
<1> QED BY <1>1, <1>2, <1>3, <1>4, <1>5, <1>6, <1>7 DEF a

\* One token more of a text without zero bytes.
LEMMA LexCases ==
    ASSUME NEW l \in States, NEW t \in Tokens, t # Nul
    PROVE  \/ /\ t = Quote /\ l.open = <<>>
              /\ Lex(l, t).done = l.done /\ Lex(l, t).open = <<Quote>>
           \/ /\ t = Quote /\ l.open # <<>>
              /\ Lex(l, t).done = Append(l.done, Append(l.open, Quote)) /\ Lex(l, t).open = <<>>
           \/ /\ t # Quote /\ l.open # <<>>
              /\ Lex(l, t).done = l.done /\ Lex(l, t).open = Append(l.open, t)
           \/ /\ t # Quote /\ t = " " /\ l.open = <<>>
              /\ Lex(l, t).done = l.done /\ Lex(l, t).open = <<>>
           \/ /\ t # Quote /\ t # " " /\ l.open = <<>>
              /\ Lex(l, t).done = Append(l.done, Lexeme(t)) /\ Lex(l, t).open = <<>>
BY Zenon DEF Lex, Lexeme, Quote

\* A string that holds what the rules look for stays.
LEMMA TrappedStays ==
    ASSUME NEW l \in States, NEW t \in Tokens, t # Nul, Trapped(l)
    PROVE  Trapped(Lex(l, t))
<1>1. PICK d \in Seq(Texts), o \in Texts : d = l.done /\ o = l.open
    BY DEF States
<1>2. Traps(o) \/ \E j \in 1 .. Len(d) : Len(d[j]) > 1 /\ Traps(d[j])
    BY <1>1 DEF Trapped
<1>3. ASSUME NEW u \in Tokens PROVE Append(o, u) \in Texts /\ (Traps(o) => Traps(Append(o, u)))
  <2>1. Append(o, u) \in Texts /\ ToSet(Append(o, u)) = ToSet(o) \cup {u}
      BY AppendToSet DEF Texts
  <2> QED BY <2>1 DEF Traps
<1>4. Len(Append(o, Quote)) > 1 \/ o = <<>>
  <2>1. Len(Append(o, Quote)) = Len(o) + 1 /\ Len(o) \in Nat /\ (Len(o) = 0 => o = <<>>)
      BY SpecialTokens, AppendProperties, LenProperties, EmptySeq DEF Texts
  <2> QED BY <2>1
<1>5. ASSUME NEW x \in Texts
      PROVE  /\ (\E j \in 1 .. Len(d) : Len(d[j]) > 1 /\ Traps(d[j]))
                    => \E j \in 1 .. Len(Append(d, x)) : Len(Append(d, x)[j]) > 1 /\ Traps(Append(d, x)[j])
             /\ Len(x) > 1 /\ Traps(x)
                    => \E j \in 1 .. Len(Append(d, x)) : Len(Append(d, x)[j]) > 1 /\ Traps(Append(d, x)[j])
  <2>1. /\ Len(Append(d, x)) = Len(d) + 1 /\ Len(d) \in Nat
        /\ Append(d, x)[Len(d) + 1] = x /\ \A j \in 1 .. Len(d) : Append(d, x)[j] = d[j]
      BY OneMoreLexeme
  <2> DEFINE a == Append(d, x)
             n == Len(d)
  <2> HIDE DEF a, n
  <2>2. Len(a) = n + 1 /\ n \in Nat /\ a[n + 1] = x /\ \A j \in 1 .. n : a[j] = d[j]
      BY <2>1 DEF a, n
  <2>3. (\E j \in 1 .. n : Len(d[j]) > 1 /\ Traps(d[j])) => \E j \in 1 .. Len(a) : Len(a[j]) > 1 /\ Traps(a[j])
      BY <2>2
  <2>4. Len(x) > 1 /\ Traps(x) => \E j \in 1 .. Len(a) : Len(a[j]) > 1 /\ Traps(a[j])
      BY <2>2
  <2> QED BY <2>3, <2>4 DEF a, n
<1>6. ~Traps(<<>>)
    BY DEF Traps, ToSet
<1>7. Quote \in Tokens /\ Lexeme(t) \in Texts
  <2>1. \A u \in Tokens : <<u>> \in Texts
      BY AppendOne, EmptySeq DEF Texts
  <2> QED BY <2>1, SpecialTokens DEF Lexeme
<1> DEFINE e == Lex(l, t).done
           q == Lex(l, t).open
<1>8. \/ o = <<>> /\ e = d
      \/ o # <<>> /\ e = Append(d, Append(o, Quote))
      \/ e = d /\ q = Append(o, t)
      \/ o = <<>> /\ e = Append(d, Lexeme(t))
    BY <1>1, LexCases
<1> HIDE DEF e, q
<1>9. Traps(q) \/ \E j \in 1 .. Len(e) : Len(e[j]) > 1 /\ Traps(e[j])
  <2>1. CASE o = <<>> /\ e = d
      BY <1>2, <1>6, <2>1
  <2>2. CASE o # <<>> /\ e = Append(d, Append(o, Quote))
      BY <1>2, <1>3, <1>4, <1>5, <1>7, <2>2
  <2>3. CASE e = d /\ q = Append(o, t)
      BY <1>2, <1>3, <2>3
  <2>4. CASE o = <<>> /\ e = Append(d, Lexeme(t))
      BY <1>2, <1>5, <1>6, <1>7, <2>4
  <2> QED BY <1>8, <2>1, <2>2, <2>3, <2>4
<1> QED BY <1>9 DEF Trapped, e, q

\* Follows is kept when both texts go on with the same token.
LEMMA FollowsToken ==
    ASSUME NEW l \in States, NEW m \in States, Follows(l, m), NEW t \in Tokens, t # Nul
    PROVE  Follows(Lex(l, t), Lex(m, t))
<1>1. PICK d \in Seq(Texts), o \in Texts : d = l.done /\ o = l.open
    BY DEF States
<1>2. PICK e \in Seq(Texts), q \in Texts : e = m.done /\ q = m.open
    BY DEF States
<1>3. /\ o = <<>> <=> q = <<>>
      /\ o = <<>> /\ EndsInStr(d) => EndsInStr(e)
      /\ Doomed(d) => Doomed(e)
      /\ \/ q = o /\ Repaired(d, e)
         \/ Doomed(e) /\ Trapped(l)
         \/ BareArray(d)
    BY <1>1, <1>2 DEF Follows
<1>4. Trapped(l) => Trapped(Lex(l, t))
    BY TrappedStays
<1> DEFINE ll == Lex(l, t)
           mm == Lex(m, t)
<1>5. Append(o, Quote) \in Texts /\ Append(q, Quote) \in Texts /\ Lexeme(t) \in Texts
      /\ Append(o, t) # <<>> /\ Append(q, t) # <<>> /\ <<Quote>> # <<>>
  <2>1. \A u \in Tokens : <<u>> \in Texts
      BY AppendOne, EmptySeq DEF Texts
  <2>2. Append(o, t) # <<>> /\ Append(q, t) # <<>>
    <3>1. \A u \in Texts : Append(u, t) # <<>>
      <4>1. \A u \in Texts : Len(Append(u, t)) = Len(u) + 1 /\ Len(u) \in Nat
          BY AppendProperties, LenProperties DEF Texts
      <4>2. \A u \in Texts : Len(Append(u, t)) # 0
          BY <4>1
      <4>3. Len(<<>>) = 0
          OBVIOUS
      <4> QED BY <4>2, <4>3, Zenon
    <3> QED BY <3>1
  <2> QED BY <2>1, <2>2, AppendProperties, SpecialTokens DEF Texts, Lexeme
<1>6. /\ o # <<>> => Len(Append(o, Quote)) > 1 /\ Len(Append(o, Quote)) # 1
      /\ q # <<>> => Len(Append(q, Quote)) > 1
  <2>1. /\ Len(Append(o, Quote)) = Len(o) + 1 /\ Len(o) \in Nat /\ (Len(o) = 0 => o = <<>>)
        /\ Len(Append(q, Quote)) = Len(q) + 1 /\ Len(q) \in Nat /\ (Len(q) = 0 => q = <<>>)
      BY SpecialTokens, AppendProperties, LenProperties, EmptySeq DEF Texts
  <2> QED BY <2>1
<1>7. CASE t = Quote /\ o = <<>>
  <2>1. ll.done = d /\ ll.open = <<Quote>> /\ mm.done = e /\ mm.open = <<Quote>>
    <3>1. ll.done = d /\ ll.open = <<Quote>>
        BY <1>1, <1>7, LexCases
    <3>2. mm.done = e /\ mm.open = <<Quote>>
        BY <1>2, <1>3, <1>7, LexCases
    <3> QED BY <3>1, <3>2
  <2> HIDE DEF ll, mm
  <2> QED BY <1>3, <1>4, <1>5, <1>7, <2>1 DEF Follows, ll, mm
<1>8. CASE t = Quote /\ o # <<>>
  <2> DEFINE x == Append(o, Quote)
             y == Append(q, Quote)
  <2>1. ll.done = Append(d, x) /\ ll.open = <<>> /\ mm.done = Append(e, y) /\ mm.open = <<>>
      BY <1>1, <1>2, <1>3, <1>8, LexCases
  <2>2. x \in Texts /\ y \in Texts /\ Len(x) > 1 /\ Len(x) # 1 /\ Len(y) > 1 /\ (q = o => y = x)
      BY <1>3, <1>5, <1>6, <1>8
  <2> HIDE DEF x, y
  <2>3. ~Bare(x)
    <3>1. \A name \in Names : Len(Lexeme(name)) = 1
        BY LexemeFacts
    <3> QED BY <2>2, <3>1, Zenon DEF Bare
  <2>4. EndsInStr(Append(e, y)) /\ (Doomed(Append(d, x)) => Doomed(d)) /\ (Doomed(e) => Doomed(Append(e, y)))
        /\ (BareArray(d) => BareArray(Append(d, x)))
      BY <2>2, <2>3, OneMoreLexeme
  <2>5. q = o /\ Repaired(d, e) => Repaired(Append(d, x), Append(e, y))
      BY <2>2, FixedSelf, OneMoreLexeme
  <2> HIDE DEF ll, mm
  <2> QED BY <1>3, <1>4, <2>1, <2>4, <2>5 DEF Follows, ll, mm
<1>9. CASE t # Quote /\ o # <<>>
  <2>1. ll.done = d /\ ll.open = Append(o, t) /\ mm.done = e /\ mm.open = Append(q, t)
      BY <1>1, <1>2, <1>3, <1>9, LexCases
  <2> HIDE DEF ll, mm
  <2> QED BY <1>3, <1>4, <1>5, <2>1 DEF Follows, ll, mm
<1>10. CASE t = " " /\ o = <<>>
  <2>1. t # Quote
      BY <1>10 DEF Quote
  <2>2. Lex(l, t) = l /\ Lex(m, t) = m
      BY <1>1, <1>2, <1>3, <1>10, <2>1 DEF Lex, Quote, Nul
  <2> QED BY <2>2
<1>11. CASE t # Quote /\ t # " " /\ o = <<>>
  <2> DEFINE x == Lexeme(t)
  <2>1. ll.done = Append(d, x) /\ ll.open = <<>> /\ mm.done = Append(e, x) /\ mm.open = <<>>
      BY <1>1, <1>2, <1>3, <1>11, LexCases
  <2>2. x \in Texts /\ ~(Len(x) > 1)
    <3>1. Len(Lexeme(t)) = 1 /\ Lexeme(t) \in Texts
        BY <1>5, LexemeFacts
    <3> QED BY <3>1
  <2> HIDE DEF x
  <2>3. ~EndsInStr(Append(d, x)) /\ (BareArray(d) => BareArray(Append(d, x)))
        /\ (Doomed(Append(d, x)) => Doomed(d) \/ (Bare(x) /\ EndsInStr(d)))
        /\ (Doomed(e) \/ (Bare(x) /\ EndsInStr(e)) => Doomed(Append(e, x)))
      BY <2>2, OneMoreLexeme
  <2>4. Repaired(d, e) => Repaired(Append(d, x), Append(e, x))
      BY <2>2, FixedSelf, OneMoreLexeme
  <2> HIDE DEF ll, mm
  <2> QED BY <1>3, <1>4, <1>11, <2>1, <2>3, <2>4 DEF Follows, ll, mm
<1> QED BY <1>7, <1>8, <1>9, <1>10, <1>11

\* A name in quotes, token by token.
LEMMA LexQuoted ==
    ASSUME NEW l \in States, NEW name \in Names
    PROVE  LET m == Lex(Lex(Lex(l, Quote), name), Quote)
           IN  /\ l.open = <<>> => m.done = Append(l.done, QuotedName(name)) /\ m.open = <<>>
               /\ l.open # <<>> => /\ m.done = Append(Append(l.done, Append(l.open, Quote)), Lexeme(name))
                                   /\ m.open = <<Quote>>
<1> DEFINE a == Lex(l, Quote)
           b == Lex(a, name)
           m == Lex(b, Quote)
<1>1. /\ name \in Tokens /\ name # Quote /\ name # Nul /\ name # " " /\ Quote \in Tokens /\ Quote # Nul
  <2>1. name \in Plain
      BY PlainTokens
  <2>2. Quote # Nul
      BY DEF Quote, Nul
  <2> QED BY <2>1, <2>2, SpecialTokens DEF Plain
<1>2. a \in States /\ b \in States
    BY <1>1, LexType
<1>3. <<Quote>> # <<>> /\ Append(<<Quote>>, name) = <<Quote, name>> /\ <<Quote, name>> # <<>>
      /\ Append(<<Quote, name>>, Quote) = <<Quote, name, Quote>>
  <2>1. <<Quote>> \in Texts /\ <<Quote>> # <<>> /\ <<Quote, name>> # <<>>
    <3>1. Len(<<Quote>>) = 1 /\ Len(<<Quote, name>>) = 2 /\ Len(<<>>) = 0
        OBVIOUS
    <3> QED BY <1>1, <3>1, EmptySeq, AppendOne DEF Texts
  <2>2. <<Quote>> \o <<name>> = <<Quote, name>> /\ <<Quote, name>> \o <<Quote>> = <<Quote, name, Quote>>
      BY Pair, Triple
  <2>3. <<name>> \in Texts /\ <<Quote, name>> \in Texts
    <3>1. <<name>> \in Texts
        BY <1>1, EmptySeq, AppendOne DEF Texts
    <3> QED BY <2>1, <2>2, <3>1, ConcatProperties DEF Texts
  <2> QED BY <1>1, <2>1, <2>2, <2>3, AppendOne DEF Texts
<1>4. ASSUME l.open = <<>> PROVE m.done = Append(l.done, QuotedName(name)) /\ m.open = <<>>
  <2>1. a.done = l.done /\ a.open = <<Quote>>
      BY <1>1, <1>4, LexCases
  <2> HIDE DEF a
  <2>2. b.done = a.done /\ b.open = Append(a.open, name)
      BY <1>1, <1>2, <1>3, <2>1, LexCases
  <2> HIDE DEF b
  <2>3. m.done = Append(b.done, Append(b.open, Quote)) /\ m.open = <<>>
      BY <1>1, <1>2, <1>3, <2>1, <2>2, LexCases
  <2> HIDE DEF m
  <2> QED BY <1>3, <2>1, <2>2, <2>3, Zenon DEF QuotedName
<1>5. ASSUME l.open # <<>>
      PROVE  /\ m.done = Append(Append(l.done, Append(l.open, Quote)), Lexeme(name))
             /\ m.open = <<Quote>>
  <2>1. a.done = Append(l.done, Append(l.open, Quote)) /\ a.open = <<>>
      BY <1>1, <1>5, LexCases
  <2> HIDE DEF a
  <2>2. b.done = Append(a.done, Lexeme(name)) /\ b.open = <<>>
      BY <1>1, <1>2, <2>1, LexCases
  <2> HIDE DEF b
  <2>3. m.done = b.done /\ m.open = <<Quote>>
      BY <1>1, <1>2, <2>2, LexCases
  <2> HIDE DEF m
  <2> QED BY <2>1, <2>2, <2>3, Zenon
<1> QED BY <1>4, <1>5, Zenon

\* One mark more.
LEMMA LexMark ==
    ASSUME NEW l \in States, NEW t \in Marks
    PROVE  /\ t \in Tokens /\ t # Nul /\ t # Quote
           /\ l.open = <<>> => Lex(l, t).done = Append(l.done, Lexeme(t)) /\ Lex(l, t).open = <<>>
           /\ l.open # <<>> => Lex(l, t).done = l.done /\ Lex(l, t).open = Append(l.open, t)
<1>1. t \in Tokens /\ t # Nul /\ t # Quote /\ t # " "
    BY PlainTokens DEF Plain
<1> QED BY <1>1, LexCases

\* What a rule adds, token by token.
LEMMA QuotedTokens ==
    ASSUME NEW q \in Texts, NEW name \in Names
    PROVE  /\ q \o QuotedName(name) = Append(Append(Append(q, Quote), name), Quote)
           /\ Append(q, Quote) \in Texts /\ Append(Append(q, Quote), name) \in Texts
<1> DEFINE a == Append(q, Quote)
           b == Append(a, name)
           c == Append(b, Quote)
<1>1. name \in Tokens /\ Quote \in Tokens
    BY SpecialTokens
<1>2. a \in Texts /\ b \in Texts
    BY <1>1, AppendProperties DEF Texts
<1>3. \A u \in Tokens : <<u>> \in Texts
    BY EmptySeq, AppendOne DEF Texts
<1>4. <<Quote>> \o <<name>> = <<Quote, name>> /\ <<Quote, name>> \o <<Quote>> = QuotedName(name)
    BY Pair, Triple DEF QuotedName
<1>5. <<Quote>> \in Texts /\ <<name>> \in Texts /\ <<Quote, name>> \in Texts
    BY <1>1, <1>3, <1>4, ConcatProperties DEF Texts
<1>6. a = q \o <<Quote>> /\ b = a \o <<name>> /\ c = b \o <<Quote>>
    BY <1>1, <1>2, AppendOne DEF Texts
<1> HIDE DEF a, b, c
<1>7. \A x, y \in Texts : (q \o x) \o y = q \o (x \o y)
    BY ConcatAssociative DEF Texts
<1>8. b = q \o <<Quote, name>>
    BY <1>4, <1>5, <1>6, <1>7, ZenonT(60)
<1>9. c = q \o QuotedName(name)
    BY <1>4, <1>5, <1>6, <1>7, <1>8, Zenon
<1> QED BY <1>2, <1>9 DEF a, b, c

\* What is scanned of it after a text.
LEMMA ScanQuoted ==
    ASSUME NEW p \in Texts, NEW rule, Sound(rule)
    PROVE  \E m \in States :
              /\ m = IF rule.adds = <<>> THEN Scan(p) ELSE Lex(Scan(p), "{")
              /\ Scan(p \o (rule.adds \o QuotedName(rule.name)))
                     = Lex(Lex(Lex(m, Quote), rule.name), Quote)
<1>1. PICK name \in Names : name = rule.name
    BY DEF Sound
<1> DEFINE q == p \o rule.adds
           m == Scan(q)
<1>2. rule.adds \in Texts /\ QuotedName(name) \in Texts
    BY <1>1, AddsType
<1>3. q \in Texts /\ m \in States
  <2>1. q \in Texts
      BY <1>2, ConcatProperties DEF Texts
  <2> QED BY <2>1, ScanType
<1>4. m = IF rule.adds = <<>> THEN Scan(p) ELSE Lex(Scan(p), "{")
  <2>1. CASE rule.adds = <<>>
    <3>1. q = p
        BY <2>1, ConcatEmptySeq DEF Texts
    <3> QED BY <2>1, <3>1
  <2>2. CASE rule.adds # <<>>
    <3>1. PICK t \in Tokens : t = "{"
        BY SpecialTokens DEF Marks
    <3>2. rule.adds = <<t>>
        BY <2>2, <3>1, Zenon DEF Sound
    <3>3. q = Append(p, t)
        BY <3>2, AppendOne DEF Texts
    <3>4. m = Lex(Scan(p), t)
        BY <3>3, ScanAppend
    <3> QED BY <2>2, <3>1, <3>4
  <2> QED BY <2>1, <2>2
<1> HIDE DEF m
<1>5. p \o (rule.adds \o QuotedName(name)) = q \o QuotedName(name)
  <2>1. \A a, b \in Texts : (p \o a) \o b = p \o (a \o b)
      BY ConcatAssociative DEF Texts
  <2> QED BY <1>2, <2>1, Zenon
<1> HIDE DEF q
<1>6. Scan(q \o QuotedName(name)) = Lex(Lex(Lex(m, Quote), name), Quote)
  <2> DEFINE a == Append(q, Quote)
             b == Append(a, name)
             c == Append(b, Quote)
  <2>1. name \in Tokens /\ Quote \in Tokens
      BY SpecialTokens
  <2>2. a \in Texts /\ b \in Texts
      BY <1>3, <2>1, AppendProperties DEF Texts
  <2>3. Scan(a) = Lex(m, Quote) /\ Scan(b) = Lex(Scan(a), name) /\ Scan(c) = Lex(Scan(b), Quote)
      BY <1>3, <2>1, <2>2, ScanAppend DEF m
  <2>4. c = q \o QuotedName(name)
      BY <1>3, QuotedTokens
  <2> HIDE DEF a, b, c
  <2> QED BY <2>3, <2>4, Zenon
<1> QED BY <1>1, <1>3, <1>4, <1>5, <1>6 DEF m

\* A rule quotes a name that stands after one of the marks.
LEMMA FollowsRepair ==
    ASSUME NEW rule, Sound(rule), NEW l \in States, NEW p \in Texts,
           Follows(Lex(l, rule.before), Scan(p))
    PROVE  Follows(Lex(Lex(l, rule.before), rule.name),
                   Scan(p \o (rule.adds \o QuotedName(rule.name))))
<1>1. PICK name \in Names : name = rule.name
    BY DEF Sound
<1>2. PICK before \in Marks : before = rule.before /\ before \in Befores
    BY DEF Sound, Befores, Marks
<1> DEFINE a == Lex(l, before)
           l1 == Lex(a, name)
           m1 == Scan(p \o (rule.adds \o QuotedName(rule.name)))
<1>3. before \in Tokens /\ before # Nul /\ name \in Tokens /\ name # Nul /\ name # Quote /\ name # " " /\ Quote \in Tokens
  <2>1. name \in Plain /\ before \in Plain
      BY PlainTokens
  <2> QED BY <2>1, SpecialTokens DEF Plain
<1>4. a \in States
    BY <1>3, LexType
<1>5. PICK b \in States : /\ b = IF rule.adds = <<>> THEN Scan(p) ELSE Lex(Scan(p), "{")
                          /\ m1 = Lex(Lex(Lex(b, Quote), name), Quote)
    BY <1>1, ScanQuoted
<1>6. PICK d \in Seq(Texts), o \in Texts : d = a.done /\ o = a.open
    BY <1>4 DEF States
<1>7. PICK e \in Seq(Texts), q \in Texts : e = b.done /\ q = b.open
    BY <1>5 DEF States
<1>8. Scan(p) \in States /\ Follows(a, Scan(p))
    BY <1>2, ScanType
<1>9. PICK e0 \in Seq(Texts), q0 \in Texts : e0 = Scan(p).done /\ q0 = Scan(p).open
    BY <1>8 DEF States
<1>10. /\ o = <<>> <=> q0 = <<>>
       /\ Doomed(d) => Doomed(e0)
       /\ \/ q0 = o /\ Repaired(d, e0)
          \/ Doomed(e0) /\ Trapped(a)
          \/ BareArray(d)
    BY <1>6, <1>8, <1>9 DEF Follows
<1>11. ObjectOpens \in Texts /\ Lexeme(name) \in Texts /\ Lexeme(before) \in Texts /\ QuotedName(name) \in Texts
       /\ Append(q, Quote) \in Texts
  <2>1. \A u \in Tokens : <<u>> \in Texts
      BY AppendOne, EmptySeq DEF Texts
  <2>2. "{" \in Tokens
      BY SpecialTokens DEF Marks
  <2>3. QuotedName(name) \in Texts
      BY <1>1, AddsType
  <2> QED BY <1>3, <2>1, <2>2, <2>3, AppendProperties DEF Texts, ObjectOpens, Lexeme
<1>12. Bare(Lexeme(name)) /\ ~(Len(Lexeme(name)) > 1) /\ ~(Len(Lexeme(before)) > 1)
  <2>1. Len(Lexeme(name)) = 1 /\ Len(Lexeme(before)) = 1
      BY LexemeFacts
  <2> QED BY <2>1 DEF Bare
<1>13. /\ o = <<>> <=> q = <<>>
       /\ Doomed(e0) => Doomed(e)
       /\ rule.adds = <<>> => e = e0 /\ q = q0
  <2>1. CASE rule.adds = <<>>
      BY <1>5, <1>7, <1>9, <1>10, <2>1
  <2>2. CASE rule.adds # <<>>
    <3>1. PICK t \in Marks : t = "{"
        BY DEF Marks
    <3>2. b = Lex(Scan(p), t)
        BY <1>5, <2>2, <3>1
    <3>3. Lexeme(t) \in Texts
        BY <1>11, <3>1, Zenon DEF ObjectOpens
    <3>4. Append(q0, t) # <<>>
      <4>1. Len(Append(q0, t)) = Len(q0) + 1 /\ Len(q0) \in Nat
          BY SpecialTokens, AppendProperties, LenProperties DEF Texts
      <4>2. Len(Append(q0, t)) # 0
          BY <4>1
      <4>3. Len(<<>>) = 0
          OBVIOUS
      <4> QED BY <4>2, <4>3, Zenon
    <3>5. CASE q0 = <<>>
      <4>1. e = Append(e0, Lexeme(t)) /\ q = <<>>
          BY <1>7, <1>8, <1>9, <3>2, <3>5, LexMark, ZenonT(60)
      <4>2. Doomed(e0) => Doomed(e)
          BY <3>3, <4>1, OneMoreLexeme
      <4> QED BY <1>10, <2>2, <3>5, <4>1, <4>2
    <3>6. CASE q0 # <<>>
      <4>1. e = e0 /\ q = Append(q0, t)
          BY <1>7, <1>8, <1>9, <3>2, <3>6, LexMark
      <4> QED BY <1>10, <2>2, <3>4, <3>6, <4>1
    <3> QED BY <3>5, <3>6
  <2> QED BY <2>1, <2>2
<1>14. Trapped(a) => Trapped(l1)
    BY <1>3, <1>4, TrappedStays
<1>15. /\ o = <<>> => l1.done = Append(d, Lexeme(name)) /\ l1.open = <<>>
       /\ o # <<>> => l1.done = d /\ l1.open = Append(o, name)
    BY <1>3, <1>4, <1>6, LexCases
<1>16. /\ q = <<>> => m1.done = Append(e, QuotedName(name)) /\ m1.open = <<>>
       /\ q # <<>> => m1.done = Append(Append(e, Append(q, Quote)), Lexeme(name)) /\ m1.open = <<Quote>>
    BY <1>5, <1>7, LexQuoted, ZenonT(60)
<1>17. PICK d0 \in Seq(Texts), o0 \in Texts : d0 = l.done /\ o0 = l.open
    BY DEF States
<1>18. /\ o0 = <<>> => d = Append(d0, Lexeme(before)) /\ o = <<>>
       /\ o0 # <<>> => d = d0 /\ o = Append(o0, before)
    BY <1>6, <1>17, LexMark
<1> HIDE DEF a, l1, m1
<1>19. CASE o = <<>>
  <2>1. d = Append(d0, Lexeme(before))
    <3>1. Append(o0, before) # <<>>
      <4>1. Len(Append(o0, before)) = Len(o0) + 1 /\ Len(o0) \in Nat
          BY <1>3, AppendProperties, LenProperties DEF Texts
      <4>2. Len(Append(o0, before)) # 0
          BY <4>1
      <4>3. Len(<<>>) = 0
          OBVIOUS
      <4> QED BY <4>2, <4>3, Zenon
    <3> QED BY <1>18, <1>19, <3>1
  <2>2. ~EndsInStr(d) /\ Len(d) > 0 /\ d[Len(d)] = Lexeme(before)
    <3>1. /\ Len(d) = Len(d0) + 1 /\ Len(d0) \in Nat /\ d[Len(d0) + 1] = Lexeme(before)
          /\ EndsInStr(d) <=> Len(Lexeme(before)) > 1
        BY <1>11, <2>1, OneMoreLexeme
    <3> QED BY <1>12, <3>1
  <2>3. l1.done = Append(d, Lexeme(name)) /\ l1.open = <<>>
        /\ m1.done = Append(e, QuotedName(name)) /\ m1.open = <<>>
      BY <1>13, <1>15, <1>16, <1>19
  <2>4. /\ EndsInStr(l1.done) <=> Len(Lexeme(name)) > 1
        /\ Doomed(l1.done) <=> Doomed(d) \/ (Bare(Lexeme(name)) /\ EndsInStr(d))
        /\ BareArray(d) => BareArray(l1.done)
        /\ Len(d) > 0 /\ d[Len(d)] = ArrayOpens /\ Bare(Lexeme(name)) => BareArray(l1.done)
      BY <1>11, <2>3, OneMoreLexeme
  <2>5. Doomed(e) => Doomed(m1.done)
      BY <1>11, <2>3, OneMoreLexeme
  <2>6. Repaired(d, e) => Repaired(l1.done, m1.done)
    <3>1. Fixed(Lexeme(name), QuotedName(name))
        BY DEF Fixed
    <3> QED BY <1>11, <2>3, <3>1, OneMoreLexeme
  <2>7. Lexeme(before) = ArrayOpens \/ rule.adds = <<>>
      BY <1>2, Zenon DEF Sound
  <2>8. CASE Lexeme(before) = ArrayOpens
    <3>1. BareArray(l1.done)
        BY <1>12, <2>2, <2>4, <2>8
    <3> QED BY <1>1, <1>2, <1>10, <1>12, <1>13, <2>2, <2>3, <2>4, <2>5, <3>1 DEF Follows, a, l1, m1
  <2>9. CASE rule.adds = <<>>
    <3>1. \/ m1.open = l1.open /\ Repaired(l1.done, m1.done)
          \/ Doomed(m1.done) /\ Trapped(l1)
          \/ BareArray(l1.done)
        BY <1>10, <1>13, <1>14, <2>3, <2>4, <2>5, <2>6, <2>9
    <3> QED BY <1>1, <1>2, <1>10, <1>12, <1>13, <2>2, <2>3, <2>4, <2>5, <3>1 DEF Follows, a, l1, m1
  <2> QED BY <2>7, <2>8, <2>9
<1>20. CASE o # <<>>
  <2>1. l1.done = d /\ l1.open = Append(o, name) /\ q # <<>>
        /\ m1.done = Append(Append(e, Append(q, Quote)), Lexeme(name)) /\ m1.open = <<Quote>>
      BY <1>13, <1>15, <1>16, <1>20
  <2>2. Len(Append(q, Quote)) > 1 /\ Append(o, name) # <<>> /\ <<Quote>> # <<>>
    <3>1a. Len(Append(q, Quote)) = Len(q) + 1 /\ Len(q) \in Nat
        BY <1>3, AppendProperties, LenProperties DEF Texts
    <3>1b. Len(q) # 0
        BY <2>1, EmptySeq
    <3>1. Len(Append(q, Quote)) = Len(q) + 1 /\ Len(q) \in Nat /\ Len(q) # 0
        BY <3>1a, <3>1b
    <3>2. Len(Append(o, name)) = Len(o) + 1 /\ Len(o) \in Nat /\ Len(<<Quote>>) = 1 /\ Len(<<>>) = 0
        BY <1>3, AppendProperties, LenProperties DEF Texts
    <3>3. Len(Append(o, name)) # 0 /\ Len(Append(q, Quote)) > 1
        BY <3>1, <3>2
    <3> QED BY <3>2, <3>3, Zenon
  <2>3. Doomed(m1.done)
    <3> DEFINE e1 == Append(e, Append(q, Quote))
    <3>1. e1 \in Seq(Texts) /\ EndsInStr(e1)
        BY <1>11, <2>2, OneMoreLexeme, AppendProperties
    <3> HIDE DEF e1
    <3>2. Doomed(Append(e1, Lexeme(name))) <=> Doomed(e1) \/ (Bare(Lexeme(name)) /\ EndsInStr(e1))
        BY <1>11, <3>1, OneMoreLexeme
    <3> QED BY <1>12, <2>1, <3>1, <3>2 DEF e1
  <2>4. Trapped(a)
    <3>1. o0 # <<>> /\ o = Append(o0, before)
        BY <1>18, <1>20
    <3>2. ToSet(o) = ToSet(o0) \cup {before}
      <4>1. o0 \in Seq(Tokens) /\ before \in Tokens
          BY <1>3 DEF Texts
      <4>2. ToSet(Append(o0, before)) = ToSet(o0) \cup {before}
          BY <4>1, AppendToSet
      <4> QED BY <3>1, <4>2, Zenon
    <3>3. Traps(o)
        BY <1>2, <3>2 DEF Traps
    <3> QED BY <1>6, <3>3 DEF Trapped
  <2>5. l1.open # <<>> /\ m1.open # <<>> /\ Trapped(l1)
      BY <1>14, <2>1, <2>2, <2>4, Zenon
  <2> QED BY <1>1, <1>2, <2>3, <2>5, Zenon DEF Follows, a, l1, m1
<1> QED BY <1>19, <1>20

\* The zero bytes of two texts.
LEMMA ZeroedConcat ==
    ASSUME NEW a \in Texts, NEW b \in Texts
    PROVE  Zeroed(a \o b) <=> Zeroed(a) \/ Zeroed(b)
<1> DEFINE c == a \o b
           m == Len(a)
           n == Len(b)
<1>1. /\ m \in Nat /\ n \in Nat /\ Len(c) = m + n
      /\ \A i \in 1 .. m + n : c[i] = IF i <= m THEN a[i] ELSE b[i - m]
    BY ConcatProperties, LenProperties DEF Texts
<1> HIDE DEF c
<1>2. ASSUME Zeroed(c) PROVE Zeroed(a) \/ Zeroed(b)
  <2>1. PICK i \in 1 .. m + n : c[i] = Nul
      BY <1>1, <1>2 DEF Zeroed
  <2>2. CASE i <= m
      BY <1>1, <2>1, <2>2 DEF Zeroed
  <2>3. CASE ~(i <= m)
    <3>1. i - m \in 1 .. n /\ b[i - m] = Nul
        BY <1>1, <2>1, <2>3
    <3> QED BY <3>1 DEF Zeroed
  <2> QED BY <2>2, <2>3
<1>3. ASSUME Zeroed(a) PROVE Zeroed(c)
    BY <1>1, <1>3 DEF Zeroed
<1>4. ASSUME Zeroed(b) PROVE Zeroed(c)
  <2>1. PICK i \in 1 .. n : b[i] = Nul
      BY <1>4 DEF Zeroed
  <2>2. i + m \in 1 .. m + n /\ ~(i + m <= m) /\ (i + m) - m = i
      BY <1>1
  <2>3. c[i + m] = Nul
      BY <1>1, <2>1, <2>2
  <2> QED BY <1>1, <2>2, <2>3 DEF Zeroed
<1> QED BY <1>2, <1>3, <1>4 DEF c

\* The texts and the lexemes while a text is rewritten.
Rewrites(text, rule, f, g) ==
    LET n == Len(text)
    IN  /\ f \in [0 .. n -> States] /\ f[0] = Start
        /\ \A k \in 1 .. n : f[k] = Lex(f[k - 1], text[k])
        /\ Scan(text) = f[n]
        /\ g[0] = <<>>
        /\ \A k \in 0 .. n : g[k] \in Texts
        /\ \A k \in 1 .. n : IF Found(text, rule, k)
                             THEN g[k] = g[k - 1] \o (rule.adds \o QuotedName(rule.name))
                             ELSE g[k] = Append(g[k - 1], text[k])
        /\ Rewrite(text, rule) = g[n]

\* The lexemes of a text and of the one a rule makes of it follow each
\* other, token after token.
LEMMA RewritesStep ==
    ASSUME NEW text \in Texts, ~Zeroed(text), NEW rule, Sound(rule)
    PROVE  \E f, g : /\ Rewrites(text, rule, f, g)
                     /\ \A k \in 0 .. Len(text) : Follows(f[k], Scan(g[k])) /\ ~Zeroed(g[k])
<1> DEFINE n == Len(text)
           new == rule.adds \o QuotedName(rule.name)
<1>1. n \in Nat /\ \A k \in 1 .. n : text[k] \in Tokens /\ text[k] # Nul
    BY ElementOfSeq, LenProperties DEF Texts, Zeroed
<1>2. PICK f \in [0 .. n -> States] :
          /\ f[0] = Start
          /\ \A k \in 1 .. n : f[k] = Lex(f[k - 1], text[k])
          /\ Scan(text) = f[n]
    BY Scanned
<1>3. PICK g : /\ g[0] = <<>>
               /\ \A k \in 0 .. n : g[k] \in Texts
               /\ \A k \in 1 .. n : IF Found(text, rule, k) THEN g[k] = g[k - 1] \o new
                                    ELSE g[k] = Append(g[k - 1], text[k])
               /\ Rewrite(text, rule) = g[n]
    BY Rewritten
<1>4. new \in Texts /\ ~Zeroed(new)
  <2>1. PICK name \in Names : name = rule.name
      BY DEF Sound
  <2>2. QuotedName(name) \in Texts /\ rule.adds \in Texts /\ new \in Texts
      BY <2>1, AddsType
  <2>3. ~Zeroed(QuotedName(name))
    <3>1. name # Nul /\ Quote # Nul
        BY DEF Names, Nul, Quote
    <3>2. \A i \in 1 .. 3 : QuotedName(name)[i] = Quote \/ QuotedName(name)[i] = name
      <4>1. QuotedName(name)[1] = Quote /\ QuotedName(name)[2] = name /\ QuotedName(name)[3] = Quote
          BY DEF QuotedName
      <4> QED BY <4>1
    <3> QED BY <3>1, <3>2, NameFacts DEF Zeroed
  <2>4. ~Zeroed(rule.adds)
    <3>1. CASE rule.adds = <<>>
        BY <3>1 DEF Zeroed
    <3>2. CASE rule.adds = <<"{">>
      <4>1. PICK t \in Tokens : t = "{" /\ t # Nul
          BY SpecialTokens DEF Marks, Nul
      <4>2. rule.adds = <<t>>
          BY <3>2, <4>1, Zenon
      <4>3. \A u \in Tokens : u # Nul => ~Zeroed(<<u>>)
          BY DEF Zeroed
      <4> QED BY <4>1, <4>2, <4>3, Zenon
    <3> QED BY <3>1, <3>2, Zenon DEF Sound
  <2> QED BY <2>1, <2>2, <2>3, <2>4, ZeroedConcat
<1> HIDE DEF n, new
<1> DEFINE T == {k \in Nat : k <= n => Follows(f[k], Scan(g[k])) /\ ~Zeroed(g[k])}
<1>5. 0 \in T
  <2>1. Scan(g[0]) = Start
      BY <1>3, ScanEmpty
  <2>2. Follows(Start, Start)
      BY DEF Follows, Start, Repaired
  <2>3. ~Zeroed(<<>>)
      BY DEF Zeroed
  <2> QED BY <1>2, <1>3, <2>1, <2>2, <2>3
<1>6. ASSUME NEW k \in Nat, k \in T PROVE k + 1 \in T
  <2> SUFFICES ASSUME k + 1 <= n PROVE Follows(f[k + 1], Scan(g[k + 1])) /\ ~Zeroed(g[k + 1])
      OBVIOUS
  <2>1. PICK m \in 1 .. n : m = k + 1 /\ m - 1 = k /\ m - 1 \in 0 .. n
      BY <1>1
  <2>2. Follows(f[m - 1], Scan(g[m - 1])) /\ f[m - 1] \in States /\ g[m - 1] \in Texts
        /\ Scan(g[m - 1]) \in States /\ ~Zeroed(g[m - 1])
    <3>1. k <= n
        BY <1>1
    <3>2. g[m - 1] \in Texts
        BY <1>3, <2>1
    <3> QED BY <1>2, <1>6, <2>1, <3>1, <3>2, ScanType
  <2>3. CASE Found(text, rule, m)
    <3>1. m \in 2 .. n /\ text[m - 1] = rule.before /\ text[m] = rule.name
        BY <1>1, <2>1, <2>3 DEF Found
    <3>2. PICK j \in 1 .. n : j = m - 1 /\ j - 1 \in 0 .. n
        BY <1>1, <3>1
    <3>3. f[j] = Lex(f[j - 1], rule.before) /\ f[j - 1] \in States /\ f[m] = Lex(f[j], rule.name)
        BY <1>2, <3>1, <3>2
    <3>4. g[m] = g[j] \o new
        BY <1>3, <2>3, <3>2
    <3>5. Follows(f[m], Scan(g[m]))
        BY <2>2, <3>2, <3>3, <3>4, FollowsRepair DEF new
    <3>6. ~Zeroed(g[m])
        BY <1>4, <2>2, <3>2, <3>4, ZeroedConcat
    <3> QED BY <2>1, <3>5, <3>6
  <2>4. CASE ~Found(text, rule, m)
    <3>1. g[m] = Append(g[m - 1], text[m]) /\ f[m] = Lex(f[m - 1], text[m]) /\ text[m] \in Tokens /\ text[m] # Nul
        BY <1>1, <1>2, <1>3, <2>4
    <3>2. Scan(g[m]) = Lex(Scan(g[m - 1]), text[m])
        BY <2>2, <3>1, ScanAppend
    <3>3. Follows(f[m], Scan(g[m]))
        BY <2>2, <3>1, <3>2, FollowsToken
    <3>4. ~Zeroed(g[m])
      <4>1. g[m] = g[m - 1] \o <<text[m]>> /\ <<text[m]>> \in Texts
          BY <2>2, <3>1, EmptySeq, AppendOne, SMTT(30) DEF Texts
      <4>2. ~Zeroed(<<text[m]>>)
          BY <3>1 DEF Zeroed
      <4> QED BY <2>2, <4>1, <4>2, ZeroedConcat
    <3> QED BY <2>1, <3>3, <3>4
  <2> QED BY <2>3, <2>4
<1>7. \A k \in 0 .. n : k \in T
  <2>1. \A k \in Nat : k \in T
    <3> HIDE DEF T
    <3> QED BY <1>5, <1>6, NatSetInduction
  <2> QED BY <1>1, <2>1
<1>8. \A k \in 0 .. n : Follows(f[k], Scan(g[k])) /\ ~Zeroed(g[k])
    BY <1>1, <1>7
<1> QED BY <1>1, <1>2, <1>3, <1>8, Zenon DEF Rewrites, n, new

\* ... so at the end they do.
LEMMA FollowsRewrite ==
    ASSUME NEW text \in Texts, ~Zeroed(text), NEW rule, Sound(rule)
    PROVE  Follows(Scan(text), Scan(Rewrite(text, rule))) /\ ~Zeroed(Rewrite(text, rule))
<1>1. PICK f, g : /\ Rewrites(text, rule, f, g)
                  /\ \A k \in 0 .. Len(text) : Follows(f[k], Scan(g[k])) /\ ~Zeroed(g[k])
    BY RewritesStep
<1>2. Len(text) \in 0 .. Len(text)
    BY LenProperties DEF Texts
<1> QED BY <1>1, <1>2 DEF Rewrites

\* What the repair makes of a text with the lexemes z: it quotes names, or it
\* breaks the text on a value that holds what it looks for.
Kept(z, text) ==
    /\ text \in Texts /\ ~Zeroed(text) /\ Scan(text).open = <<>>
    /\ \/ Repaired(z, Scan(text).done)
       \/ Doomed(Scan(text).done) /\ \E j \in 1 .. Len(z) : Len(z[j]) > 1 /\ Traps(z[j])

\* Repaired twice is repaired, and traps nothing new.
LEMMA RepairedMore ==
    ASSUME NEW z \in Seq(Texts), NEW w \in Seq(Texts), Repaired(z, w)
    PROVE  /\ BareArray(w) => BareArray(z)
           /\ (\E j \in 1 .. Len(w) : Len(w[j]) > 1 /\ Traps(w[j]))
                  => \E j \in 1 .. Len(z) : Len(z[j]) > 1 /\ Traps(z[j])
           /\ \A x : Repaired(w, x) => Repaired(z, x)
<1> DEFINE n == Len(z)
<1>1. n \in Nat /\ Len(w) = n /\ \A j \in 1 .. n : Fixed(z[j], w[j])
    BY LenProperties DEF Repaired
<1>2. \A name \in Names : Len(QuotedName(name)) = 3 /\ ~Bare(QuotedName(name)) /\ ~Traps(QuotedName(name))
  <2> SUFFICES ASSUME NEW name \in Names
               PROVE  Len(QuotedName(name)) = 3 /\ ~Bare(QuotedName(name)) /\ ~Traps(QuotedName(name))
      OBVIOUS
  <2>1. Len(QuotedName(name)) = 3 /\ ~Bare(QuotedName(name))
      BY NameFacts DEF Inert
  <2>2. ~Traps(QuotedName(name))
    <3>1. name \notin Befores /\ Quote \notin Befores
        BY DEF Names, Befores, Quote
    <3>2. ToSet(QuotedName(name)) = {Quote, name}
        BY DEF ToSet, QuotedName
    <3> QED BY <3>1, <3>2, Zenon DEF Traps
  <2> QED BY <2>1, <2>2
<1>3. Len(ArrayOpens) = 1
    BY LexemeFacts DEF ArrayOpens
<1>4. \A j \in 1 .. n : w[j] = z[j] \/ \E name \in Names : z[j] = Lexeme(name) /\ w[j] = QuotedName(name)
    BY <1>1 DEF Fixed
<1>5. \A j \in 1 .. n : /\ Bare(w[j]) => w[j] = z[j]
                        /\ w[j] = ArrayOpens => w[j] = z[j]
                        /\ Traps(w[j]) => w[j] = z[j]
  <2>1. \A name \in Names : QuotedName(name) # ArrayOpens
    <3>1. \A name \in Names : Len(QuotedName(name)) # Len(ArrayOpens)
      <4> SUFFICES ASSUME NEW name \in Names PROVE Len(QuotedName(name)) # Len(ArrayOpens)
          OBVIOUS
      <4>1. Len(QuotedName(name)) = 3
          BY <1>2
      <4> QED BY <1>3, <4>1
    <3> QED BY <3>1, Zenon
  <2> QED BY <1>2, <1>4, <2>1, Zenon
<1> HIDE DEF n
<1>6. BareArray(w) => BareArray(z)
  <2> SUFFICES ASSUME BareArray(w) PROVE BareArray(z)
      OBVIOUS
  <2>1. PICK j \in 2 .. n : Bare(w[j]) /\ w[j - 1] = ArrayOpens
      BY <1>1 DEF BareArray
  <2>2. j \in 1 .. n /\ j - 1 \in 1 .. n
      BY <1>1, <2>1
  <2> QED BY <1>5, <2>1, <2>2 DEF BareArray, n
<1>7. ASSUME NEW x, Repaired(w, x) PROVE Repaired(z, x)
  <2>1. Len(x) = n /\ \A j \in 1 .. n : Fixed(w[j], x[j])
      BY <1>1, <1>7 DEF Repaired
  <2>2. \A j \in 1 .. n : Fixed(z[j], x[j])
    <3> SUFFICES ASSUME NEW j \in 1 .. n PROVE Fixed(z[j], x[j])
        OBVIOUS
    <3>1. Fixed(z[j], w[j]) /\ Fixed(w[j], x[j])
        BY <1>1, <2>1
    <3>2. CASE w[j] = z[j]
        BY <3>1, <3>2
    <3>3. CASE w[j] # z[j]
      <4>1. PICK name \in Names : z[j] = Lexeme(name) /\ w[j] = QuotedName(name)
          BY <1>4, <3>3
      <4>2. x[j] = w[j]
          BY <1>2, <3>1, <4>1 DEF Fixed, Bare
      <4> QED BY <3>1, <4>2
    <3> QED BY <3>2, <3>3
  <2> QED BY <1>1, <2>1, <2>2 DEF Repaired, n
<1> QED BY <1>1, <1>5, <1>6, <1>7 DEF n

\* Each rule keeps what a text means, or breaks it.
LEMMA KeptByRule ==
    ASSUME NEW z \in Seq(Texts), ~BareArray(z), NEW text, Kept(z, text), NEW rule, Sound(rule)
    PROVE  Kept(z, Rewrite(text, rule))
<1> DEFINE new == Rewrite(text, rule)
           w == Scan(text).done
           x == Scan(new).done
<1>1. text \in Texts /\ new \in Texts /\ ~Zeroed(new) /\ Follows(Scan(text), Scan(new)) /\ w \in Seq(Texts)
    BY RewriteType, FollowsRewrite, ScanType DEF Kept, States
<1> HIDE DEF new
<1>2. Scan(text).open = <<>>
    BY DEF Kept
<1>3. /\ Scan(new).open = <<>>
      /\ Doomed(w) => Doomed(x)
      /\ \/ Repaired(w, x)
         \/ Doomed(x) /\ Trapped(Scan(text))
         \/ BareArray(w)
    BY <1>1, <1>2 DEF Follows
<1>4. Trapped(Scan(text)) <=> \E j \in 1 .. Len(w) : Len(w[j]) > 1 /\ Traps(w[j])
  <2>1. ~Traps(<<>>)
      BY DEF Traps, ToSet
  <2> QED BY <1>2, <2>1 DEF Trapped
<1> HIDE DEF w, x
<1>5. CASE Repaired(z, w)
  <2>1. /\ BareArray(w) => BareArray(z)
        /\ Trapped(Scan(text)) => \E j \in 1 .. Len(z) : Len(z[j]) > 1 /\ Traps(z[j])
        /\ Repaired(w, x) => Repaired(z, x)
      BY <1>1, <1>4, <1>5, RepairedMore
  <2> QED BY <1>1, <1>3, <2>1 DEF Kept, new, x
<1>6. CASE Doomed(w) /\ \E j \in 1 .. Len(z) : Len(z[j]) > 1 /\ Traps(z[j])
    BY <1>1, <1>3, <1>6 DEF Kept, new, x
<1> QED BY <1>5, <1>6 DEF Kept, w

\* The lexemes of a report, and what the repair makes of it.
LEMMA ReportNormalized ==
    ASSUME NEW style \in Styles, NEW report \in [version : Values, ek : EntryLists]
    PROVE  \E z \in Seq(Texts) :
              /\ Closed(Report(report, style), z) /\ ReportIs(z, report, style)
              /\ ~BareArray(z) /\ Kept(z, Report(report, style))
              /\ Kept(z, NormalizeJSON(Report(report, style)))
<1> DEFINE text == Report(report, style)
<1>1. PICK z : Closed(text, z) /\ ReportIs(z, report, style)
    BY ClosedReport
<1>2. z \in Seq(Texts) /\ text \in Texts /\ Scan(text) = [done |-> z, open |-> <<>>]
    BY <1>1, ClosedScan DEF Closed
<1>3. \A j \in 1 .. Len(z) : InPlace(z, j, style)
    BY <1>1, ReportInPlace
<1> HIDE DEF text
<1>4. ~BareArray(z)
  <2> SUFFICES ASSUME NEW j \in 2 .. Len(z), Bare(z[j]), z[j - 1] = ArrayOpens PROVE FALSE
      BY DEF BareArray
  <2>1. j \in 1 .. Len(z)
      BY <1>2, LenProperties
  <2> QED BY <1>3, <2>1 DEF InPlace
<1>5. ~Zeroed(text)
    BY <1>2, <1>3, ZeroedScan DEF InPlace
<1>6. Kept(z, text)
  <2>1. Repaired(z, z)
      BY FixedSelf DEF Repaired
  <2> QED BY <1>2, <1>5, <2>1 DEF Kept
<1>7. Kept(z, NormalizeJSON(text))
  <2>1. PICK f \in [0 .. 6 -> Texts] :
              /\ f[0] = text
              /\ \A k \in 1 .. 6 : f[k] = Rewrite(f[k - 1], Rules[k])
              /\ NormalizeJSON(text) = f[6]
      BY <1>2, Normalized
  <2>2. \A k \in 1 .. 6 : Kept(z, f[k - 1]) => Kept(z, f[k])
      BY <1>2, <1>4, <2>1, SoundRules, KeptByRule
  <2>3. Kept(z, f[0])
      BY <1>6, <2>1
  <2>4. Kept(z, f[1]) /\ Kept(z, f[2]) /\ Kept(z, f[3]) /\ Kept(z, f[4]) /\ Kept(z, f[5]) /\ Kept(z, f[6])
      BY <2>2, <2>3
  <2> QED BY <2>1, <2>4
<1> QED BY <1>1, <1>2, <1>4, <1>6, <1>7 DEF text

\* A report is read as what its sender meant, or refused.
LEMMA ReportNeverMisread ==
    ASSUME NEW style \in Styles, NEW report \in [version : Values, ek : EntryLists]
    PROVE  PostMyStatusBody(Report(report, style)) \subseteq {report}
<1> DEFINE text == NormalizeJSON(Report(report, style))
           w == Scan(text).done
<1>1. PICK z \in Seq(Texts) : ReportIs(z, report, style) /\ Kept(z, text)
    BY ReportNormalized
<1>2. text \in Texts /\ w \in Seq(Texts)
    BY <1>1, ScanType DEF Kept, States
<1>3. PostMyStatusBody(Report(report, style)) = ReadReport(text)
    BY DEF PostMyStatusBody
<1> HIDE DEF text
<1>4. CASE Repaired(z, w)
  <2>1. ASSUME NEW other \in ReadReport(text) PROVE other = report
    <3>1. PICK repaired \in Styles :
             other \in [version : Values, ek : EntryLists] /\ ReportIs(w, other, repaired)
        BY <1>2, ReportRead
    <3> QED BY <1>1, <1>4, <3>1, ReportUnique
  <2> QED BY <1>3, <2>1
<1>5. CASE Doomed(w)
  <2>1. PICK j \in 2 .. Len(w) : Bare(w[j])
      BY <1>5 DEF Doomed
  <2>2. j \in 1 .. Len(w) /\ ~Inert(w[j])
      BY <1>2, <2>1, LenProperties DEF Inert
  <2>3. ReadReport(text) = {}
      BY <1>2, <2>2, Refused
  <2> QED BY <1>3, <2>3
<1> QED BY <1>1, <1>4, <1>5 DEF Kept

-----------------------------------------------------------------------------
(* Blanks.                                                                 *)

\* A text that has blanks in strings only.
Blank == " "
Tight(text) ==
    \A k \in 1 .. Len(text) : text[k] = Blank => Scan(SubSeq(text, 1, k - 1)).open # <<>>

\* The empty text is tight.
LEMMA TightEmpty == Tight(<<>>)
BY DEF Tight

\* One token more, if it is no blank or in a string.
LEMMA TightAppend ==
    ASSUME NEW text \in Texts, Tight(text), NEW t \in Tokens,
           t = Blank => Scan(text).open # <<>>
    PROVE  Tight(Append(text, t)) /\ Append(text, t) \in Texts
<1> DEFINE a == Append(text, t)
           n == Len(text)
<1>1. /\ a \in Texts /\ Len(a) = n + 1 /\ n \in Nat /\ a[n + 1] = t
      /\ \A k \in 1 .. n : a[k] = text[k]
    BY AppendProperties, LenProperties DEF Texts
<1> HIDE DEF a, n
<1>2. ASSUME NEW k \in 1 .. n + 1 PROVE SubSeq(a, 1, k - 1) = SubSeq(text, 1, k - 1)
  <2> DEFINE x == SubSeq(a, 1, k - 1)
             y == SubSeq(text, 1, k - 1)
  <2>1. k - 1 \in 0 .. n /\ k - 1 \in 0 .. n + 1 /\ k - 1 \in Nat
      BY <1>1
  <2>2. (k - 1) - 1 + 1 = k - 1 /\ \A i \in 1 .. k - 1 : 1 + i - 1 = i /\ i \in 1 .. n /\ i \in 1 .. n + 1
      BY <1>1
  <2>3. \A i \in 1 .. k - 1 : a[i] = text[i] /\ a[i] \in Tokens /\ text[i] \in Tokens
    <3>1. \A i \in 1 .. n : text[i] \in Tokens
        BY ElementOfSeq DEF Texts, n
    <3> QED BY <1>1, <2>2, <3>1
  <2>4. /\ x \in Seq(Tokens) /\ Len(x) = k - 1 /\ \A i \in 1 .. k - 1 : x[i] = a[i]
    <3>1. \A i \in 1 .. k - 1 : a[i] \in Tokens
        BY <2>3
    <3> QED BY <2>1, <2>2, <3>1, SubSeqProperties
  <2>5. /\ y \in Seq(Tokens) /\ Len(y) = k - 1 /\ \A i \in 1 .. k - 1 : y[i] = text[i]
    <3>1. \A i \in 1 .. k - 1 : text[i] \in Tokens
        BY <2>3
    <3> QED BY <2>1, <2>2, <3>1, SubSeqProperties
  <2> HIDE DEF x, y
  <2> QED BY <2>3, <2>4, <2>5, SeqEqual DEF x, y
<1>3. SubSeq(text, 1, (n + 1) - 1) = text
  <2>1. (n + 1) - 1 = Len(text)
      BY <1>1 DEF n
  <2> QED BY <2>1, SubSeqFull DEF Texts
<1>4. /\ \A k \in 1 .. n : text[k] = Blank => Scan(SubSeq(text, 1, k - 1)).open # <<>>
      /\ t = Blank => Scan(text).open # <<>>
    BY Zenon DEF Tight, n
<1>5. \A k \in 1 .. n + 1 : a[k] = Blank => Scan(SubSeq(a, 1, k - 1)).open # <<>>
  <2> SUFFICES ASSUME NEW k \in 1 .. n + 1, a[k] = Blank
               PROVE  Scan(SubSeq(a, 1, k - 1)).open # <<>>
      OBVIOUS
  <2>1. CASE k = n + 1
    <3>1. SubSeq(a, 1, k - 1) = text
        BY <1>2, <1>3, <2>1
    <3> QED BY <1>1, <1>4, <2>1, <3>1
  <2>2. CASE k # n + 1
    <3>1. k \in 1 .. n
        BY <1>1, <2>2
    <3> QED BY <1>1, <1>2, <1>4, <3>1
  <2> QED BY <2>1, <2>2
<1> QED BY <1>1, <1>5, Zenon DEF Tight, a

\* A piece of text that has blanks in strings only, and closes its strings.
Solid(a) ==
    /\ a \in Texts
    /\ \A p \in Texts : Tight(p) /\ Scan(p).open = <<>> => Tight(p \o a) /\ Scan(p \o a).open = <<>>

\* The empty text is solid,
LEMMA SolidEmpty == Solid(<<>>)
<1>1. \A p \in Texts : p \o <<>> = p
    BY ConcatEmptySeq DEF Texts
<1> QED BY <1>1, EmptySeq DEF Solid, Texts

\* ... so are solid texts, one after the other,
LEMMA SolidConcat ==
    ASSUME NEW a, NEW b, Solid(a), Solid(b)
    PROVE  Solid(a \o b)
<1>1. a \o b \in Texts
    BY ConcatProperties DEF Solid, Texts
<1> SUFFICES ASSUME NEW p \in Texts, Tight(p), Scan(p).open = <<>>
             PROVE  Tight(p \o (a \o b)) /\ Scan(p \o (a \o b)).open = <<>>
    BY <1>1 DEF Solid
<1>2. p \o a \in Texts /\ p \o (a \o b) = (p \o a) \o b
    BY ConcatProperties, ConcatAssociative, SMTT(30) DEF Solid, Texts
<1>3. Tight(p \o a) /\ Scan(p \o a).open = <<>>
    BY DEF Solid
<1> DEFINE q == p \o a
<1> HIDE DEF q
<1>4. Tight(q \o b) /\ Scan(q \o b).open = <<>>
    BY <1>2, <1>3 DEF Solid, q
<1> QED BY <1>2, <1>4 DEF q

\* ... a token outside strings that is no blank,
LEMMA SolidToken ==
    ASSUME NEW t \in Plain
    PROVE  Solid(<<t>>)
<1>1. t \in Tokens /\ t # Quote /\ t # Nul /\ t # Blank /\ <<t>> \in Texts
    BY EmptySeq, AppendOne DEF Plain, Texts, Blank
<1>2. ASSUME NEW p \in Texts, Tight(p), Scan(p).open = <<>>
      PROVE  Tight(p \o <<t>>) /\ Scan(p \o <<t>>).open = <<>>
  <2>1. p \o <<t>> = Append(p, t)
      BY <1>1, AppendOne DEF Texts
  <2>2. Tight(Append(p, t))
      BY <1>1, <1>2, TightAppend
  <2>3. Scan(Append(p, t)) = Lex(Scan(p), t) /\ Scan(p) \in States
      BY <1>1, ScanAppend, ScanType
  <2>4. Lex(Scan(p), t).open = <<>>
      BY <1>1, <1>2, <2>3, LexCases
  <2> QED BY <2>1, <2>2, <2>3, <2>4
<1> QED BY <1>1, <1>2 DEF Solid

\* The tokens of a value leave its string open.
LEMMA InString ==
    ASSUME NEW q \in Texts, Tight(q), Scan(q).open # <<>>, NEW c \in Values
    PROVE  q \o c \in Texts /\ Tight(q \o c) /\ Scan(q \o c).open # <<>>
<1> DEFINE n == Len(c)
           To(k) == q \o SubSeq(c, 1, k)
<1>1. /\ n \in Nat /\ c \in Texts
      /\ \A k \in 1 .. n : c[k] \in Tokens /\ c[k] # Quote /\ c[k] # Nul
  <2>1. c \in Seq(Tokens)
    <3>1. Tokens \ {Quote, Nul} \subseteq Tokens
        OBVIOUS
    <3> QED BY <3>1, SeqMonotonic DEF Values
  <2>2. \A k \in 1 .. n : c[k] \in Tokens \ {Quote, Nul}
      BY ElementOfSeq DEF Values
  <2>3. n \in Nat
      BY LenProperties DEF Values
  <2> QED BY <2>1, <2>2, <2>3 DEF Texts
<1>2. /\ To(0) = q /\ To(n) = q \o c
      /\ \A k \in 0 .. n - 1 : To(k + 1) = Append(To(k), c[k + 1])
  <2>1. SubSeq(c, 1, 0) = <<>> /\ SubSeq(c, 1, n) = c
      BY <1>1, SubSeqEmpty, SubSeqFull DEF Texts
  <2>2. q \o <<>> = q
      BY ConcatEmptySeq DEF Texts
  <2>3. ASSUME NEW k \in 0 .. n - 1 PROVE To(k + 1) = Append(To(k), c[k + 1])
    <3>1. c[k + 1] \in Tokens /\ k \in Nat
        BY <1>1
    <3>2. SubSeq(c, 1, k + 1) = Append(SubSeq(c, 1, k), c[k + 1])
        BY <1>1, SubSeqRecursiveSecond DEF Texts
    <3>3. SubSeq(c, 1, k) \in Texts
        BY <1>1, SubSeqProperties DEF Texts
    <3> DEFINE a == SubSeq(c, 1, k)
    <3> HIDE DEF a
    <3>4. \A u \in Tokens : <<u>> \in Texts /\ Append(a, u) = a \o <<u>> /\ Append(q \o a, u) = (q \o a) \o <<u>>
      <4>1. a \in Texts /\ q \o a \in Texts
          BY <3>3, ConcatProperties DEF a, Texts
      <4> QED BY <4>1, EmptySeq, AppendOne DEF Texts
    <3>5. \A u \in Texts : (q \o a) \o u = q \o (a \o u)
      <4>1. a \in Texts
          BY <3>3 DEF a
      <4> QED BY <4>1, ConcatAssociative, SMTT(30) DEF Texts
    <3> QED BY <3>1, <3>2, <3>4, <3>5, Zenon DEF a
  <2> QED BY <2>1, <2>2, <2>3
<1> HIDE DEF n, To
<1> DEFINE T == {k \in Nat : k <= n => To(k) \in Texts /\ Tight(To(k)) /\ Scan(To(k)).open # <<>>}
<1>3. 0 \in T
    BY <1>2
<1>4. ASSUME NEW k \in Nat, k \in T PROVE k + 1 \in T
  <2> SUFFICES ASSUME k + 1 <= n
               PROVE  To(k + 1) \in Texts /\ Tight(To(k + 1)) /\ Scan(To(k + 1)).open # <<>>
      OBVIOUS
  <2>1. k \in 0 .. n - 1 /\ k + 1 \in 1 .. n
      BY <1>1
  <2>2. /\ To(k + 1) = Append(To(k), c[k + 1]) /\ To(k) \in Texts /\ Tight(To(k)) /\ Scan(To(k)).open # <<>>
        /\ c[k + 1] \in Tokens /\ c[k + 1] # Quote /\ c[k + 1] # Nul
      BY <1>1, <1>2, <1>4, <2>1
  <2>3. Tight(Append(To(k), c[k + 1])) /\ Append(To(k), c[k + 1]) \in Texts
      BY <2>2, TightAppend
  <2>4. Scan(Append(To(k), c[k + 1])) = Lex(Scan(To(k)), c[k + 1]) /\ Scan(To(k)) \in States
      BY <2>2, ScanAppend, ScanType
  <2>5. Lex(Scan(To(k)), c[k + 1]).open = Append(Scan(To(k)).open, c[k + 1])
      BY <2>2, <2>4, LexCases
  <2>6. Append(Scan(To(k)).open, c[k + 1]) # <<>>
    <3>1. PICK o \in Texts : o = Scan(To(k)).open
        BY <2>4 DEF States
    <3>2. Len(Append(o, c[k + 1])) = Len(o) + 1 /\ Len(o) \in Nat
        BY <2>2, AppendProperties, LenProperties DEF Texts
    <3>3. Len(Append(o, c[k + 1])) # 0 /\ Len(<<>>) = 0
        BY <3>2
    <3> QED BY <3>1, <3>3, Zenon
  <2> QED BY <2>2, <2>3, <2>4, <2>5, <2>6
<1>5. n \in T
  <2> HIDE DEF T
  <2> QED BY <1>1, <1>3, <1>4, NatSetInduction
<1>6. To(n) \in Texts /\ Tight(To(n)) /\ Scan(To(n)).open # <<>>
  <2>1. n <= n
      BY <1>1
  <2> QED BY <1>5, <2>1
<1>7. To(n) = q \o c
    BY <1>2
<1> QED BY <1>6, <1>7, Zenon

\* ... a string, also with blanks,
LEMMA SolidStr ==
    ASSUME NEW c \in Values
    PROVE  Solid(Str(c))
<1>1. Str(c) \in Texts /\ c \in Texts
  <2>1. Tokens \ {Quote, Nul} \subseteq Tokens
      OBVIOUS
  <2> QED BY <2>1, ClosedStr, SeqMonotonic DEF Closed, Texts, Values
<1>2. ASSUME NEW p \in Texts, Tight(p), Scan(p).open = <<>>
      PROVE  Tight(p \o Str(c)) /\ Scan(p \o Str(c)).open = <<>>
  <2> DEFINE q == Append(p, Quote)
             r == q \o c
             s == Append(r, Quote)
  <2>1. Quote \in Tokens /\ Quote # Nul /\ Quote # Blank
      BY SpecialTokens DEF Quote, Nul, Blank
  <2>2. q \in Texts /\ Tight(q) /\ Scan(q) = Lex(Scan(p), Quote) /\ Scan(p) \in States
      BY <1>2, <2>1, TightAppend, ScanAppend, ScanType
  <2>3. Scan(q).open = <<Quote>> /\ <<Quote>> # <<>>
    <3>1. Scan(q).open = <<Quote>>
        BY <1>2, <2>1, <2>2, LexCases
    <3>2. Len(<<Quote>>) = 1 /\ Len(<<>>) = 0
        OBVIOUS
    <3>3. <<Quote>> # <<>>
        BY <3>2
    <3> QED BY <3>1, <3>3
  <2> HIDE DEF q
  <2>4. r \in Texts /\ Tight(r) /\ Scan(r).open # <<>>
    <3>1. Scan(q).open # <<>>
        BY <2>3, Zenon
    <3> QED BY <2>2, <3>1, InString
  <2>5. p \o Str(c) = s
    <3>1. \A u \in Tokens : <<u>> \in Texts
        BY EmptySeq, AppendOne DEF Texts
    <3>2. q = p \o <<Quote>> /\ s = r \o <<Quote>> /\ <<Quote>> \in Texts
        BY <2>1, <2>4, <3>1, AppendOne DEF Texts, q
    <3>3. <<Quote>> \o c \in Texts
        BY <1>1, <3>2, ConcatProperties DEF Texts
    <3>4. \A u, v \in Texts : (p \o u) \o v = p \o (u \o v)
        BY ConcatAssociative DEF Texts
    <3> QED BY <1>1, <3>2, <3>3, <3>4, Zenon DEF Str
  <2> HIDE DEF r
  <2>6. Tight(s) /\ Scan(s) = Lex(Scan(r), Quote) /\ Scan(r) \in States
      BY <2>1, <2>4, TightAppend, ScanAppend, ScanType
  <2>7. Scan(s).open = <<>>
      BY <2>1, <2>4, <2>6, LexCases
  <2> QED BY <2>5, <2>6, <2>7
<1> QED BY <1>1, <1>2 DEF Solid

\* ... a list of solid texts, one after the other,
LEMMA SolidFlattened ==
    ASSUME NEW seqs \in Seq(Texts), \A k \in 1 .. Len(seqs) : Solid(seqs[k])
    PROVE  Solid(FlattenSeq(seqs))
<1> DEFINE n == Len(seqs)
<1>1. PICK f : /\ f[0] = <<>>
               /\ \A k \in 1 .. n : f[k] = f[k - 1] \o seqs[k]
               /\ FlattenSeq(seqs) = f[n]
    BY Flattened
<1>2. n \in Nat /\ \A k \in 1 .. n : Solid(seqs[k])
    BY LenProperties
<1> HIDE DEF n
<1> DEFINE T == {k \in Nat : k <= n => Solid(f[k])}
<1>3. 0 \in T
    BY <1>1, SolidEmpty
<1>4. ASSUME NEW k \in Nat, k \in T PROVE k + 1 \in T
  <2> SUFFICES ASSUME k + 1 <= n PROVE Solid(f[k + 1])
      OBVIOUS
  <2>1. PICK m \in 1 .. n : m = k + 1 /\ m - 1 = k
      BY <1>2
  <2>2. Solid(f[m - 1]) /\ Solid(seqs[m])
      BY <1>2, <1>4, <2>1
  <2>3. Solid(f[m - 1] \o seqs[m])
      BY <2>2, SolidConcat
  <2> QED BY <1>1, <2>1, <2>3
<1>5. n \in T
  <2> HIDE DEF T
  <2> QED BY <1>2, <1>3, <1>4, NatSetInduction
<1> QED BY <1>1, <1>2, <1>5

\* ... and the marks.
LEMMA SolidMarks ==
    /\ Solid(<<"{">>) /\ Solid(<<"}">>) /\ Solid(<<"[">>) /\ Solid(<<"]">>)
    /\ Solid(<<":">>) /\ Solid(<<",">>)
<1>1. "{" \in Plain /\ "}" \in Plain /\ "[" \in Plain /\ "]" \in Plain
      /\ ":" \in Plain /\ "," \in Plain
    BY PlainTokens DEF Marks
<1> QED BY <1>1, SolidToken, Zenon

\* Without blanks after colons and commas, a member,
LEMMA SolidMember ==
    ASSUME NEW name \in Names, NEW style \in Styles, style.spaced = FALSE, NEW a, Solid(a)
    PROVE  Solid(Member(name, a, style)) /\ Solid(Comma(style))
<1>1. Gap(style) = <<>>
    BY Zenon DEF Gap
<1>2. Solid(Name(name, style))
  <2>1. name \in Plain
      BY PlainTokens
  <2>2. CASE name \in style.bare
    <3>1. Solid(<<name>>)
        BY <2>1, SolidToken
    <3> QED BY <2>2, <3>1, Zenon DEF Name
  <2>3. CASE name \notin style.bare
    <3>1. <<name>> \in Values
        BY <2>1, EmptySeq, AppendOne DEF Plain, Values
    <3>2. Str(<<name>>) = <<Quote, name, Quote>>
      <4>1. <<Quote>> \o <<name>> = <<Quote, name>>
          BY Pair
      <4>2. <<Quote, name>> \o <<Quote>> = <<Quote, name, Quote>>
          BY Triple
      <4> QED BY <4>1, <4>2 DEF Str
    <3>3. Solid(Str(<<name>>))
        BY <3>1, SolidStr
    <3> QED BY <2>3, <3>2, <3>3, Zenon DEF Name
  <2> QED BY <2>2, <2>3
<1>3. Solid(Name(name, style) \o <<":">>) /\ Solid(Gap(style))
    BY <1>1, <1>2, SolidMarks, SolidEmpty, SolidConcat, Zenon
<1>4. Solid((Name(name, style) \o <<":">>) \o Gap(style))
    BY <1>3, SolidConcat, Zenon
<1>5. Solid(((Name(name, style) \o <<":">>) \o Gap(style)) \o a)
    BY <1>4, SolidConcat, Zenon
<1>6. Solid(<<",">> \o Gap(style))
    BY <1>3, SolidMarks, SolidConcat, Zenon
<1> QED BY <1>5, <1>6, Zenon DEF Member, Comma

\* ... an object,
LEMMA SolidObject ==
    ASSUME NEW style \in Styles, style.spaced = FALSE, NEW a, Solid(a), NEW b, Solid(b)
    PROVE  Solid(Object(a, b, style))
<1>1. Solid(Comma(style))
    BY SolidMember DEF Names
<1>2. \A x, y : Solid(x) /\ Solid(y) => Solid((<<"{">> \o ((x \o Comma(style)) \o y)) \o <<"}">>)
  <2> SUFFICES ASSUME NEW x, NEW y, Solid(x), Solid(y)
               PROVE  Solid((<<"{">> \o ((x \o Comma(style)) \o y)) \o <<"}">>)
      OBVIOUS
  <2>1. Solid((x \o Comma(style)) \o y)
    <3>1. Solid(x \o Comma(style))
        BY <1>1, SolidConcat, Zenon
    <3> QED BY <3>1, SolidConcat, Zenon
  <2>2. Solid(<<"{">> \o ((x \o Comma(style)) \o y))
      BY <2>1, SolidMarks, SolidConcat, Zenon
  <2> QED BY <2>2, SolidMarks, SolidConcat, Zenon
<1>3. \/ Object(a, b, style) = (<<"{">> \o ((a \o Comma(style)) \o b)) \o <<"}">>
      \/ Object(a, b, style) = (<<"{">> \o ((b \o Comma(style)) \o a)) \o <<"}">>
    BY Zenon DEF Object
<1> QED BY <1>2, <1>3, Zenon

\* ... an entry,
LEMMA SolidEntry ==
    ASSUME NEW style \in Styles, style.spaced = FALSE, NEW entry \in [k : Numbers, v : Values]
    PROVE  Solid(Entry(entry, style))
<1>1. "k" \in Names /\ "v" \in Names
    BY DEF Names
<1>2. Solid(<<entry.k>>) /\ Solid(Str(entry.v))
    BY SolidToken, PlainTokens, SolidStr
<1>3. Solid(Member("k", <<entry.k>>, style)) /\ Solid(Member("v", Str(entry.v), style))
    BY <1>1, <1>2, SolidMember
<1> QED BY <1>3, SolidObject DEF Entry

\* ... a list of entries
LEMMA SolidEntries ==
    ASSUME NEW style \in Styles, style.spaced = FALSE, NEW entries \in EntryLists
    PROVE  Solid(Entries(entries, style))
<1> DEFINE n == Len(entries)
           items == [i \in DOMAIN entries |-> Entry(entries[i], style)]
           pieces == [i \in DOMAIN items |-> IF i = 1 THEN items[i] ELSE Comma(style) \o items[i]]
<1>1. n \in Nat /\ DOMAIN entries = 1 .. n /\ \A i \in 1 .. n : entries[i] \in [k : Numbers, v : Values]
    BY ElementOfSeq, LenProperties DEF EntryLists
<1>2. Entries(entries, style) = (<<"[">> \o FlattenSeq(pieces)) \o <<"]">>
    BY DEF Entries, Array
<1>3. \A i \in 1 .. n : pieces[i] = IF i = 1 THEN Entry(entries[i], style)
                                   ELSE Comma(style) \o Entry(entries[i], style)
    BY <1>1
<1>4. pieces = [i \in 1 .. n |-> pieces[i]]
    BY <1>1
<1> HIDE DEF n, items, pieces
<1>5. Solid(Comma(style))
    BY SolidMember, SolidEmpty DEF Names
<1>6. ASSUME NEW i \in 1 .. n PROVE Solid(pieces[i])
  <2>1. Solid(Entry(entries[i], style))
      BY <1>1, SolidEntry
  <2>2. Solid(Comma(style) \o Entry(entries[i], style))
      BY <1>5, <2>1, SolidConcat
  <2> QED BY <1>3, <2>1, <2>2
<1>7. pieces \in Seq(Texts) /\ Len(pieces) = n
  <2>1. \A i \in 1 .. n : pieces[i] \in Texts
      BY <1>6 DEF Solid
  <2>2. pieces \in [1 .. n -> Texts]
      BY <1>4, <2>1
  <2> QED BY <1>1, <2>2
<1>8. Solid(FlattenSeq(pieces))
    BY <1>6, <1>7, SolidFlattened
<1>9. Solid(<<"[">> \o FlattenSeq(pieces))
    BY <1>8, SolidMarks, SolidConcat, Zenon
<1>10. Solid((<<"[">> \o FlattenSeq(pieces)) \o <<"]">>)
    BY <1>9, SolidMarks, SolidConcat, Zenon
<1> QED BY <1>2, <1>10, Zenon

\* ... and a report have none but in their values.
LEMMA TightReport ==
    ASSUME NEW style \in Styles, style.spaced = FALSE, NEW report \in [version : Values, ek : EntryLists]
    PROVE  Tight(Report(report, style))
<1>1. "version" \in Names /\ "ek" \in Names
    BY DEF Names
<1>2. Solid(Str(report.version)) /\ Solid(Entries(report.ek, style))
    BY SolidStr, SolidEntries
<1>3. Solid(Member("version", Str(report.version), style)) /\ Solid(Member("ek", Entries(report.ek, style), style))
    BY <1>1, <1>2, SolidMember
<1> DEFINE text == Report(report, style)
<1>4. Solid(text)
    BY <1>3, SolidObject DEF Report
<1> HIDE DEF text
<1>5. <<>> \in Texts /\ <<>> \o text = text /\ Tight(<<>>) /\ Scan(<<>>).open = <<>>
  <2>1. <<>> \in Texts
      BY EmptySeq DEF Texts
  <2>2. text \in Seq(Tokens)
      BY <1>4 DEF Solid, Texts
  <2>3. Scan(<<>>).open = <<>>
      BY ScanEmpty DEF Start
  <2> QED BY <2>1, <2>2, <2>3, TightEmpty, ConcatEmptySeq
<1>6. Tight(<<>> \o text)
    BY <1>4, <1>5, Zenon DEF Solid
<1> QED BY <1>5, <1>6, Zenon DEF text

-----------------------------------------------------------------------------
(* A rule quotes every name it finds.                                      *)

\* The lexemes after which, and before which, a rule quotes a name.
Quotes(rule, a, e) ==
    \A j \in 2 .. Len(a) - 1 :
        a[j - 1] = Lexeme(rule.before) /\ a[j] = Lexeme(rule.name) /\ a[j + 1] = Colon
            => e[j] = QuotedName(rule.name)

\* Quotes is about the lexemes only.
LEMMA QuotesSame ==
    ASSUME NEW rule, NEW d \in Seq(Texts), NEW e, NEW x \in Texts, NEW y \in Texts,
           Quotes(rule, Append(d, x), e), y # Colon
    PROVE  Quotes(rule, Append(d, y), e)
<1> DEFINE a == Append(d, x)
           b == Append(d, y)
           n == Len(d)
<1>1. /\ Len(a) = n + 1 /\ Len(b) = n + 1 /\ n \in Nat /\ b[n + 1] = y
      /\ \A j \in 1 .. n : a[j] = d[j] /\ b[j] = d[j]
    BY OneMoreLexeme
<1> HIDE DEF a, b, n
<1>2. ASSUME NEW j \in 2 .. n, b[j - 1] = Lexeme(rule.before), b[j] = Lexeme(rule.name), b[j + 1] = Colon
      PROVE  e[j] = QuotedName(rule.name)
  <2>1. j # n
      BY <1>1, <1>2
  <2>2. j \in 1 .. n /\ j - 1 \in 1 .. n /\ j + 1 \in 1 .. n
      BY <1>1, <2>1
  <2>3. a[j - 1] = Lexeme(rule.before) /\ a[j] = Lexeme(rule.name) /\ a[j + 1] = Colon
      BY <1>1, <1>2, <2>2
  <2>4. j \in 2 .. Len(a) - 1
      BY <1>1, <2>2
  <2> QED BY <2>3, <2>4 DEF Quotes, a
<1>3. Len(b) - 1 = n
    BY <1>1
<1> QED BY <1>2, <1>3 DEF Quotes, b

\* One lexeme more on both sides.
LEMMA QuotesMore ==
    ASSUME NEW rule, NEW d \in Seq(Texts), NEW e \in Seq(Texts), Len(e) = Len(d),
           NEW x \in Texts, NEW z \in Texts, NEW y \in Texts, NEW next \in Texts,
           Quotes(rule, Append(d, x), e),
           z = Colon => x = Colon,
           Len(d) > 0 /\ d[Len(d)] = Lexeme(rule.before) /\ z = Lexeme(rule.name) /\ next = Colon
               => y = QuotedName(rule.name)
    PROVE  Quotes(rule, Append(Append(d, z), next), Append(e, y))
<1> DEFINE a == Append(d, x)
           c == Append(d, z)
           b == Append(c, next)
           g == Append(e, y)
           n == Len(d)
<1>1. /\ Len(a) = n + 1 /\ Len(c) = n + 1 /\ n \in Nat /\ a[n + 1] = x /\ c[n + 1] = z
      /\ \A j \in 1 .. n : a[j] = d[j] /\ c[j] = d[j]
    BY OneMoreLexeme
<1>2. g[n + 1] = y /\ \A j \in 1 .. n : g[j] = e[j]
    BY AppendProperties
<1>3. c \in Seq(Texts)
    BY AppendProperties
<1>4. /\ n > 0 /\ d[n] = Lexeme(rule.before) /\ z = Lexeme(rule.name) /\ next = Colon
             => y = QuotedName(rule.name)
      /\ z = Colon => x = Colon
    OBVIOUS
<1> HIDE DEF a, c, g, n
<1>5. Len(b) = Len(c) + 1 /\ b[Len(c) + 1] = next /\ \A j \in 1 .. Len(c) : b[j] = c[j]
    BY <1>3, AppendProperties
<1> HIDE DEF b
<1>6. /\ Len(b) = n + 2 /\ b[n + 2] = next /\ b[n + 1] = z /\ \A j \in 1 .. n : b[j] = d[j]
  <2>1. n + 1 \in 1 .. n + 1 /\ (n + 1) + 1 = n + 2 /\ \A j \in 1 .. n : j \in 1 .. n + 1
      BY <1>1
  <2> QED BY <1>1, <1>5, <2>1
<1>7. ASSUME NEW j \in 2 .. n + 1, b[j - 1] = Lexeme(rule.before), b[j] = Lexeme(rule.name), b[j + 1] = Colon
      PROVE  g[j] = QuotedName(rule.name)
  <2>1. CASE j = n + 1
    <3>1. j - 1 = n /\ n \in 1 .. n /\ n > 0 /\ j + 1 = n + 2
        BY <1>1, <2>1
    <3> QED BY <1>2, <1>4, <1>6, <1>7, <2>1, <3>1
  <2>2. CASE j # n + 1
    <3>1. j \in 1 .. n /\ j - 1 \in 1 .. n /\ j + 1 \in 1 .. n + 1
        BY <1>1, <2>2
    <3>2. a[j - 1] = Lexeme(rule.before) /\ a[j] = Lexeme(rule.name)
        BY <1>1, <1>6, <1>7, <3>1
    <3>3. a[j + 1] = Colon
      <4>1. CASE j = n
        <5>1. j + 1 = n + 1
            BY <4>1
        <5> QED BY <1>1, <1>4, <1>6, <1>7, <5>1
      <4>2. CASE j # n
        <5>1. j + 1 \in 1 .. n
            BY <1>1, <3>1, <4>2
        <5> QED BY <1>1, <1>6, <1>7, <5>1
      <4> QED BY <4>1, <4>2
    <3>4. j \in 2 .. Len(a) - 1
        BY <1>1, <3>1
    <3>5. e[j] = QuotedName(rule.name)
        BY <3>2, <3>3, <3>4 DEF Quotes, a
    <3> QED BY <1>2, <3>1, <3>5
  <2> QED BY <2>1, <2>2
<1>8. Len(b) - 1 = n + 1
    BY <1>1, <1>6
<1> QED BY <1>7, <1>8 DEF Quotes, b, c, g

\* What is clean at the end was clean all along.
LEMMA CleanPrefixes ==
    ASSUME NEW text \in Texts, ~Zeroed(text), NEW rule, NEW f, NEW g, Rewrites(text, rule, f, g),
           ~Trapped(Scan(text)), ~BareArray(Scan(text).done)
    PROVE  \A k \in 0 .. Len(text) : ~Trapped(f[k]) /\ ~BareArray(f[k].done)
<1> DEFINE n == Len(text)
           Dirty(k) == Trapped(f[k]) \/ BareArray(f[k].done)
<1>1. n \in Nat /\ \A k \in 1 .. n : text[k] \in Tokens /\ text[k] # Nul
    BY ElementOfSeq, LenProperties DEF Texts, Zeroed
<1>2. /\ f \in [0 .. n -> States]
      /\ \A k \in 1 .. n : f[k] = Lex(f[k - 1], text[k])
      /\ Scan(text) = f[n]
    BY DEF Rewrites
<1> HIDE DEF n
<1>3. ASSUME NEW k \in 1 .. n, Dirty(k - 1) PROVE Dirty(k)
  <2>1. PICK l \in States : l = f[k - 1] /\ f[k] = Lex(l, text[k])
    <3>1. k - 1 \in 0 .. n
        BY <1>1
    <3> QED BY <1>2, <3>1
  <2>2. Trapped(l) => Trapped(f[k])
      BY <1>1, <2>1, TrappedStays
  <2>3. PICK d \in Seq(Texts), o \in Texts : d = l.done /\ o = l.open
      BY DEF States
  <2>4. f[k].done = d \/ \E x \in Texts : f[k].done = Append(d, x)
    <3>1. Append(o, Quote) \in Texts /\ Lexeme(text[k]) \in Texts
        BY <1>1, SpecialTokens, AppendProperties, EmptySeq, AppendOne DEF Texts, Lexeme
    <3>2. \/ f[k].done = d
          \/ f[k].done = Append(d, Append(o, Quote))
          \/ f[k].done = Append(d, Lexeme(text[k]))
        BY <1>1, <2>1, <2>3, LexCases, ZenonT(60)
    <3> QED BY <3>1, <3>2
  <2>5. BareArray(d) => BareArray(f[k].done)
      BY <2>4, OneMoreLexeme, ZenonT(60)
  <2> QED BY <1>3, <2>1, <2>2, <2>3, <2>5
<1> DEFINE T == {i \in Nat : i <= n => ~Dirty(n - i)}
<1>4. 0 \in T
  <2>1. n - 0 = n
      BY <1>1
  <2>2. ~Dirty(n)
      BY <1>2
  <2> QED BY <2>1, <2>2
<1>5. ASSUME NEW i \in Nat, i \in T PROVE i + 1 \in T
  <2> SUFFICES ASSUME i + 1 <= n PROVE ~Dirty(n - (i + 1))
      OBVIOUS
  <2>1. PICK k \in 1 .. n : k = n - i /\ k - 1 = n - (i + 1)
      BY <1>1
  <2>2. ~Dirty(k)
    <3>1. i <= n
        BY <1>1
    <3> QED BY <1>5, <2>1, <3>1
  <2> QED BY <1>3, <2>1, <2>2
<1>6. \A i \in Nat : i \in T
  <2> HIDE DEF T
  <2> QED BY <1>4, <1>5, NatSetInduction
<1>7. ASSUME NEW k \in 0 .. n PROVE ~Dirty(k)
  <2>1. PICK i \in Nat : i <= n /\ n - i = k
    <3>1. n - k \in Nat /\ n - k <= n /\ n - (n - k) = k
        BY <1>1
    <3> QED BY <3>1
  <2> QED BY <1>6, <2>1
<1> QED BY <1>7 DEF n

\* The lexemes of the beginnings of a text.
LEMMA ScanPrefix ==
    ASSUME NEW text \in Texts, NEW f, f[0] = Start,
           \A k \in 1 .. Len(text) : f[k] = Lex(f[k - 1], text[k]),
           NEW m \in 0 .. Len(text)
    PROVE  Scan(SubSeq(text, 1, m)) = f[m]
<1> DEFINE n == Len(text)
           T == {k \in Nat : k <= n => Scan(SubSeq(text, 1, k)) = f[k]}
<1>1. n \in Nat /\ \A k \in 1 .. n : text[k] \in Tokens
    BY ElementOfSeq, LenProperties DEF Texts
<1>2. \A k \in 1 .. n : f[k] = Lex(f[k - 1], text[k])
    OBVIOUS
<1> HIDE DEF n
<1>3. 0 \in T
  <2>1. SubSeq(text, 1, 0) = <<>>
      BY SubSeqEmpty
  <2> QED BY <2>1, ScanEmpty
<1>4. ASSUME NEW k \in Nat, k \in T PROVE k + 1 \in T
  <2> SUFFICES ASSUME k + 1 <= n PROVE Scan(SubSeq(text, 1, k + 1)) = f[k + 1]
      OBVIOUS
  <2>1. k + 1 \in 1 .. n /\ (k + 1) - 1 = k /\ k \in 0 .. n
      BY <1>1
  <2>2. SubSeq(text, 1, k + 1) = Append(SubSeq(text, 1, k), text[k + 1])
      BY <1>1, <2>1, SubSeqRecursiveSecond DEF n, Texts
  <2>3. SubSeq(text, 1, k) \in Texts
    <3>1. \A i \in 1 .. k : text[i] \in Tokens
        BY <1>1, <2>1
    <3> QED BY <3>1, SubSeqProperties DEF Texts
  <2>4. Scan(SubSeq(text, 1, k + 1)) = Lex(Scan(SubSeq(text, 1, k)), text[k + 1])
      BY <1>1, <2>1, <2>2, <2>3, ScanAppend
  <2> QED BY <1>2, <1>4, <2>1, <2>4
<1>5. \A k \in Nat : k \in T
  <2> HIDE DEF T
  <2> QED BY <1>3, <1>4, NatSetInduction
<1>6. m \in Nat /\ m <= n
    BY <1>1 DEF n
<1> QED BY <1>5, <1>6

\* The lexeme that begins with the next token.
Ahead(text, l, k) == IF l.open = <<>> /\ k + 1 \in 1 .. Len(text) THEN Lexeme(text[k + 1]) ELSE <<>>

\* Outside strings, the last token is the last lexeme.
Linked(text, l, k) ==
    l.open = <<>> => \A t : Len(l.done) > 0 /\ l.done[Len(l.done)] = Lexeme(t)
                                => k \in 1 .. Len(text) /\ text[k] = t

\* A beginning of a tight text, and what it is rewritten to.
Quoting(text, rule, l, p, k) ==
    /\ Linked(text, l, k) /\ Tight(p)
    /\ Quotes(rule, Append(l.done, Ahead(text, l, k)), Scan(p).done)

\* The next lexeme is a text.
LEMMA AheadType ==
    ASSUME NEW text \in Texts, NEW l, NEW k
    PROVE  Ahead(text, l, k) \in Texts /\ (l.open # <<>> => Ahead(text, l, k) # Colon)
<1>1. \A i \in 1 .. Len(text) : Lexeme(text[i]) \in Texts
  <2>1. \A i \in 1 .. Len(text) : text[i] \in Tokens
      BY ElementOfSeq DEF Texts
  <2> QED BY <2>1, EmptySeq, AppendOne DEF Texts, Lexeme
<1>2. <<>> \in Texts
    BY EmptySeq DEF Texts
<1>3. <<>> # Colon
  <2>1. Len(Colon) = 1 /\ Len(<<>>) = 0
      BY LexemeFacts DEF Colon
  <2>2. Len(Colon) # Len(<<>>)
      BY <2>1
  <2> QED BY <2>2, Zenon
<1> QED BY <1>1, <1>2, <1>3, Zenon DEF Ahead

\* Where the rule applies.
LEMMA QuotingFound ==
    ASSUME NEW text \in Texts, ~Zeroed(text), NEW rule, Sound(rule), NEW l \in States, NEW k \in Nat,
           NEW p \in Texts, Quoting(text, rule, l, p, k), Follows(l, Scan(p)),
           k + 1 \in 1 .. Len(text), Found(text, rule, k + 1),
           NEW l0 \in States, l = Lex(l0, text[k]),
           ~Trapped(l), ~BareArray(l.done), ~BareArray(Lex(l, text[k + 1]).done)
    PROVE  Quoting(text, rule, Lex(l, text[k + 1]), p \o (rule.adds \o QuotedName(rule.name)), k + 1)
<1> DEFINE ll == Lex(l, text[k + 1])
           q == p \o (rule.adds \o QuotedName(rule.name))
<1>1. PICK name \in Names : name = rule.name
    BY DEF Sound
<1>2. PICK before \in Marks : before = rule.before /\ before \in Befores
    BY DEF Sound, Befores, Marks
<1>3. text[k] = before /\ text[k + 1] = name
  <2>1. (k + 1) - 1 = k
      OBVIOUS
  <2> QED BY <1>1, <1>2, <2>1 DEF Found
<1>4. PICK d \in Seq(Texts), o \in Texts : d = l.done /\ o = l.open
    BY DEF States
<1>5. PICK d0 \in Seq(Texts), o0 \in Texts : d0 = l0.done /\ o0 = l0.open
    BY DEF States
<1>6. /\ o0 = <<>> => d = Append(d0, Lexeme(before)) /\ o = <<>>
      /\ o0 # <<>> => o = Append(o0, before)
    BY <1>3, <1>4, <1>5, LexMark
<1>7. ~Traps(o)
    BY <1>4 DEF Trapped
<1>8. o0 = <<>>
  <2> SUFFICES ASSUME o0 # <<>> PROVE FALSE
      OBVIOUS
  <2>1. o0 \in Seq(Tokens) /\ before \in Tokens
      BY SpecialTokens DEF Texts
  <2>2. ToSet(Append(o0, before)) = ToSet(o0) \cup {before}
      BY <2>1, AppendToSet
  <2>3. o = Append(o0, before)
      BY <1>6
  <2> QED BY <1>2, <1>7, <2>2, <2>3, Zenon DEF Traps
<1>9. d = Append(d0, Lexeme(before)) /\ o = <<>>
    BY <1>6, <1>8
<1>10. name \in Tokens /\ name # Quote /\ name # Nul /\ name # Blank /\ Quote \in Tokens /\ Quote # Blank
  <2>1. name \in Plain
      BY PlainTokens
  <2>2. Quote # Blank
      BY DEF Quote, Blank
  <2> QED BY <2>1, <2>2, SpecialTokens DEF Plain, Blank
<1>11. ll.done = Append(d, Lexeme(name)) /\ ll.open = <<>>
    BY <1>3, <1>4, <1>9, <1>10, LexCases, ZenonT(60) DEF Blank
<1>12. Lexeme(name) \in Texts /\ Lexeme(before) \in Texts /\ QuotedName(name) \in Texts /\ Bare(Lexeme(name))
  <2>1. \A u \in Tokens : Lexeme(u) \in Texts
      BY EmptySeq, AppendOne DEF Texts, Lexeme
  <2>2. QuotedName(name) \in Texts
      BY <1>1, AddsType
  <2> QED BY <1>10, <2>1, <2>2, SpecialTokens DEF Bare
<1>13. rule.adds = <<>>
  <2> SUFFICES ASSUME rule.adds # <<>> PROVE FALSE
      OBVIOUS
  <2>1. Lexeme(before) = ArrayOpens
      BY <1>2, Zenon DEF Sound
  <2>2. Len(d) > 0 /\ d[Len(d)] = Lexeme(before)
    <3>1. Len(d) = Len(d0) + 1 /\ Len(d0) \in Nat /\ d[Len(d0) + 1] = Lexeme(before)
        BY <1>9, <1>12, OneMoreLexeme
    <3> QED BY <3>1
  <2>3. BareArray(Append(d, Lexeme(name)))
      BY <1>12, <2>1, <2>2, OneMoreLexeme
  <2> QED BY <1>11, <2>3
<1>14. PICK e \in Seq(Texts) : e = Scan(p).done
    BY ScanType DEF States
<1>15. Scan(p).open = <<>> /\ Len(e) = Len(d)
  <2>1. \/ Scan(p).open = l.open /\ Repaired(l.done, Scan(p).done)
        \/ Doomed(Scan(p).done) /\ Trapped(l)
        \/ BareArray(l.done)
      BY Zenon DEF Follows
  <2>2. Scan(p).open = o /\ Repaired(d, e)
      BY <1>4, <1>14, <2>1
  <2> QED BY <1>9, <2>2 DEF Repaired
<1>16. Scan(q).done = Append(e, QuotedName(name))
  <2>1. Scan(q) = Lex(Lex(Lex(Scan(p), Quote), name), Quote)
      BY <1>1, <1>13, ScanQuoted
  <2>2. Scan(p) \in States
      BY ScanType
  <2> QED BY <1>14, <1>15, <2>1, <2>2, LexQuoted
<1>17. Tight(q)
  <2> DEFINE a == Append(p, Quote)
             b == Append(a, name)
             c == Append(b, Quote)
  <2>1. Tight(a) /\ a \in Texts
      BY <1>10, TightAppend DEF Quoting
  <2> HIDE DEF a
  <2>2. Tight(b) /\ b \in Texts
      BY <1>10, <2>1, TightAppend
  <2> HIDE DEF b
  <2>3. Tight(c)
      BY <1>10, <2>2, TightAppend
  <2>4. c = q
    <3>7. c = p \o QuotedName(name)
        BY QuotedTokens DEF a, b
    <3> HIDE DEF c
    <3>8. QuotedName(name) \in Seq(Tokens)
        BY <1>12 DEF Texts
    <3>9. <<>> \o QuotedName(name) = QuotedName(name)
        BY <3>8, ConcatEmptySeq
    <3> QED BY <1>1, <1>13, <3>7, <3>9, Zenon
  <2> QED BY <2>3, <2>4
<1> DEFINE x == Ahead(text, l, k)
           next == Ahead(text, ll, k + 1)
<1>18. x \in Texts /\ next \in Texts
    BY AheadType
<1>19. Quotes(rule, Append(d, x), e)
    BY <1>4, <1>14 DEF Quoting
<1> HIDE DEF x, next, ll, q
<1>20. Lexeme(name) # Colon
  <2>1. ~Bare(Colon)
      BY InertLexemes DEF Inert
  <2> QED BY <1>12, <2>1
<1>21. Quotes(rule, Append(Append(d, Lexeme(name)), next), Append(e, QuotedName(name)))
    BY <1>1, <1>12, <1>15, <1>18, <1>19, <1>20, QuotesMore
<1>22. Linked(text, ll, k + 1)
  <2> SUFFICES ASSUME NEW t, ll.done[Len(ll.done)] = Lexeme(t) PROVE text[k + 1] = t
      BY Zenon DEF Linked
  <2>1. ll.done[Len(ll.done)] = Lexeme(name)
    <3>1. /\ Len(Append(d, Lexeme(name))) = Len(d) + 1
          /\ Append(d, Lexeme(name))[Len(d) + 1] = Lexeme(name)
        BY <1>12, OneMoreLexeme
    <3> QED BY <1>11, <3>1
  <2>2. t = name
      BY <2>1, LexemeFacts
  <2> QED BY <1>3, <2>2
<1> QED BY <1>11, <1>16, <1>17, <1>21, <1>22, Zenon DEF Quoting, next, ll, q

\* Where it does not.
LEMMA QuotingCopied ==
    ASSUME NEW text \in Texts, ~Zeroed(text), Tight(text), NEW rule, Sound(rule), NEW l \in States, NEW k \in Nat,
           NEW p \in Texts, Quoting(text, rule, l, p, k), Follows(l, Scan(p)),
           k + 1 \in 1 .. Len(text), ~Found(text, rule, k + 1),
           l = Scan(SubSeq(text, 1, k)), ~Trapped(l), ~BareArray(l.done)
    PROVE  Quoting(text, rule, Lex(l, text[k + 1]), Append(p, text[k + 1]), k + 1)
<1> DEFINE n == Len(text)
           t == text[k + 1]
           ll == Lex(l, t)
           q == Append(p, t)
           x == Ahead(text, l, k)
           next == Ahead(text, ll, k + 1)
<1>1. t \in Tokens /\ t # Nul /\ n \in Nat /\ (t = Blank => l.open # <<>>)
  <2>1. (k + 1) - 1 = k
      OBVIOUS
  <2>2. t = Blank => l.open # <<>>
      BY <2>1 DEF Tight
  <2> QED BY <2>2, ElementOfSeq, LenProperties DEF Texts, Zeroed
<1>2. PICK d \in Seq(Texts), o \in Texts : d = l.done /\ o = l.open
    BY DEF States
<1>3. PICK e \in Seq(Texts) : e = Scan(p).done
    BY ScanType DEF States
<1>4. Scan(p).open = o /\ Len(e) = Len(d) /\ Scan(p) \in States
  <2>1. \/ Scan(p).open = l.open /\ Repaired(l.done, Scan(p).done)
        \/ Doomed(Scan(p).done) /\ Trapped(l)
        \/ BareArray(l.done)
      BY Zenon DEF Follows
  <2>2. Scan(p).open = o /\ Repaired(d, e)
      BY <1>2, <1>3, <2>1
  <2> QED BY <2>2, ScanType DEF Repaired
<1>5. Scan(q) = Lex(Scan(p), t)
    BY <1>1, ScanAppend
<1>6. Tight(q)
  <2>1. t = Blank => Scan(p).open # <<>>
      BY <1>1, <1>2, <1>4
  <2> QED BY <1>1, <2>1, TightAppend DEF Quoting
<1>7. x \in Texts /\ next \in Texts /\ (ll.open # <<>> => next # Colon)
    BY AheadType
<1>8. Quotes(rule, Append(d, x), e) /\ Linked(text, l, k)
    BY <1>2, <1>3 DEF Quoting
<1>9. /\ o = <<>> => x = Lexeme(t)
      /\ ll.open = <<>> /\ k + 2 \in 1 .. n => next = Lexeme(text[k + 2])
      /\ ll.open = <<>> /\ k + 2 \notin 1 .. n => next = <<>>
  <2>1. (k + 1) + 1 = k + 2
      OBVIOUS
  <2> QED BY <1>2, <2>1, Zenon DEF Ahead
<1>10. Append(o, Quote) \in Texts /\ Lexeme(t) \in Texts /\ Append(o, t) # <<>> /\ <<Quote>> # <<>>
       /\ (o # <<>> => Len(Append(o, Quote)) # 1)
  <2>1. Append(o, Quote) \in Texts /\ Lexeme(t) \in Texts
      BY <1>1, SpecialTokens, AppendProperties, EmptySeq, AppendOne DEF Texts, Lexeme
  <2>2. Len(Append(o, t)) = Len(o) + 1 /\ Len(o) \in Nat /\ (Len(o) = 0 => o = <<>>)
        /\ Len(Append(o, Quote)) = Len(o) + 1
    <3>1. \A u \in Tokens : Len(Append(o, u)) = Len(o) + 1
        BY AppendProperties DEF Texts
    <3>2. Len(o) \in Nat /\ (Len(o) = 0 => o = <<>>)
        BY LenProperties, EmptySeq DEF Texts
    <3> QED BY <1>1, <3>1, <3>2, SpecialTokens, Zenon
  <2>3. Len(Append(o, t)) # 0 /\ (o # <<>> => Len(Append(o, Quote)) # 1)
      BY <2>2
  <2>4. Len(<<>>) = 0 /\ Len(<<Quote>>) = 1
      OBVIOUS
  <2>5. <<Quote>> # <<>>
      BY <2>4, SMTT(30)
  <2> QED BY <2>1, <2>3, <2>4, <2>5, Zenon
<1>11. \/ ll.done = d /\ Scan(q).done = e /\ ll.open # <<>>
       \/ /\ o # <<>> /\ ll.done = Append(d, Append(o, Quote)) /\ ll.open = <<>>
          /\ Scan(q).done = Append(e, Append(o, Quote))
       \/ /\ o = <<>> /\ ll.done = Append(d, Lexeme(t)) /\ ll.open = <<>>
          /\ Scan(q).done = Append(e, Lexeme(t))
  <2>1. CASE t = Quote /\ o = <<>>
    <3>1. ll.done = d /\ ll.open = <<Quote>>
        BY <1>1, <1>2, <2>1, LexCases
    <3>2. Scan(q).done = e
        BY <1>1, <1>3, <1>4, <1>5, <2>1, LexCases, ZenonT(60)
    <3> QED BY <1>10, <3>1, <3>2, Zenon
  <2>2. CASE t = Quote /\ o # <<>>
    <3>1. ll.done = Append(d, Append(o, Quote)) /\ ll.open = <<>>
        BY <1>1, <1>2, <2>2, LexCases
    <3>2. Scan(q).done = Append(e, Append(o, Quote))
        BY <1>1, <1>3, <1>4, <1>5, <2>2, LexCases
    <3> QED BY <2>2, <3>1, <3>2, Zenon
  <2>3. CASE t # Quote /\ o # <<>>
    <3>1. ll.done = d /\ ll.open = Append(o, t)
        BY <1>1, <1>2, <2>3, LexCases
    <3>2. Scan(q).done = e
        BY <1>1, <1>3, <1>4, <1>5, <2>3, LexCases
    <3> QED BY <1>10, <3>1, <3>2, Zenon
  <2>4. CASE t # Quote /\ o = <<>>
    <3>0. t # " "
        BY <1>1, <1>2, <2>4 DEF Blank
    <3>1. ll.done = Append(d, Lexeme(t)) /\ ll.open = <<>>
        BY <1>1, <1>2, <2>4, <3>0, LexCases
    <3>2. Scan(q).done = Append(e, Lexeme(t))
        BY <1>1, <1>3, <1>4, <1>5, <2>4, <3>0, LexCases
    <3> QED BY <2>4, <3>1, <3>2, Zenon
  <2> QED BY <2>1, <2>2, <2>3, <2>4
<1>12. \A u : Len(Lexeme(u)) = 1
    BY LexemeFacts
<1>13. /\ Len(ll.done) = Len(ll.done)
       /\ \A y \in Texts : Len(Append(d, y)) = Len(d) + 1 /\ Append(d, y)[Len(d) + 1] = y
    BY OneMoreLexeme
<1>14. Found(text, rule, k + 1) <=> /\ k + 2 \in 1 .. n /\ k >= 1
                                    /\ text[k] = rule.before /\ t = rule.name /\ text[k + 2] = ":"
  <2>1. (k + 1) - 1 = k /\ (k + 1) + 1 = k + 2
      OBVIOUS
  <2>2. k + 1 \in 2 .. n - 1 <=> k + 2 \in 1 .. n /\ k >= 1
      BY <1>1
  <2> QED BY <2>1, <2>2, Zenon DEF Found
<1> HIDE DEF x, next, ll, q, t, n
<1>15. CASE ll.done = d /\ Scan(q).done = e /\ ll.open # <<>>
  <2>1. Quotes(rule, Append(d, next), e)
      BY <1>7, <1>8, <1>15, QuotesSame
  <2>2. Linked(text, ll, k + 1)
      BY <1>15 DEF Linked
  <2> QED BY <1>6, <1>15, <2>1, <2>2, Zenon DEF Quoting, q, ll, t, next
<1>16. CASE /\ o # <<>> /\ ll.done = Append(d, Append(o, Quote)) /\ ll.open = <<>>
            /\ Scan(q).done = Append(e, Append(o, Quote))
  <2> DEFINE s == Append(o, Quote)
  <2>1. s \in Texts /\ Len(s) # 1
      BY <1>10, <1>16
  <2> HIDE DEF s
  <2>2. s # Colon /\ \A u : s # Lexeme(u)
      BY <1>12, <2>1, Zenon DEF Colon
  <2>3. Quotes(rule, Append(Append(d, s), next), Append(e, s))
      BY <1>4, <1>7, <1>8, <2>1, <2>2, QuotesMore
  <2>4. Linked(text, ll, k + 1)
    <3>1. ll.done[Len(ll.done)] = s
        BY <1>13, <1>16, <2>1 DEF s
    <3> QED BY <2>2, <3>1, Zenon DEF Linked
  <2> QED BY <1>6, <1>16, <2>3, <2>4, Zenon DEF Quoting, q, ll, t, next, s
<1>17. CASE /\ o = <<>> /\ ll.done = Append(d, Lexeme(t)) /\ ll.open = <<>>
            /\ Scan(q).done = Append(e, Lexeme(t))
  <2>1. Lexeme(t) \in Texts /\ x = Lexeme(t)
      BY <1>9, <1>10, <1>17
  <2>2. ASSUME Len(d) > 0, d[Len(d)] = Lexeme(rule.before), Lexeme(t) = Lexeme(rule.name), next = Colon
        PROVE  FALSE
    <3>1. t = rule.name
        BY <2>2, LexemeFacts
    <3>2. k \in 1 .. n /\ text[k] = rule.before
        BY <1>2, <1>8, <1>17, <2>2 DEF Linked, n
    <3>3. next # <<>>
      <4>1. Len(next) = 1 /\ Len(<<>>) = 0
          BY <2>2, <1>12, Zenon DEF Colon
      <4>2. Len(next) # Len(<<>>)
          BY <4>1
      <4> QED BY <4>2, Zenon
    <3>4. k + 2 \in 1 .. n /\ next = Lexeme(text[k + 2])
        BY <1>9, <1>17, <3>3
    <3>5. text[k + 2] = ":"
        BY <2>2, <3>4, LexemeFacts, Zenon DEF Colon
    <3>6. k >= 1
        BY <3>2
    <3>7. Found(text, rule, k + 1)
        BY <1>14, <3>1, <3>2, <3>4, <3>5, <3>6, Zenon
    <3> QED BY <3>7
  <2>3. Quotes(rule, Append(Append(d, Lexeme(t)), next), Append(e, Lexeme(t)))
      BY <1>4, <1>7, <1>8, <2>1, <2>2, QuotesMore
  <2>4. Linked(text, ll, k + 1)
    <3>1. ll.done[Len(ll.done)] = Lexeme(t)
        BY <1>13, <1>17, <2>1
    <3> SUFFICES ASSUME NEW u, Lexeme(t) = Lexeme(u) PROVE t = u
        BY <3>1, Zenon DEF Linked, t, n
    <3> QED BY LexemeFacts
  <2> QED BY <1>6, <1>17, <2>3, <2>4, Zenon DEF Quoting, q, ll, t, next
<1> QED BY <1>11, <1>15, <1>16, <1>17

\* A rule quotes every name that stands where it looks.
LEMMA RuleQuotes ==
    ASSUME NEW text \in Texts, ~Zeroed(text), Tight(text), NEW rule, Sound(rule),
           ~Trapped(Scan(text)), ~BareArray(Scan(text).done)
    PROVE  /\ Tight(Rewrite(text, rule))
           /\ \A j \in 2 .. Len(Scan(text).done) - 1 :
                 /\ Scan(text).done[j - 1] = Lexeme(rule.before)
                 /\ Scan(text).done[j] = Lexeme(rule.name)
                 /\ Scan(text).done[j + 1] = Colon
                 => Scan(Rewrite(text, rule)).done[j] = QuotedName(rule.name)
<1> DEFINE n == Len(text)
<1>1. n \in Nat /\ \A k \in 1 .. n : text[k] \in Tokens
    BY ElementOfSeq, LenProperties DEF Texts
<1>2. PICK f, g : /\ Rewrites(text, rule, f, g)
                  /\ \A k \in 0 .. n : Follows(f[k], Scan(g[k])) /\ ~Zeroed(g[k])
    BY RewritesStep
<1>3. \A k \in 0 .. n : ~Trapped(f[k]) /\ ~BareArray(f[k].done)
    BY <1>2, CleanPrefixes
<1>4. \A k \in 0 .. n : Scan(SubSeq(text, 1, k)) = f[k]
    BY <1>2, ScanPrefix DEF Rewrites
<1>5. /\ f \in [0 .. n -> States] /\ f[0] = Start
      /\ \A k \in 1 .. n : f[k] = Lex(f[k - 1], text[k])
      /\ Scan(text) = f[n]
      /\ g[0] = <<>> /\ \A k \in 0 .. n : g[k] \in Texts
      /\ \A k \in 1 .. n : IF Found(text, rule, k)
                           THEN g[k] = g[k - 1] \o (rule.adds \o QuotedName(rule.name))
                           ELSE g[k] = Append(g[k - 1], text[k])
      /\ Rewrite(text, rule) = g[n]
    BY <1>2 DEF Rewrites
<1> HIDE DEF n
<1> DEFINE T == {k \in Nat : k <= n => Quoting(text, rule, f[k], g[k], k)}
<1>6. 0 \in T
  <2> DEFINE x == Ahead(text, Start, 0)
  <2>1. x \in Texts
      BY AheadType
  <2> HIDE DEF x
  <2>2. <<>> \in Seq(Texts)
      BY EmptySeq
  <2>3. Len(Append(<<>>, x)) = 1
    <3>1. Len(Append(<<>>, x)) = Len(<<>>) + 1 /\ Len(<<>>) = 0
        BY <2>1, <2>2, OneMoreLexeme
    <3> QED BY <3>1
  <2>4. Quotes(rule, Append(<<>>, x), Scan(<<>>).done)
      BY <2>3 DEF Quotes
  <2>5. Linked(text, Start, 0)
      BY DEF Linked, Start
  <2>6. Start.done = <<>>
      BY DEF Start
  <2>7. Quoting(text, rule, Start, <<>>, 0)
      BY <2>4, <2>5, <2>6, TightEmpty, Zenon DEF Quoting, x
  <2> QED BY <1>5, <2>7
<1>7. ASSUME NEW k \in Nat, k \in T PROVE k + 1 \in T
  <2> SUFFICES ASSUME k + 1 <= n PROVE Quoting(text, rule, f[k + 1], g[k + 1], k + 1)
      OBVIOUS
  <2>1. k + 1 \in 1 .. n /\ (k + 1) - 1 = k /\ k \in 0 .. n /\ k + 1 \in 0 .. n /\ k <= n
      BY <1>1
  <2>2. PICK l \in States, p \in Texts : l = f[k] /\ p = g[k]
      BY <1>5, <2>1
  <2>3. /\ Quoting(text, rule, l, p, k) /\ Follows(l, Scan(p)) /\ ~Trapped(l) /\ ~BareArray(l.done)
        /\ l = Scan(SubSeq(text, 1, k)) /\ f[k + 1] = Lex(l, text[k + 1])
        /\ ~BareArray(Lex(l, text[k + 1]).done) /\ k + 1 \in 1 .. Len(text)
      BY <1>2, <1>3, <1>4, <1>5, <1>7, <2>1, <2>2 DEF n
  <2>4. CASE Found(text, rule, k + 1)
    <3>1. g[k + 1] = p \o (rule.adds \o QuotedName(rule.name))
        BY <1>5, <2>1, <2>2, <2>4
    <3>2. PICK m \in 1 .. n : m = k
      <4>1. k + 1 \in 2 .. n - 1
          BY <2>4 DEF Found, n
      <4> QED BY <1>1, <4>1
    <3>3. PICK l0 \in States : l0 = f[m - 1]
      <4>1. m - 1 \in 0 .. n
          BY <1>1
      <4> QED BY <1>5, <4>1
    <3>4. l = Lex(l0, text[k])
        BY <1>5, <2>2, <3>2, <3>3
    <3>5. Quoting(text, rule, Lex(l, text[k + 1]), p \o (rule.adds \o QuotedName(rule.name)), k + 1)
        BY <2>3, <2>4, <3>4, QuotingFound
    <3> QED BY <2>3, <3>1, <3>5
  <2>5. CASE ~Found(text, rule, k + 1)
    <3>1. g[k + 1] = Append(p, text[k + 1])
        BY <1>5, <2>1, <2>2, <2>5
    <3>2. Quoting(text, rule, Lex(l, text[k + 1]), Append(p, text[k + 1]), k + 1)
        BY <2>3, <2>5, QuotingCopied
    <3> QED BY <2>3, <3>1, <3>2
  <2> QED BY <2>4, <2>5
<1>8. Quoting(text, rule, f[n], g[n], n)
  <2>1. \A k \in Nat : k \in T
    <3> HIDE DEF T
    <3> QED BY <1>6, <1>7, NatSetInduction
  <2> QED BY <1>1, <2>1
<1> DEFINE new == Rewrite(text, rule)
           w == Scan(text).done
           x == Ahead(text, Scan(text), n)
<1> HIDE DEF new, x
<1>9. Tight(new) /\ Quotes(rule, Append(w, x), Scan(new).done)
    BY <1>5, <1>8, Zenon DEF Quoting, new, x
<1>10. /\ w \in Seq(Texts) /\ x \in Texts
    BY AheadType, ScanType DEF States, x
<1> HIDE DEF w
<1>11. /\ Len(Append(w, x)) = Len(w) + 1 /\ Len(w) \in Nat
       /\ \A j \in 1 .. Len(w) : Append(w, x)[j] = w[j]
    BY <1>10, OneMoreLexeme
<1>12. ASSUME NEW j \in 2 .. Len(w) - 1, w[j - 1] = Lexeme(rule.before), w[j] = Lexeme(rule.name), w[j + 1] = Colon
       PROVE  Scan(new).done[j] = QuotedName(rule.name)
  <2> DEFINE a == Append(w, x)
  <2> HIDE DEF a
  <2>1. j \in 1 .. Len(w) /\ j - 1 \in 1 .. Len(w) /\ j + 1 \in 1 .. Len(w) /\ j \in 2 .. Len(a) - 1
      BY <1>11 DEF a
  <2>2. a[j - 1] = Lexeme(rule.before) /\ a[j] = Lexeme(rule.name) /\ a[j + 1] = Colon
      BY <1>11, <1>12, <2>1 DEF a
  <2> QED BY <1>9, <2>1, <2>2 DEF Quotes, a
<1> QED BY <1>9, <1>12 DEF new, w

-----------------------------------------------------------------------------
(* Reports the repair makes JSON of.                                       *)

\* No string holds what the rules look for.
Free(z) == \A j \in 1 .. Len(z) : Len(z[j]) > 1 => ~Traps(z[j])

\* One rule on a text with the lexemes z, some names quoted.
LEMMA RuleMends ==
    ASSUME NEW z \in Seq(Texts), ~BareArray(z), Free(z), NEW text, Kept(z, text), Tight(text),
           NEW rule, Sound(rule)
    PROVE  /\ Kept(z, Rewrite(text, rule)) /\ Tight(Rewrite(text, rule))
           /\ Repaired(z, Scan(text).done) /\ Repaired(z, Scan(Rewrite(text, rule)).done)
           /\ Repaired(Scan(text).done, Scan(Rewrite(text, rule)).done)
           /\ \A j \in 2 .. Len(z) - 1 :
                 /\ z[j - 1] = Lexeme(rule.before) /\ z[j + 1] = Colon
                 /\ z[j] = Lexeme(rule.name) \/ z[j] = QuotedName(rule.name)
                 => Scan(Rewrite(text, rule)).done[j] = QuotedName(rule.name)
<1> DEFINE new == Rewrite(text, rule)
           w == Scan(text).done
           x == Scan(new).done
<1>1. /\ text \in Texts /\ ~Zeroed(text) /\ Scan(text).open = <<>>
      /\ new \in Texts /\ w \in Seq(Texts) /\ x \in Seq(Texts)
    BY RewriteType, ScanType DEF Kept, States
<1>2. Kept(z, new)
    BY KeptByRule
<1>3. Repaired(z, w) /\ Repaired(z, x)
    BY <1>2 DEF Kept, Free
<1>4. ~BareArray(w) /\ \A j \in 1 .. Len(w) : ~(Len(w[j]) > 1 /\ Traps(w[j]))
  <2> HIDE DEF w, x, new
  <2> QED BY <1>1, <1>3, RepairedMore DEF Free
<1>5. ~Trapped(Scan(text))
  <2>1. ~Traps(<<>>)
      BY DEF Traps, ToSet
  <2> QED BY <1>1, <1>4, <2>1 DEF Trapped
<1>6. Repaired(w, x)
  <2>1. Follows(Scan(text), Scan(new))
      BY <1>1, FollowsRewrite
  <2> QED BY <1>4, <1>5, <2>1 DEF Follows
<1>7. /\ Tight(new)
      /\ \A j \in 2 .. Len(w) - 1 :
            w[j - 1] = Lexeme(rule.before) /\ w[j] = Lexeme(rule.name) /\ w[j + 1] = Colon
            => x[j] = QuotedName(rule.name)
    BY <1>1, <1>4, <1>5, RuleQuotes
<1> HIDE DEF w, x, new
<1>8. ASSUME NEW j \in 2 .. Len(z) - 1, z[j - 1] = Lexeme(rule.before), z[j + 1] = Colon,
             z[j] = Lexeme(rule.name) \/ z[j] = QuotedName(rule.name)
      PROVE  x[j] = QuotedName(rule.name)
  <2>1. Len(z) \in Nat /\ Len(w) = Len(z) /\ \A i \in 1 .. Len(z) : Fixed(z[i], w[i])
      BY <1>1, <1>3, LenProperties DEF Repaired
  <2>2. \A i \in 1 .. Len(z) : Fixed(w[i], x[i])
      BY <1>6, <2>1 DEF Repaired
  <2>3. j \in 1 .. Len(z) /\ j - 1 \in 1 .. Len(z) /\ j + 1 \in 1 .. Len(z)
      BY <2>1
  <2>4. rule.name \in Names
      BY DEF Sound
  <2>5. Inert(Lexeme(rule.before)) /\ Inert(Colon)
    <3>1. \A t \in Befores : Inert(Lexeme(t))
        BY InertLexemes, Zenon DEF Befores, ObjectOpens, Separator, ArrayOpens
    <3> QED BY <3>1, InertLexemes DEF Sound
  <2>6. w[j - 1] = Lexeme(rule.before) /\ w[j + 1] = Colon
      BY <1>8, <2>1, <2>3, <2>5, FixedInert
  <2>7. Inert(QuotedName(rule.name))
      BY <2>4, NameFacts
  <2>8. w[j] = Lexeme(rule.name) \/ w[j] = QuotedName(rule.name)
    <3>1. CASE z[j] = QuotedName(rule.name)
        BY <2>1, <2>3, <2>7, <3>1, FixedInert
    <3>2. CASE z[j] = Lexeme(rule.name)
      <4>1. \A name : Lexeme(name) = Lexeme(rule.name) => name = rule.name
          BY LexemeFacts
      <4>2. Fixed(z[j], w[j])
          BY <2>1, <2>3
      <4> QED BY <3>2, <4>1, <4>2, Zenon DEF Fixed
    <3> QED BY <1>8, <3>1, <3>2
  <2>9. CASE w[j] = Lexeme(rule.name)
      BY <1>7, <2>1, <2>6, <2>9
  <2>10. CASE w[j] = QuotedName(rule.name)
      BY <2>2, <2>3, <2>7, <2>10, FixedInert
  <2> QED BY <2>8, <2>9, <2>10
<1> QED BY <1>2, <1>3, <1>6, <1>7, <1>8 DEF w, x, new

\* All the rules, one after the other: a name that a rule finds is quoted, and
\* stays so.
LEMMA RulesMend ==
    ASSUME NEW z \in Seq(Texts), ~BareArray(z), Free(z), NEW text, Kept(z, text), Tight(text)
    PROVE  \A r \in 1 .. 6, j \in 2 .. Len(z) - 1 :
              /\ z[j - 1] = Lexeme(Rules[r].before) /\ z[j + 1] = Colon
              /\ z[j] = Lexeme(Rules[r].name) \/ z[j] = QuotedName(Rules[r].name)
              => Scan(NormalizeJSON(text)).done[j] = QuotedName(Rules[r].name)
<1>1. text \in Texts
    BY DEF Kept
<1>2. PICK f \in [0 .. 6 -> Texts] :
            /\ f[0] = text
            /\ \A k \in 1 .. 6 : f[k] = Rewrite(f[k - 1], Rules[k])
            /\ NormalizeJSON(text) = f[6]
    BY <1>1, Normalized
<1> DEFINE x(k) == Scan(f[k]).done
           Good(k) == Kept(z, f[k]) /\ Tight(f[k])
<1>3. ASSUME NEW k \in 1 .. 6, Good(k - 1)
      PROVE  /\ Good(k) /\ Repaired(x(k - 1), x(k)) /\ Repaired(z, x(k - 1))
             /\ \A j \in 2 .. Len(z) - 1 :
                  /\ z[j - 1] = Lexeme(Rules[k].before) /\ z[j + 1] = Colon
                  /\ z[j] = Lexeme(Rules[k].name) \/ z[j] = QuotedName(Rules[k].name)
                  => x(k)[j] = QuotedName(Rules[k].name)
  <2>1. f[k] = Rewrite(f[k - 1], Rules[k]) /\ Sound(Rules[k])
      BY <1>2, SoundRules
  <2> QED BY <1>3, <2>1, RuleMends, SMTT(30)
<1>4. \A k \in 1 .. 6 : Good(k - 1)
  <2>1. Good(0)
      BY <1>2
  <2>2. \A k \in 1 .. 6 : Good(k - 1) => Good(k)
      BY <1>3
  <2> HIDE DEF Good
  <2> QED BY <2>1, <2>2
<1> SUFFICES ASSUME NEW r \in 1 .. 6, NEW j \in 2 .. Len(z) - 1,
                    z[j - 1] = Lexeme(Rules[r].before), z[j + 1] = Colon,
                    z[j] = Lexeme(Rules[r].name) \/ z[j] = QuotedName(Rules[r].name)
             PROVE  x(6)[j] = QuotedName(Rules[r].name)
    BY <1>2
<1>5. x(r)[j] = QuotedName(Rules[r].name)
    BY <1>3, <1>4
<1> DEFINE P(k) == x(k)[j] = QuotedName(Rules[r].name)
<1>6. ASSUME NEW k \in 1 .. 6, P(k - 1) PROVE P(k)
  <2>1. Repaired(x(k - 1), x(k)) /\ Repaired(z, x(k - 1))
      BY <1>3, <1>4
  <2>2. j \in 1 .. Len(x(k - 1))
    <3>1. Len(x(k - 1)) = Len(z) /\ Len(z) \in Nat
        BY <2>1, LenProperties DEF Repaired
    <3> QED BY <3>1
  <2>3. Fixed(x(k - 1)[j], x(k)[j])
      BY <2>1, <2>2 DEF Repaired
  <2>4. Inert(QuotedName(Rules[r].name))
    <3>1. Rules[r].name \in Names
        BY SoundRules DEF Sound
    <3> QED BY <3>1, NameFacts
  <2> QED BY <1>6, <2>3, <2>4, FixedInert
<1>7. P(r) /\ \A k \in 1 .. 6 : P(k - 1) => P(k)
    BY <1>5, <1>6
<1> HIDE DEF P
<1>8. P(6)
    BY <1>7
<1> QED BY <1>8 DEF P

\* A string holds what the rules look for only if its value does.
Untrapped(x) == Len(x) > 1 => ~Traps(x)

\* A string does not if its value does not,
LEMMA StrUntrapped ==
    ASSUME NEW c \in Values, ~Triggers(c)
    PROVE  Untrapped(Str(c))
<1> DEFINE q == <<Quote>>
           a == q \o c
           s == Str(c)
           n == Len(c)
<1>1. c \in Texts /\ q \in Texts /\ Len(q) = 1 /\ q[1] = Quote /\ n \in Nat
  <2>1. c \in Seq(Tokens)
    <3>1. Tokens \ {Quote, Nul} \subseteq Tokens
        OBVIOUS
    <3> QED BY <3>1, SeqMonotonic DEF Values
  <2>2. q \in Texts
      BY AppendOne, SpecialTokens, EmptySeq DEF Texts
  <2> QED BY <2>1, <2>2, LenProperties DEF Texts
<1>2. s = a \o q
    BY DEF Str
<1> HIDE DEF q, s, n
<1>3. a \in Texts /\ Len(a) = n + 1 /\ \A i \in 1 .. n + 1 : a[i] = IF i <= 1 THEN q[i] ELSE c[i - 1]
  <2>1. /\ a \in Texts /\ Len(a) = Len(q) + Len(c)
        /\ \A i \in 1 .. Len(q) + Len(c) : a[i] = IF i <= Len(q) THEN q[i] ELSE c[i - Len(q)]
      BY <1>1, ConcatProperties DEF Texts
  <2>2. Len(q) + Len(c) = n + 1
      BY <1>1 DEF n
  <2> HIDE DEF a
  <2> QED BY <1>1, <2>1, <2>2
<1> HIDE DEF a
<1>4. s \in Texts /\ Len(s) = n + 2 /\ \A i \in 1 .. n + 2 : s[i] = IF i <= n + 1 THEN a[i] ELSE q[i - (n + 1)]
  <2>1. /\ s \in Texts /\ Len(s) = Len(a) + Len(q)
        /\ \A i \in 1 .. Len(a) + Len(q) : s[i] = IF i <= Len(a) THEN a[i] ELSE q[i - Len(a)]
      BY <1>1, <1>2, <1>3, ConcatProperties DEF Texts
  <2>2. Len(a) + Len(q) = n + 2
      BY <1>1, <1>3
  <2> QED BY <1>1, <1>3, <2>1, <2>2
<1>5. \A t \in ToSet(s) : \E i \in 1 .. n + 2 : s[i] = t
  <2>1. DOMAIN s = 1 .. n + 2
      BY <1>4, LenProperties DEF Texts
  <2> QED BY <2>1 DEF ToSet
<1>6. \A i \in 1 .. n + 2 : s[i] = Quote \/ \E k \in 1 .. n : s[i] = c[k]
  <2> SUFFICES ASSUME NEW i \in 1 .. n + 2 PROVE s[i] = Quote \/ \E k \in 1 .. n : s[i] = c[k]
      OBVIOUS
  <2>1. CASE i = 1
      BY <1>1, <1>3, <1>4, <2>1
  <2>2. CASE i = n + 2
      BY <1>1, <1>3, <1>4, <2>2
  <2>3. CASE i # 1 /\ i # n + 2
    <3>1. i - 1 \in 1 .. n /\ s[i] = c[i - 1]
        BY <1>1, <1>3, <1>4, <2>3
    <3> QED BY <3>1
  <2> QED BY <2>1, <2>2, <2>3
<1>7. \A k \in 1 .. n : c[k] \in ToSet(c)
  <2>1. DOMAIN c = 1 .. n
      BY <1>1, LenProperties DEF Texts, n
  <2> QED BY <2>1 DEF ToSet
<1>8. ToSet(s) \subseteq {Quote} \cup ToSet(c)
    BY <1>5, <1>6, <1>7
<1>9. Quote \notin Befores
    BY DEF Befores, Quote
<1>10. Befores \cap ToSet(c) = {}
    BY Zenon DEF Triggers, Befores
<1>11. ToSet(s) \cap Befores = {}
    BY <1>8, <1>9, <1>10
<1> QED BY <1>11 DEF Untrapped, Traps, s

\* ... and no other lexeme of a report does.
LEMMA OthersUntrapped ==
    /\ \A t : Untrapped(Lexeme(t))
    /\ Untrapped(ObjectOpens) /\ Untrapped(ObjectCloses) /\ Untrapped(ArrayOpens)
    /\ Untrapped(ArrayCloses) /\ Untrapped(Colon) /\ Untrapped(Separator)
    /\ \A name \in Names, style \in Styles : Untrapped(Name(name, style))
<1>1. ASSUME NEW t PROVE Untrapped(Lexeme(t))
  <2>1. Len(Lexeme(t)) = 1
      BY LexemeFacts
  <2> QED BY <2>1 DEF Untrapped
<1>2. ASSUME NEW name \in Names PROVE Untrapped(QuotedName(name))
  <2>1. name \notin Befores /\ Quote \notin Befores
      BY DEF Names, Befores, Quote
  <2>2. ToSet(QuotedName(name)) = {Quote, name}
      BY DEF ToSet, QuotedName
  <2> QED BY <2>1, <2>2, Zenon DEF Traps, Untrapped
<1>3. \A name \in Names, style \in Styles : Untrapped(Name(name, style))
    BY <1>1, <1>2, NameFacts
<1>4. /\ Untrapped(ObjectOpens) /\ Untrapped(ObjectCloses) /\ Untrapped(ArrayOpens)
      /\ Untrapped(ArrayCloses) /\ Untrapped(Colon) /\ Untrapped(Separator)
    BY <1>1, Zenon DEF ObjectOpens, ObjectCloses, ArrayOpens, ArrayCloses, Colon, Separator
<1> QED BY <1>1, <1>3, <1>4

\* So no lexeme of an entry does,
LEMMA EntryFree ==
    ASSUME NEW w, NEW o \in Int, NEW entry \in [k : Numbers, v : Values], NEW style \in Styles,
           EntryAt(w, o, entry, style), ~Triggers(entry.v), NEW d \in 1 .. 9
    PROVE  Untrapped(w[o + d])
<1>1. "k" \in Names /\ "v" \in Names
    BY DEF Names
<1>2. Untrapped(Str(entry.v))
  <2>1. PICK v \in Values : v = entry.v
      OBVIOUS
  <2> QED BY <2>1, StrUntrapped
<1>3. /\ w[o + 1] = ObjectOpens /\ w[o + 9] = ObjectCloses
      /\ w[o + 3] = Colon /\ w[o + 5] = Separator /\ w[o + 7] = Colon
    BY DEF EntryAt
<1>4. \/ /\ w[o + 2] = Name("k", style) /\ w[o + 4] = Lexeme(entry.k)
         /\ w[o + 6] = Name("v", style) /\ w[o + 8] = Str(entry.v)
      \/ /\ w[o + 2] = Name("v", style) /\ w[o + 4] = Str(entry.v)
         /\ w[o + 6] = Name("k", style) /\ w[o + 8] = Lexeme(entry.k)
  <2>1. style.swap = FALSE \/ style.swap = TRUE
      BY DEF Styles
  <2> QED BY <2>1 DEF EntryAt
<1>5. /\ Untrapped(ObjectOpens) /\ Untrapped(ObjectCloses) /\ Untrapped(Colon) /\ Untrapped(Separator)
      /\ Untrapped(Name("k", style)) /\ Untrapped(Name("v", style)) /\ Untrapped(Lexeme(entry.k))
    BY <1>1, OthersUntrapped
<1>6. /\ Untrapped(w[o + 1]) /\ Untrapped(w[o + 2]) /\ Untrapped(w[o + 3]) /\ Untrapped(w[o + 4])
      /\ Untrapped(w[o + 5]) /\ Untrapped(w[o + 6]) /\ Untrapped(w[o + 7]) /\ Untrapped(w[o + 8])
      /\ Untrapped(w[o + 9])
    BY <1>2, <1>3, <1>4, <1>5, ZenonT(20)
<1>7. d = 1 \/ d = 2 \/ d = 3 \/ d = 4 \/ d = 5 \/ d = 6 \/ d = 7 \/ d = 8 \/ d = 9
    OBVIOUS
<1> QED BY <1>6, <1>7, Zenon

\* ... of a list of entries,
LEMMA EntriesFree ==
    ASSUME NEW w, NEW o \in Int, NEW entries \in EntryLists, NEW style \in Styles,
           EntriesAt(w, o, entries, style), \A i \in DOMAIN entries : ~Triggers(entries[i].v),
           NEW j \in 1 .. Span(Len(entries))
    PROVE  Untrapped(w[o + j])
<1> DEFINE n == Len(entries)
<1>1. n \in Nat /\ \A i \in 1 .. n : entries[i] \in [k : Numbers, v : Values] /\ ~Triggers(entries[i].v)
    BY ElementOfSeq, LenProperties DEF EntryLists
<1>2. /\ w[o + 1] = ArrayOpens /\ w[o + Span(n)] = ArrayCloses
      /\ \A i \in 2 .. n : w[o + 10 * i - 9] = Separator
      /\ \A i \in 1 .. n : EntryAt(w, o + 10 * i - 9, entries[i], style)
    BY DEF EntriesAt
<1>3. j \in 1 .. Span(n)
    OBVIOUS
<1> HIDE DEF n
<1>4. Untrapped(ArrayOpens) /\ Untrapped(ArrayCloses) /\ Untrapped(Separator)
    BY OthersUntrapped
<1>5. CASE j = 1 \/ j = Span(n)
    BY <1>2, <1>4, <1>5
<1>6. CASE \E i \in 2 .. n : j = 10 * i - 9
  <2>1. PICK i \in 2 .. n : j = 10 * i - 9
      BY <1>6
  <2>2. o + j = o + 10 * i - 9
      BY <1>1, <2>1
  <2> QED BY <1>2, <1>4, <2>2
<1>7. CASE \E i \in 1 .. n, d \in 1 .. 9 : j = 10 * i - 9 + d
  <2>1. PICK i \in 1 .. n, d \in 1 .. 9 : j = 10 * i - 9 + d
      BY <1>7
  <2>2. PICK p \in Int : p = o + 10 * i - 9
      BY <1>1
  <2>3. p + d = o + j
      BY <1>1, <2>1, <2>2
  <2>4. EntryAt(w, p, entries[i], style) /\ entries[i] \in [k : Numbers, v : Values] /\ ~Triggers(entries[i].v)
      BY <1>1, <1>2, <2>2
  <2>5. Untrapped(w[p + d])
      BY <2>4, EntryFree
  <2> QED BY <2>3, <2>5
<1> QED BY <1>1, <1>3, <1>5, <1>6, <1>7, Position

\* ... of a report, if no value holds what the rules look for.
LEMMA ReportFree ==
    ASSUME NEW w, NEW report \in [version : Values, ek : EntryLists], NEW style \in Styles,
           ReportIs(w, report, style), ~Triggers(report.version),
           \A i \in DOMAIN report.ek : ~Triggers(report.ek[i].v)
    PROVE  Free(w)
<1> DEFINE N == Span(Len(report.ek))
<1>1. N \in Nat /\ N >= 2
    BY LenProperties, SpanOf DEF EntryLists
<1>2. PICK ek \in EntryLists : ek = report.ek
    OBVIOUS
<1>3. PICK c \in Values : c = report.version
    OBVIOUS
<1>4. /\ Untrapped(ObjectOpens) /\ Untrapped(ObjectCloses) /\ Untrapped(Colon) /\ Untrapped(Separator)
      /\ Untrapped(Name("version", style)) /\ Untrapped(Name("ek", style))
  <2>1. "version" \in Names /\ "ek" \in Names
      BY DEF Names
  <2> QED BY <2>1, OthersUntrapped
<1>5. Untrapped(Str(c))
    BY <1>3, StrUntrapped
<1>6. ASSUME NEW o \in Int, EntriesAt(w, o, ek, style), NEW j \in o + 1 .. o + N
      PROVE  Untrapped(w[j])
  <2>1. PICK d \in 1 .. N : j = o + d
    <3>1. j - o \in 1 .. N /\ j = o + (j - o)
        BY <1>1
    <3> QED BY <3>1
  <2>2. Untrapped(w[o + d])
      BY <1>2, <1>6, EntriesFree
  <2> QED BY <2>1, <2>2
<1> SUFFICES ASSUME NEW j \in 1 .. Len(w) PROVE Untrapped(w[j])
    BY DEF Free, Untrapped
<1>7. CASE style.swap = FALSE
  <2>1. /\ Len(w) = N + 8 /\ w[1] = ObjectOpens /\ w[3] = Colon /\ w[N + 8] = ObjectCloses
        /\ w[2] = Name("version", style) /\ w[4] = Str(c)
        /\ w[5] = Separator /\ w[6] = Name("ek", style) /\ w[7] = Colon
        /\ EntriesAt(w, 7, ek, style)
      BY <1>2, <1>3, <1>7 DEF ReportIs
  <2>2. \A i \in 8 .. 7 + N : Untrapped(w[i])
      BY <1>6, <2>1
  <2>3. /\ Untrapped(w[1]) /\ Untrapped(w[2]) /\ Untrapped(w[3]) /\ Untrapped(w[4]) /\ Untrapped(w[5])
        /\ Untrapped(w[6]) /\ Untrapped(w[7]) /\ Untrapped(w[N + 8])
      BY <1>4, <1>5, <2>1, ZenonT(20)
  <2> HIDE DEF N
  <2>4. j \in 8 .. 7 + N \/ j = 1 \/ j = 2 \/ j = 3 \/ j = 4 \/ j = 5 \/ j = 6 \/ j = 7 \/ j = N + 8
      BY <1>1, <2>1
  <2> QED BY <2>2, <2>3, <2>4, Zenon
<1>8. CASE style.swap = TRUE
  <2>1. /\ Len(w) = N + 8 /\ w[1] = ObjectOpens /\ w[3] = Colon /\ w[N + 8] = ObjectCloses
        /\ w[2] = Name("ek", style) /\ EntriesAt(w, 3, ek, style)
        /\ w[N + 4] = Separator /\ w[N + 5] = Name("version", style)
        /\ w[N + 6] = Colon /\ w[N + 7] = Str(c)
      BY <1>2, <1>3, <1>8 DEF ReportIs
  <2>2. \A i \in 4 .. 3 + N : Untrapped(w[i])
      BY <1>6, <2>1
  <2>3. /\ Untrapped(w[1]) /\ Untrapped(w[2]) /\ Untrapped(w[3]) /\ Untrapped(w[N + 4]) /\ Untrapped(w[N + 5])
        /\ Untrapped(w[N + 6]) /\ Untrapped(w[N + 7]) /\ Untrapped(w[N + 8])
      BY <1>4, <1>5, <2>1, ZenonT(20)
  <2> HIDE DEF N
  <2>4. j \in 4 .. 3 + N \/ j = 1 \/ j = 2 \/ j = 3 \/ j = N + 4 \/ j = N + 5 \/ j = N + 6 \/ j = N + 7 \/ j = N + 8
      BY <1>1, <2>1
  <2> QED BY <2>2, <2>3, <2>4, Zenon
<1> QED BY <1>7, <1>8 DEF Styles

\* In the lexemes w, the names that z has after before are quoted.
Mends(z, w, before, name, style) ==
    \A j \in 2 .. Len(z) - 1 :
        z[j - 1] = before /\ z[j] = Name(name, style) /\ z[j + 1] = Colon => w[j] = QuotedName(name)

\* Where four of the rules look.
LEMMA RulesFind ==
    /\ Lexeme(Rules[1].before) = ObjectOpens /\ Rules[1].name = "k"
    /\ Lexeme(Rules[2].before) = Separator /\ Rules[2].name = "v"
    /\ Lexeme(Rules[4].before) = ObjectOpens /\ Rules[4].name = "version"
    /\ Lexeme(Rules[6].before) = Separator /\ Rules[6].name = "ek"
<1>1. /\ Rules[1] = Rule("{", "k", <<>>) /\ Rules[2] = Rule(",", "v", <<>>)
      /\ Rules[4] = Rule("{", "version", <<>>) /\ Rules[6] = Rule(",", "ek", <<>>)
    BY DEF Rules
<1>2. \A before, name : Rule(before, name, <<>>).before = before /\ Rule(before, name, <<>>).name = name
    BY DEF Rule
<1>3. /\ Rules[1].before = "{" /\ Rules[1].name = "k" /\ Rules[2].before = "," /\ Rules[2].name = "v"
      /\ Rules[4].before = "{" /\ Rules[4].name = "version"
      /\ Rules[6].before = "," /\ Rules[6].name = "ek"
    BY DEF Rules, Rule
<1> QED BY <1>3, Zenon DEF ObjectOpens, Separator

\* An entry whose names are quoted is one in valid JSON.
LEMMA EntryMended ==
    ASSUME NEW z, NEW w, NEW p \in Int, NEW entry \in [k : Numbers, v : Values],
           NEW style \in Styles, style.swap = FALSE, EntryAt(z, p, entry, style),
           \A d \in 1 .. 9 : Fixed(z[p + d], w[p + d]),
           w[p + 2] = QuotedName("k"), w[p + 6] = QuotedName("v")
    PROVE  EntryAt(w, p, entry, Mended(style))
<1> DEFINE m == Mended(style)
<1>1. "k" \in Names /\ "v" \in Names /\ m \in Styles /\ m.bare = {} /\ m.swap = FALSE
    BY MendedStyle DEF Names
<1> HIDE DEF m
<1>2. Name("k", m) = QuotedName("k") /\ Name("v", m) = QuotedName("v")
    BY <1>1, NameFacts
<1>3. /\ z[p + 1] = ObjectOpens /\ z[p + 9] = ObjectCloses
      /\ z[p + 3] = Colon /\ z[p + 5] = Separator /\ z[p + 7] = Colon
      /\ z[p + 4] = Lexeme(entry.k) /\ z[p + 8] = Str(entry.v)
    BY DEF EntryAt
<1>4. /\ Inert(ObjectOpens) /\ Inert(ObjectCloses) /\ Inert(Colon) /\ Inert(Separator)
      /\ Inert(Lexeme(entry.k)) /\ Inert(Str(entry.v))
    BY InertLexemes
<1>5. \A d \in 1 .. 9 : Inert(z[p + d]) => w[p + d] = z[p + d]
    BY FixedInert
<1>6. /\ w[p + 1] = z[p + 1] /\ w[p + 3] = z[p + 3] /\ w[p + 4] = z[p + 4] /\ w[p + 5] = z[p + 5]
      /\ w[p + 7] = z[p + 7] /\ w[p + 8] = z[p + 8] /\ w[p + 9] = z[p + 9]
  <2>1. 1 \in 1 .. 9 /\ 3 \in 1 .. 9 /\ 4 \in 1 .. 9 /\ 5 \in 1 .. 9 /\ 7 \in 1 .. 9 /\ 8 \in 1 .. 9 /\ 9 \in 1 .. 9
      OBVIOUS
  <2>2. /\ Inert(z[p + 1]) /\ Inert(z[p + 3]) /\ Inert(z[p + 4]) /\ Inert(z[p + 5])
        /\ Inert(z[p + 7]) /\ Inert(z[p + 8]) /\ Inert(z[p + 9])
      BY <1>3, <1>4, Zenon
  <2> QED BY <1>5, <2>1, <2>2
<1>7. m.swap # TRUE
    BY <1>1
<1> QED BY <1>1, <1>2, <1>3, <1>6, <1>7, Zenon DEF EntryAt, m

\* ... and so is a list of entries.
LEMMA EntriesMended ==
    ASSUME NEW z \in Seq(Texts), NEW w, NEW o \in Nat, NEW entries \in EntryLists,
           NEW style \in Styles, style.swap = FALSE, EntriesAt(z, o, entries, style),
           o + Span(Len(entries)) <= Len(z), Repaired(z, w),
           Mends(z, w, ObjectOpens, "k", style), Mends(z, w, Separator, "v", style)
    PROVE  EntriesAt(w, o, entries, Mended(style))
<1> DEFINE n == Len(entries)
           N == Len(z)
<1>1. /\ n \in Nat /\ N \in Nat /\ Span(n) \in Nat /\ Span(n) >= 2 /\ o + Span(n) <= N
      /\ \A i \in 1 .. n : entries[i] \in [k : Numbers, v : Values] /\ 10 * i + 1 <= Span(n)
    BY ElementOfSeq, LenProperties, SpanOf DEF EntryLists
<1>2. /\ z[o + 1] = ArrayOpens /\ z[o + Span(n)] = ArrayCloses
      /\ \A i \in 2 .. n : z[o + 10 * i - 9] = Separator
      /\ \A i \in 1 .. n : EntryAt(z, o + 10 * i - 9, entries[i], style)
    BY DEF EntriesAt
<1>3. \A j \in 1 .. N : Fixed(z[j], w[j])
    BY DEF Repaired
<1>4. /\ \A j \in 2 .. N - 1 : z[j - 1] = ObjectOpens /\ z[j] = Name("k", style) /\ z[j + 1] = Colon
                               => w[j] = QuotedName("k")
      /\ \A j \in 2 .. N - 1 : z[j - 1] = Separator /\ z[j] = Name("v", style) /\ z[j + 1] = Colon
                               => w[j] = QuotedName("v")
    BY DEF Mends
<1> HIDE DEF n, N
<1>5. Inert(ArrayOpens) /\ Inert(ArrayCloses) /\ Inert(Separator)
    BY InertLexemes
<1>6. \A j \in 1 .. N : Inert(z[j]) => w[j] = z[j]
    BY <1>3, FixedInert
<1>7. w[o + 1] = ArrayOpens /\ w[o + Span(n)] = ArrayCloses
  <2>1. o + 1 \in 1 .. N /\ o + Span(n) \in 1 .. N
      BY <1>1
  <2> QED BY <1>2, <1>5, <1>6, <2>1
<1>8. ASSUME NEW i \in 2 .. n PROVE w[o + 10 * i - 9] = Separator
  <2>1. o + 10 * i - 9 \in 1 .. N
    <3>1. i \in 1 .. n
        BY <1>1
    <3>2. 10 * i + 1 <= Span(n)
        BY <1>1, <3>1
    <3> QED BY <1>1, <3>2
  <2> QED BY <1>2, <1>5, <1>6, <2>1
<1>9. ASSUME NEW i \in 1 .. n PROVE EntryAt(w, o + 10 * i - 9, entries[i], Mended(style))
  <2>1. 10 * i + 1 <= Span(n) /\ i \in Nat /\ i >= 1
      BY <1>1
  <2>2. PICK p \in Nat : p = o + 10 * i - 9
    <3>1. o + 10 * i - 9 \in Nat
        BY <1>1, <2>1
    <3> QED BY <3>1
  <2>3. p + 9 <= N - 1 /\ p >= 1
      BY <1>1, <2>1, <2>2
  <2>4. EntryAt(z, p, entries[i], style) /\ entries[i] \in [k : Numbers, v : Values]
      BY <1>1, <1>2, <2>2
  <2>5. \A d \in 1 .. 9 : Fixed(z[p + d], w[p + d])
    <3>1. \A d \in 1 .. 9 : p + d \in 1 .. N
        BY <1>1, <2>3
    <3> QED BY <1>3, <3>1
  <2>6. /\ z[p + 1] = ObjectOpens /\ z[p + 2] = Name("k", style) /\ z[p + 3] = Colon
        /\ z[p + 5] = Separator /\ z[p + 6] = Name("v", style) /\ z[p + 7] = Colon
      BY <2>4 DEF EntryAt
  <2>7. /\ p + 2 \in 2 .. N - 1 /\ (p + 2) - 1 = p + 1 /\ (p + 2) + 1 = p + 3
        /\ p + 6 \in 2 .. N - 1 /\ (p + 6) - 1 = p + 5 /\ (p + 6) + 1 = p + 7
      BY <1>1, <2>3
  <2>8. w[p + 2] = QuotedName("k") /\ w[p + 6] = QuotedName("v")
      BY <1>4, <2>6, <2>7
  <2>9. EntryAt(w, p, entries[i], Mended(style))
    <3>1. p \in Int
        OBVIOUS
    <3> QED BY <2>4, <2>5, <2>8, <3>1, EntryMended
  <2> QED BY <2>2, <2>9, Zenon
<1> QED BY <1>7, <1>8, <1>9 DEF EntriesAt, n

\* Entries in a style, read in one that writes them in the same way.
LEMMA EntriesAlike ==
    ASSUME NEW w, NEW o, NEW entries, NEW a \in Styles, NEW b \in Styles,
           EntriesAt(w, o, entries, a), AlikeInEntries(a, b)
    PROVE  EntriesAt(w, o, entries, b)
<1>1. \A p, entry : EntryAt(w, p, entry, a) => EntryAt(w, p, entry, b)
  <2> SUFFICES ASSUME NEW p, NEW entry, EntryAt(w, p, entry, a) PROVE EntryAt(w, p, entry, b)
      OBVIOUS
  <2>1. a.swap = b.swap /\ Name("k", a) = Name("k", b) /\ Name("v", a) = Name("v", b)
      BY DEF AlikeInEntries
  <2> QED BY <2>1, Zenon DEF EntryAt
<1> QED BY <1>1, Zenon DEF EntriesAt

\* What the repair makes of a report whose names may have no quotes.
LEMMA ReportMended ==
    ASSUME NEW style \in Styles, style.bare # {} => ~style.swap /\ ~style.spaced,
           NEW report \in [version : Values, ek : EntryLists], ~Triggers(report.version),
           \A i \in DOMAIN report.ek : ~Triggers(report.ek[i].v),
           NEW text, text = NormalizeJSON(Report(report, style))
    PROVE  /\ text \in Texts /\ Scan(text).open = <<>>
           /\ ReportIs(Scan(text).done, report, Mended(style))
<1> DEFINE sent == Report(report, style)
           m == Mended(style)
           w == Scan(text).done
           N == Span(Len(report.ek))
<1>1. PICK z \in Seq(Texts) : /\ Closed(sent, z) /\ ReportIs(z, report, style)
                              /\ ~BareArray(z) /\ Kept(z, sent) /\ Kept(z, text)
    BY ReportNormalized
<1> HIDE DEF sent
<1>2. text \in Texts /\ Scan(text).open = <<>> /\ w \in Seq(Texts)
    BY <1>1, ScanType DEF Kept, States
<1>3. Free(z)
    BY <1>1, ReportFree
<1>4. Repaired(z, w)
    BY <1>1, <1>3 DEF Kept, Free
<1> HIDE DEF w
<1>5. m \in Styles /\ m.bare = {} /\ m.swap = style.swap
    BY MendedStyle
<1> HIDE DEF m
<1>6. \A name \in Names : Name(name, m) = QuotedName(name)
    BY <1>5, NameFacts
<1>7. "k" \in Names /\ "v" \in Names /\ "version" \in Names /\ "ek" \in Names
    BY DEF Names
<1>8. /\ N \in Nat /\ N >= 2 /\ Len(z) = N + 8 /\ Len(w) = N + 8
      /\ z[1] = ObjectOpens /\ z[3] = Colon /\ z[N + 8] = ObjectCloses
  <2>1. N \in Nat /\ N >= 2
      BY LenProperties, SpanOf DEF EntryLists
  <2> QED BY <1>1, <1>4, <2>1 DEF ReportIs, Repaired
<1>9. \A j \in 1 .. N + 8 : Inert(z[j]) => w[j] = z[j]
    BY <1>4, <1>8, FixedInert DEF Repaired
<1>10. CASE style.bare = {}
  <2>1. \A j \in 1 .. N + 8 : Inert(z[j])
      BY <1>1, <1>8, <1>10, ReportInPlace DEF InPlace, Inert
  <2>2. w = z
      BY <1>2, <1>8, <1>9, <2>1, SeqEqual
  <2>3. \A name \in Names : Name(name, style) = Name(name, m)
      BY <1>6, <1>10, NameFacts
  <2>4. AlikeInEntries(style, m)
      BY <1>5, <1>7, <2>3 DEF AlikeInEntries
  <2>5. \A o : EntriesAt(z, o, report.ek, style) => EntriesAt(z, o, report.ek, m)
      BY <1>5, <2>4, EntriesAlike
  <2>6. Name("version", style) = Name("version", m) /\ Name("ek", style) = Name("ek", m)
      BY <1>7, <2>3
  <2>7. ReportIs(z, report, m)
      BY <1>1, <1>5, <2>5, <2>6, Zenon DEF ReportIs
  <2> QED BY <1>2, <2>2, <2>7 DEF m, w
<1>11. CASE style.bare # {}
  <2>1. style.swap = FALSE /\ style.spaced = FALSE
      BY <1>11 DEF Styles
  <2>2. Tight(sent)
      BY <2>1, TightReport DEF sent
  <2>3. \A r \in 1 .. 6, j \in 2 .. Len(z) - 1 :
              /\ z[j - 1] = Lexeme(Rules[r].before) /\ z[j + 1] = Colon
              /\ z[j] = Lexeme(Rules[r].name) \/ z[j] = QuotedName(Rules[r].name)
              => w[j] = QuotedName(Rules[r].name)
      BY <1>1, <1>3, <2>2, RulesMend DEF sent, w
  <2>4. \A name \in Names : Name(name, style) = Lexeme(name) \/ Name(name, style) = QuotedName(name)
      BY NameFacts
  <2>5. ASSUME NEW r \in 1 .. 6
        PROVE  Mends(z, w, Lexeme(Rules[r].before), Rules[r].name, style)
    <3>1. Rules[r].name \in Names
        BY SoundRules DEF Sound
    <3> QED BY <2>3, <2>4, <3>1 DEF Mends
  <2>6. /\ Mends(z, w, ObjectOpens, "k", style) /\ Mends(z, w, Separator, "v", style)
        /\ Mends(z, w, ObjectOpens, "version", style) /\ Mends(z, w, Separator, "ek", style)
    <3>1. 1 \in 1 .. 6 /\ 2 \in 1 .. 6 /\ 4 \in 1 .. 6 /\ 6 \in 1 .. 6
        OBVIOUS
    <3> QED BY <2>5, <3>1, RulesFind, Zenon
  <2>7. /\ z[2] = Name("version", style) /\ z[4] = Str(report.version)
        /\ z[5] = Separator /\ z[6] = Name("ek", style) /\ z[7] = Colon
        /\ EntriesAt(z, 7, report.ek, style)
      BY <1>1, <2>1 DEF ReportIs
  <2>8. w[2] = QuotedName("version") /\ w[6] = QuotedName("ek")
    <3>1. 2 \in 2 .. Len(z) - 1 /\ 6 \in 2 .. Len(z) - 1 /\ 2 - 1 = 1 /\ 2 + 1 = 3 /\ 6 - 1 = 5 /\ 6 + 1 = 7
        BY <1>8
    <3>2. /\ z[2 - 1] = ObjectOpens /\ z[2 + 1] = Colon /\ z[6 - 1] = Separator /\ z[6 + 1] = Colon
        BY <1>8, <2>7, <3>1
    <3> QED BY <2>6, <2>7, <3>1, <3>2, Zenon DEF Mends
  <2>9. EntriesAt(w, 7, report.ek, m)
    <3>1. PICK ek \in EntryLists : ek = report.ek
        OBVIOUS
    <3>2. 7 \in Nat /\ 7 + Span(Len(ek)) <= Len(z)
        BY <1>8, <3>1
    <3>3. EntriesAt(z, 7, ek, style)
        BY <2>7, <3>1
    <3>4. EntriesAt(w, 7, ek, Mended(style))
        BY <1>4, <2>1, <2>6, <3>2, <3>3, EntriesMended
    <3> QED BY <3>1, <3>4 DEF m
  <2>10. /\ w[1] = ObjectOpens /\ w[3] = Colon /\ w[4] = Str(report.version) /\ w[5] = Separator
         /\ w[7] = Colon /\ w[N + 8] = ObjectCloses
    <3>1. /\ Inert(ObjectOpens) /\ Inert(ObjectCloses) /\ Inert(Colon) /\ Inert(Separator)
          /\ Inert(Str(report.version))
        BY InertLexemes
    <3>2. 1 \in 1 .. N + 8 /\ 3 \in 1 .. N + 8 /\ 4 \in 1 .. N + 8 /\ 5 \in 1 .. N + 8 /\ 7 \in 1 .. N + 8
          /\ N + 8 \in 1 .. N + 8
        BY <1>8
    <3> QED BY <1>8, <1>9, <2>7, <3>1, <3>2, Zenon
  <2>11. m.swap = FALSE /\ m.swap # TRUE
      BY <1>5, <2>1
  <2>12. Name("version", m) = QuotedName("version") /\ Name("ek", m) = QuotedName("ek")
      BY <1>6, <1>7
  <2>13. ReportIs(w, report, m)
      BY <1>8, <2>7, <2>8, <2>9, <2>10, <2>11, <2>12, Zenon DEF ReportIs
  <2> QED BY <1>2, <2>13 DEF m, w
<1> QED BY <1>10, <1>11

\* Lexemes that are a report in one style are one list.
LEMMA ReportSame ==
    ASSUME NEW w \in Seq(Texts), NEW x \in Seq(Texts), NEW report \in [version : Values, ek : EntryLists],
           NEW style \in Styles, ReportIs(w, report, style), ReportIs(x, report, style)
    PROVE  x = w
<1> DEFINE N == Span(Len(report.ek))
<1>1. N \in Nat /\ N >= 2
    BY LenProperties, SpanOf DEF EntryLists
<1>2. PICK ek \in EntryLists : ek = report.ek
    OBVIOUS
<1>3. ASSUME NEW o \in Int, EntriesAt(w, o, ek, style), EntriesAt(x, o, ek, style), NEW j \in o + 1 .. o + N
      PROVE  w[j] = x[j]
  <2>1. PICK d \in 1 .. N : j = o + d
    <3>1. j - o \in 1 .. N /\ j = o + (j - o)
        BY <1>1
    <3> QED BY <3>1
  <2>2. AlikeInEntries(style, style)
      BY DEF AlikeInEntries
  <2>3. d \in 1 .. Span(Len(ek))
      BY <1>2
  <2>4. w[o + d] = x[o + d]
      BY <1>3, <2>2, <2>3, EntriesSame
  <2> QED BY <2>1, <2>4
<1>4. Len(w) = N + 8 /\ Len(x) = N + 8
    BY DEF ReportIs
<1>5. ASSUME NEW j \in 1 .. N + 8 PROVE w[j] = x[j]
  <2>1. CASE style.swap = FALSE
    <3>1. /\ w[1] = x[1] /\ w[2] = x[2] /\ w[3] = x[3] /\ w[4] = x[4] /\ w[5] = x[5] /\ w[6] = x[6]
          /\ w[7] = x[7] /\ w[N + 8] = x[N + 8]
          /\ EntriesAt(w, 7, ek, style) /\ EntriesAt(x, 7, ek, style)
        BY <1>2, <2>1 DEF ReportIs
    <3>2. \A i \in 8 .. 7 + N : w[i] = x[i]
        BY <1>3, <3>1
    <3> HIDE DEF N
    <3>3. j \in 8 .. 7 + N \/ j = 1 \/ j = 2 \/ j = 3 \/ j = 4 \/ j = 5 \/ j = 6 \/ j = 7 \/ j = N + 8
        BY <1>1
    <3> QED BY <3>1, <3>2, <3>3, Zenon
  <2>2. CASE style.swap = TRUE
    <3>1. /\ w[1] = x[1] /\ w[2] = x[2] /\ w[3] = x[3] /\ w[N + 4] = x[N + 4] /\ w[N + 5] = x[N + 5]
          /\ w[N + 6] = x[N + 6] /\ w[N + 7] = x[N + 7] /\ w[N + 8] = x[N + 8]
          /\ EntriesAt(w, 3, ek, style) /\ EntriesAt(x, 3, ek, style)
        BY <1>2, <2>2 DEF ReportIs
    <3>2. \A i \in 4 .. 3 + N : w[i] = x[i]
        BY <1>3, <3>1
    <3> HIDE DEF N
    <3>3. j \in 4 .. 3 + N \/ j = 1 \/ j = 2 \/ j = 3 \/ j = N + 4 \/ j = N + 5 \/ j = N + 6 \/ j = N + 7 \/ j = N + 8
        BY <1>1
    <3> QED BY <3>1, <3>2, <3>3, Zenon
  <2> QED BY <2>1, <2>2 DEF Styles
<1> QED BY <1>1, <1>4, <1>5, SeqEqual

\* A value after a colon is held.
LEMMA VersionHeld ==
    ASSUME NEW w \in Seq(Texts), NEW v \in Values, NEW p \in 2 .. Len(w), w[p - 1] = Colon, w[p] = Str(v)
    PROVE  v \in Contents(w)
<1>1. DOMAIN w = 1 .. Len(w) /\ Len(w) \in Nat
    BY LenProperties
<1>2. Len(Str(v)) = Len(v) + 2 /\ Len(v) \in Nat /\ SubSeq(Str(v), 2, Len(Str(v)) - 1) = v
    BY StrFacts
<1>3. PICK j \in DOMAIN w \ {1} : w[j - 1] = Colon /\ w[j] = Str(v)
    BY <1>1
<1>4. Len(w[j]) > 1 /\ SubSeq(w[j], 2, Len(w[j]) - 1) = v /\ w[j - 1] = <<":">>
    BY <1>2, <1>3 DEF Colon, Lexeme
<1> QED BY <1>3, <1>4, Zenon DEF Contents

\* What a report holds, with the open string after it, which is empty.
LEMMA ReportHeld ==
    ASSUME NEW w \in Seq(Texts), NEW report \in [version : Values, ek : EntryLists],
           NEW style \in Styles, ReportIs(w, report, style)
    PROVE  LET all == Append(w, <<>>)
           IN  /\ report.version \in Contents(all)
               /\ report.ek \in EntriesIn(all, Len(report.ek))
               /\ Objects(all) = Len(report.ek) + 1
<1> DEFINE n == Len(report.ek)
           N == Span(n)
           all == Append(w, <<>>)
<1>1. n \in Nat /\ N \in Nat /\ N >= 2 /\ \A i \in 1 .. n : 10 * i + 1 <= N
    BY LenProperties, SpanOf DEF EntryLists
<1>2. PICK ek \in EntryLists : ek = report.ek
    OBVIOUS
<1>3. PICK c \in Values : c = report.version
    OBVIOUS
<1>4. Len(w) = N + 8
    BY DEF ReportIs
<1>5. /\ all \in Seq(Texts) /\ Len(all) = N + 9 /\ all[N + 9] = <<>>
      /\ \A j \in 1 .. N + 8 : all[j] = w[j]
  <2>1. <<>> \in Texts
      BY EmptySeq DEF Texts
  <2>2. (N + 8) + 1 = N + 9
      BY <1>1
  <2> QED BY <1>4, <2>1, <2>2, AppendProperties
<1> HIDE DEF all
<1>6. \E p \in 2 .. N + 8, o \in {3, 7} : /\ w[p - 1] = Colon /\ w[p] = Str(c)
                                          /\ EntriesAt(w, o, ek, style)
  <2>1. CASE style.swap = FALSE
    <3>1. w[3] = Colon /\ w[4] = Str(c) /\ EntriesAt(w, 7, ek, style)
        BY <1>2, <1>3, <2>1 DEF ReportIs
    <3>2. 4 \in 2 .. N + 8 /\ 4 - 1 = 3
        BY <1>1
    <3> QED BY <3>1, <3>2
  <2>2. CASE style.swap = TRUE
    <3>1. w[N + 6] = Colon /\ w[N + 7] = Str(c) /\ EntriesAt(w, 3, ek, style)
        BY <1>2, <1>3, <2>2 DEF ReportIs
    <3>2. N + 7 \in 2 .. N + 8 /\ (N + 7) - 1 = N + 6
        BY <1>1
    <3> HIDE DEF N
    <3> QED BY <3>1, <3>2
  <2> QED BY <2>1, <2>2 DEF Styles
<1>7. PICK p \in 2 .. N + 8, o \in {3, 7} : /\ w[p - 1] = Colon /\ w[p] = Str(c)
                                            /\ EntriesAt(w, o, ek, style)
    BY <1>6
<1> HIDE DEF N
<1>8. c \in Contents(all)
  <2>1. p \in 2 .. Len(all) /\ p \in 1 .. N + 8 /\ p - 1 \in 1 .. N + 8
      BY <1>1, <1>5
  <2>2. all[p - 1] = Colon /\ all[p] = Str(c)
      BY <1>5, <1>7, <2>1
  <2> QED BY <1>5, <2>1, <2>2, VersionHeld
<1>9. ek \in EntriesIn(all, Len(ek))
  <2>1. N = Span(Len(ek)) /\ o \in Nat /\ o + N <= N + 8
      BY <1>1, <1>2 DEF N
  <2>2. \A j \in 1 .. Span(Len(ek)) : all[o + j] = w[o + j]
    <3>1. \A j \in 1 .. N : o + j \in 1 .. N + 8
        BY <1>1, <2>1
    <3> QED BY <1>5, <2>1, <3>1
  <2>3. EntriesAt(all, o, ek, style)
    <3>1. EntriesAt(w, o, ek, style) /\ o \in Int
        BY <1>7
    <3> QED BY <2>2, <3>1, EntriesMoved
  <2>4. o + Span(Len(ek)) <= Len(all)
      BY <1>1, <1>5, <2>1, SMTT(30)
  <2> QED BY <1>5, <2>1, <2>3, <2>4, EntriesHeld
<1>10. Objects(all) = n + 1
  <2> DEFINE S == {i \in DOMAIN all : all[i] = <<"{">>}
             T == S \ {1}
  <2>1. \A j : j \in S <=> j \in 1 .. N + 9 /\ all[j] = ObjectOpens
      BY <1>5, LenProperties DEF ObjectOpens, Lexeme
  <2>2. Objects(all) = Cardinality(S)
      BY DEF Objects
  <2> HIDE DEF S
  <2>3. ObjectOpens # <<>>
      BY DEF ObjectOpens, Lexeme
  <2>4. PICK q \in {3, 7} : \A j \in 1 .. Len(w) :
                w[j] = ObjectOpens <=> j = 1 \/ \E i \in 1 .. Len(report.ek) : j = q + 10 * i - 8
      BY ReportInPlace
  <2>5. \A j \in 1 .. N + 8 : w[j] = ObjectOpens <=> j = 1 \/ \E i \in 1 .. n : j = (q - 8) + 10 * i
    <3> SUFFICES ASSUME NEW j \in 1 .. N + 8
                 PROVE  w[j] = ObjectOpens <=> j = 1 \/ \E i \in 1 .. n : j = (q - 8) + 10 * i
        OBVIOUS
    <3>1. w[j] = ObjectOpens <=> j = 1 \/ \E i \in 1 .. n : j = q + 10 * i - 8
        BY <1>4, <2>4
    <3>2. \A i \in 1 .. n : q + 10 * i - 8 = (q - 8) + 10 * i
        BY <1>1
    <3> QED BY <3>1, <3>2
  <2>6. 1 \in S
    <3>1. 1 \in 1 .. N + 8 /\ 1 \in 1 .. N + 9
        BY <1>1
    <3>2. w[1] = ObjectOpens
        BY <2>5, <3>1
    <3> QED BY <1>5, <2>1, <3>1, <3>2
  <2> HIDE DEF n
  <2>7. ASSUME NEW j PROVE j \in T <=> j \in Int /\ \E i \in 1 .. n : j = (q - 8) + 10 * i
    <3>1. ASSUME j \in 1 .. N + 8
          PROVE  j \in T <=> j \in Int /\ \E i \in 1 .. n : j = (q - 8) + 10 * i
      <4>1. all[j] = w[j] /\ j \in 1 .. N + 9
          BY <1>1, <1>5, <3>1
      <4>2. \A i \in 1 .. n : (q - 8) + 10 * i # 1
          BY <1>1
      <4>3. w[j] = ObjectOpens <=> j = 1 \/ \E i \in 1 .. n : j = (q - 8) + 10 * i
          BY <2>5, <3>1
      <4> QED BY <2>1, <3>1, <4>1, <4>2, <4>3
    <3>2. ASSUME j \notin 1 .. N + 8 PROVE j \notin T
      <4>1. j \in 1 .. N + 9 => j = N + 9
          BY <1>1, <3>2
      <4> QED BY <1>5, <2>1, <2>3, <4>1
    <3>3. ASSUME j \in Int, NEW i \in 1 .. n, j = (q - 8) + 10 * i PROVE j \in 1 .. N + 8
      <4>1. 10 * i + 1 <= N
          BY <1>1
      <4> QED BY <1>1, <3>3, <4>1
    <3> QED BY <3>1, <3>2, <3>3
  <2>8. q - 8 \in Int
      OBVIOUS
  <2>9. IsFiniteSet(T) /\ Cardinality(T) = n
      BY <1>1, <2>7, <2>8, Counted
  <2>10. S = T \cup {1} /\ 1 \notin T
      BY <2>6
  <2> HIDE DEF T
  <2>11. Cardinality(T \cup {1}) = Cardinality(T) + 1
      BY <2>9, <2>10, FS_AddElement
  <2> QED BY <2>2, <2>9, <2>10, <2>11
<1> QED BY <1>2, <1>3, <1>8, <1>9, <1>10 DEF all, n

\* A report in valid JSON is read.
LEMMA ReportReadable ==
    ASSUME NEW text \in Texts, Scan(text).open = <<>>,
           NEW report \in [version : Values, ek : EntryLists], NEW style \in Styles,
           ReportIs(Scan(text).done, report, Mended(style))
    PROVE  report \in ReadReport(text)
<1> DEFINE m == Mended(style)
           w == Scan(text).done
           all == Lexemes(text)
           n == Len(report.ek)
<1>1. m \in Quoted /\ m \in Styles
    BY MendedStyle
<1> HIDE DEF m
<1>2. w \in Seq(Texts)
    BY ScanType DEF States
<1>3. PICK y : Closed(Report(report, m), y) /\ ReportIs(y, report, m)
    BY <1>1, ClosedReport
<1>4. y = w
    BY <1>1, <1>2, <1>3, ReportSame DEF Closed, m
<1>5. Lexemes(Report(report, m)) = all /\ all = Append(w, <<>>)
    BY <1>3, <1>4, SameLexemes
<1>6. n \in Nat
    BY LenProperties DEF EntryLists
<1>7. ReportIs(w, report, m)
    BY DEF m
<1> HIDE DEF w, all
<1>8. report.version \in Contents(all) /\ report.ek \in EntriesIn(all, n) /\ Objects(all) = n + 1
    BY <1>1, <1>2, <1>5, <1>7, ReportHeld
<1> DEFINE E == EntriesIn(all, Objects(all) - 1)
           C == Contents(all)
<1>9. report.version \in C /\ report.ek \in E
  <2>1. (n + 1) - 1 = n
      BY <1>6
  <2> HIDE DEF n
  <2> QED BY <1>8, <2>1
<1> HIDE DEF E, C
<1>10. report \in [version : C, ek : E]
  <2>1. report = [version |-> report.version, ek |-> report.ek]
      OBVIOUS
  <2>2. [version |-> report.version, ek |-> report.ek] \in [version : C, ek : E]
      BY <1>9
  <2> QED BY <2>1, <2>2, Zenon
<1> QED BY <1>1, <1>5, <1>10, Zenon DEF ReadReport, E, C, all

\* What the devices send is read: names without quotes, no blanks, no value
\* that holds what the repair looks for.
LEMMA LegacyReport ==
    ASSUME NEW style \in Styles, style.bare # {} => ~style.swap /\ ~style.spaced,
           NEW report \in [version : Values, ek : EntryLists], ~Triggers(report.version),
           \A i \in DOMAIN report.ek : ~Triggers(report.ek[i].v)
    PROVE  PostMyStatusBody(Report(report, style)) = {report}
<1> DEFINE text == NormalizeJSON(Report(report, style))
<1>1. /\ text \in Texts /\ Scan(text).open = <<>>
      /\ ReportIs(Scan(text).done, report, Mended(style))
    BY ReportMended
<1> HIDE DEF text
<1>2. report \in ReadReport(text)
    BY <1>1, ReportReadable
<1>3. PostMyStatusBody(Report(report, style)) \subseteq {report}
    BY ReportNeverMisread
<1>4. PostMyStatusBody(Report(report, style)) = ReadReport(text)
    BY DEF PostMyStatusBody, text
<1> QED BY <1>2, <1>3, <1>4

-----------------------------------------------------------------------------
(* The handlers.                                                           *)

\* What was cut off a text.
Zeros(n) == [i \in 1 .. n |-> Nul]

\* A body that was cut is a text with zero bytes.
LEMMA CutText ==
    ASSUME NEW text \in Texts, NEW lost \in 0 .. Len(text)
    PROVE  LET received == SubSeq(text, 1, Len(text) - lost) \o Zeros(lost)
           IN  /\ received \in Texts
               /\ lost = 0 => received = text
               /\ lost > 0 => Zeroed(received)
<1> DEFINE n == Len(text)
           a == SubSeq(text, 1, n - lost)
           b == Zeros(lost)
<1>1. n \in Nat
    BY LenProperties DEF Texts
<1>2. a \in Texts /\ (lost = 0 => a = text)
  <2>1. n - lost \in 0 .. n
      BY <1>1
  <2>2. a \in Seq(Tokens)
      BY <2>1, SubSeqProperties DEF Texts
  <2>3. lost = 0 => a = text
    <3> SUFFICES ASSUME lost = 0 PROVE a = text
        OBVIOUS
    <3>1. n - lost = n
        BY <1>1
    <3> HIDE DEF n
    <3>2. SubSeq(text, 1, Len(text)) = text
        BY SubSeqFull DEF Texts
    <3> QED BY <3>1, <3>2 DEF n
  <2> QED BY <2>2, <2>3 DEF Texts
<1>3. b \in Texts /\ (lost = 0 => b = <<>>) /\ (lost > 0 => Zeroed(b))
  <2>1. Len(b) = lost /\ b \in Seq(Tokens) /\ \A i \in 1 .. lost : b[i] = Nul
    <3>1. lost \in Nat /\ Nul \in Tokens
      <4>1. lost \in Nat
          BY <1>1
      <4> QED BY <4>1, SpecialTokens
    <3>2. b = [i \in 1 .. lost |-> Nul]
        BY Zenon DEF Zeros
    <3> HIDE DEF b
    <3>3. b \in [1 .. lost -> Tokens] /\ \A i \in 1 .. lost : b[i] = Nul
        BY <3>1, <3>2
    <3> QED BY <3>1, <3>3
  <2> HIDE DEF b
  <2>2. lost = 0 => b = <<>>
      BY <2>1, EmptySeq
  <2> QED BY <1>1, <2>1, <2>2 DEF Zeroed, Texts
<1> HIDE DEF a, b
<1>4. a \o b \in Texts /\ text \o <<>> = text
    BY <1>2, <1>3, ConcatProperties, ConcatEmptySeq DEF Texts
<1>5. lost > 0 => Zeroed(a \o b)
    BY <1>2, <1>3, ZeroedConcat
<1>6. lost = 0 => a \o b = text
    BY <1>2, <1>3, <1>4, Zenon
<1> QED BY <1>4, <1>5, <1>6 DEF a, b

\* What the handler makes of a body.
Outcome(b) == IF b.kind = "report" THEN PostMyStatusBody(Received(b))
              ELSE PostAdminInjectBody(Received(b))

\* A text with zero bytes is refused by both handlers.
LEMMA CutRefused ==
    ASSUME NEW text \in Texts, Zeroed(text)
    PROVE  PostMyStatusBody(text) = {} /\ PostAdminInjectBody(text) = {}
<1>1. NormalizeJSON(text) \in Texts /\ Zeroed(NormalizeJSON(text))
    BY ZeroedNormalize
<1>2. \A t \in Texts : Zeroed(t) => ReadReport(t) = {} /\ ReadEntries(t) = {} /\ ReadEntry(t) = {}
  <2> SUFFICES ASSUME NEW t \in Texts, Zeroed(t)
               PROVE  ReadReport(t) = {} /\ ReadEntries(t) = {} /\ ReadEntry(t) = {}
      OBVIOUS
  <2>1. PICK j \in 1 .. Len(Scan(t).done) : ~Inert(Scan(t).done[j])
      BY ZeroedScan
  <2> QED BY <2>1, Refused
<1> QED BY <1>1, <1>2 DEF PostMyStatusBody, PostAdminInjectBody

\* What the handlers make of each body that is sent.
LEMMA BodyRead ==
    ASSUME NEW b \in Sent
    PROVE  /\ b.lost > 0 => Outcome(b) = {}
           /\ Outcome(b) \subseteq {b.meant}
           /\ b.lost = 0 => Received(b) = TextOf(b) /\ TextOf(b) \in Texts
           /\ b.kind # "report" /\ b.lost = 0 =>
                 Outcome(b) = IF b.style.bare \cap {"k", "v"} = {} \/ b.meant = <<>>
                              THEN {b.meant} ELSE {}
<1> DEFINE text == TextOf(b)
<1>1. /\ b.style \in Styles
      /\ \/ b.kind = "report" /\ b.meant \in [version : Values, ek : EntryLists]
         \/ b.kind = "entries" /\ b.meant \in EntryLists
         \/ b.kind = "entry" /\ b.meant \in EntryLists /\ Len(b.meant) = 1
      /\ b.lost \in 0 .. Len(text)
    BY SentAssumption
<1>2. CASE b.kind = "report"
  <2>1. text = Report(b.meant, b.style) /\ b.meant \in [version : Values, ek : EntryLists]
      BY <1>1, <1>2 DEF TextOf
  <2>2. text \in Texts
      BY <1>1, <2>1, ClosedReport DEF Closed
  <2> HIDE DEF text
  <2>3. Received(b) = SubSeq(text, 1, Len(text) - b.lost) \o Zeros(b.lost)
      BY Zenon DEF Received, Zeros, text
  <2>4. /\ Received(b) \in Texts
        /\ b.lost = 0 => Received(b) = text
        /\ b.lost > 0 => Zeroed(Received(b))
      BY <1>1, <2>2, <2>3, CutText DEF text
  <2>5. Outcome(b) = PostMyStatusBody(Received(b))
      BY <1>2 DEF Outcome
  <2>6. b.lost > 0 => Outcome(b) = {}
      BY <2>4, <2>5, CutRefused
  <2>7. PostMyStatusBody(Report(b.meant, b.style)) \subseteq {b.meant}
      BY <1>1, <2>1, ReportNeverMisread
  <2>8. b.lost = 0 \/ b.lost > 0
    <3>1. Len(text) \in Nat
        BY <2>2, LenProperties DEF Texts
    <3> QED BY <1>1, <3>1 DEF text
  <2>9. b.lost = 0 => Outcome(b) \subseteq {b.meant}
      BY <2>1, <2>4, <2>5, <2>7
  <2> QED BY <1>2, <2>2, <2>4, <2>6, <2>8, <2>9 DEF text
<1>3. CASE b.kind # "report"
  <2>1. /\ b.meant \in EntryLists /\ text \in Texts
        /\ PostAdminInjectBody(text) = IF b.style.bare \cap {"k", "v"} = {} \/ b.meant = <<>>
                                       THEN {b.meant} ELSE {}
    <3>1. CASE b.kind = "entries" /\ b.meant \in EntryLists
      <4>1. text = Entries(b.meant, b.style)
          BY <3>1 DEF TextOf
      <4>2. text \in Texts
          BY <1>1, <3>1, <4>1, ClosedEntries DEF Closed
      <4> QED BY <1>1, <3>1, <4>1, <4>2, EntriesInjected
    <3>2. CASE b.kind = "entry" /\ b.meant \in EntryLists /\ Len(b.meant) = 1
      <4>1. text = Entry(b.meant[1], b.style)
          BY <3>2 DEF TextOf
      <4>2. b.meant[1] \in [k : Numbers, v : Values] /\ b.meant # <<>>
        <5>1. PICK entries \in Seq([k : Numbers, v : Values]) : entries = b.meant /\ Len(entries) = 1
            BY <3>2 DEF EntryLists
        <5>2. entries[1] \in [k : Numbers, v : Values] /\ entries # <<>>
          <6>1. entries[1] \in [k : Numbers, v : Values]
            <7>1. 1 \in 1 .. Len(entries)
                BY <5>1
            <7> DEFINE R == [k : Numbers, v : Values]
            <7> HIDE DEF R
            <7>2. entries \in Seq(R)
                BY DEF R
            <7>3. entries[1] \in R
                BY <7>1, <7>2, ElementOfSeq
            <7> QED BY <7>3 DEF R
          <6>2. Len(entries) # Len(<<>>)
              BY <5>1
          <6> QED BY <6>1, <6>2, Zenon
        <5> QED BY <5>1, <5>2
      <4>3. text \in Texts
          BY <1>1, <4>1, <4>2, ClosedEntry DEF Closed
      <4>4. PostAdminInjectBody(Entry(b.meant[1], b.style))
                = IF b.style.bare \cap {"k", "v"} = {} THEN {b.meant} ELSE {}
          BY <1>1, <3>2, EntryInjected
      <4> QED BY <3>2, <4>1, <4>2, <4>3, <4>4, Zenon
    <3> QED BY <1>1, <1>3, <3>1, <3>2
  <2> HIDE DEF text
  <2>3. Received(b) = SubSeq(text, 1, Len(text) - b.lost) \o Zeros(b.lost)
      BY Zenon DEF Received, Zeros, text
  <2>4. /\ Received(b) \in Texts
        /\ b.lost = 0 => Received(b) = text
        /\ b.lost > 0 => Zeroed(Received(b))
      BY <1>1, <2>1, <2>3, CutText DEF text
  <2>5. Outcome(b) = PostAdminInjectBody(Received(b))
      BY <1>3 DEF Outcome
  <2>6. b.lost > 0 => Outcome(b) = {}
      BY <2>4, <2>5, CutRefused
  <2>7. b.lost = 0 \/ b.lost > 0
    <3>1. Len(text) \in Nat
        BY <2>1, LenProperties DEF Texts
    <3> QED BY <1>1, <3>1 DEF text
  <2>8. b.lost = 0 => Outcome(b) = IF b.style.bare \cap {"k", "v"} = {} \/ b.meant = <<>>
                                   THEN {b.meant} ELSE {}
      BY <2>1, <2>4, <2>5, Zenon
  <2>9. Outcome(b) \subseteq {b.meant}
      BY <2>6, <2>7, <2>8
  <2> QED BY <1>3, <2>1, <2>4, <2>6, <2>8, <2>9, Zenon DEF text
<1> QED BY <1>2, <1>3

-----------------------------------------------------------------------------
\* A body that is handled was read once, as the handler reads it.
BodyHandled == handled => body \in Sent /\ read = Outcome(body)

\* ... in every reachable state.
LEMMA BodyHandledHolds == ReceiveSpec => []BodyHandled
<1>1. ReceiveInit => BodyHandled /\ body \in {NoBody} \cup Sent
    BY DEF ReceiveInit, BodyHandled
<1>2. BodyHandled /\ body \in {NoBody} \cup Sent /\ [ReceiveBody]_bodyVars
        => BodyHandled' /\ (body \in {NoBody} \cup Sent)'
  <2> SUFFICES ASSUME BodyHandled, body \in {NoBody} \cup Sent, [ReceiveBody]_bodyVars
               PROVE  BodyHandled' /\ (body \in {NoBody} \cup Sent)'
      OBVIOUS
  <2>1. CASE ReceiveBody
    <3>1. body' = body /\ body \in Sent /\ read' = Outcome(body)
        BY <2>1, Zenon DEF ReceiveBody, Outcome
    <3>2. Outcome(body)' = Outcome(body')
        OBVIOUS
    <3> QED BY <3>1, <3>2 DEF BodyHandled
  <2>2. CASE UNCHANGED bodyVars
      BY <2>2 DEF BodyHandled, bodyVars
  <2> QED BY <2>1, <2>2
<1> QED BY <1>1, <1>2, PTL DEF ReceiveSpec

\* Whatever a sender means and however it writes it, a handler reads that or
\* refuses the body, and it refuses every body that was cut.
THEOREM NeverMisreadHolds == ReceiveSpec => []NeverMisread
<1>1. BodyHandled => NeverMisread
    BY BodyRead DEF BodyHandled, NeverMisread
<1> QED BY <1>1, BodyHandledHolds, PTL

\* An injection is read as an array and as one object, if it is JSON.
THEOREM InjectionReadHolds == ReceiveSpec => []InjectionRead
<1>1. BodyHandled => InjectionRead
    BY BodyRead, Zenon DEF BodyHandled, InjectionRead
<1> QED BY <1>1, BodyHandledHolds, PTL

\* A report that arrives whole is read, whichever of its names are written
\* without quotes: the repair makes JSON of it and changes no value.
THEOREM LegacyReportReadHolds == ReceiveSpec => []LegacyReportRead
<1>1. BodyHandled => LegacyReportRead
  <2> SUFFICES ASSUME BodyHandled, handled, body.kind = "report", body.lost = 0,
                      body.style.bare # {} => ~body.style.swap /\ ~body.style.spaced,
                      ~Triggers(body.meant.version),
                      \A i \in DOMAIN body.meant.ek : ~Triggers(body.meant.ek[i].v)
               PROVE  read = {body.meant}
      BY DEF LegacyReportRead
  <2>1. body \in Sent /\ read = Outcome(body)
      BY DEF BodyHandled
  <2>2. Outcome(body) = PostMyStatusBody(Report(body.meant, body.style))
    <3>1. Received(body) = TextOf(body)
        BY <2>1, BodyRead
    <3>2. TextOf(body) = Report(body.meant, body.style)
        BY DEF TextOf
    <3>3. Outcome(body) = PostMyStatusBody(Received(body))
        BY DEF Outcome
    <3> QED BY <3>1, <3>2, <3>3
  <2>3. body.style \in Styles /\ body.meant \in [version : Values, ek : EntryLists]
      BY <2>1, SentAssumption
  <2>4. PostMyStatusBody(Report(body.meant, body.style)) = {body.meant}
      BY <2>3, LegacyReport
  <2> QED BY <2>1, <2>2, <2>4
<1> QED BY <1>1, BodyHandledHolds, PTL
=============================================================================
