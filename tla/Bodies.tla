------------------------------- MODULE Bodies -------------------------------
(***************************************************************************)
(* How the handlers read the body of a request: NormalizeJSON              *)
(* (internal/api/json_normalizer.go), which repairs what the devices send, *)
(* and the decoding in PostMyStatus and PostAdminInject.                   *)
(*                                                                         *)
(* A text is a sequence of tokens: punctuation, the names of members,      *)
(* numbers, words, blanks, and the zero bytes of a body that was cut.      *)
(***************************************************************************)
EXTENDS Integers, SequencesExt

CONSTANTS
    Numbers,    \* the tokens that are numbers
    Words,      \* the other tokens that values are made of
    Sent        \* the bodies that are sent

VARIABLES
    body,       \* a body in the making, or none
    read,       \* what the handler reads it as: one value, or none
    handled

bodyVars == <<body, read, handled>>

Quote == "\""
Nul == "NUL"
Names == {"version", "ek", "k", "v"}
Marks == {"{", "}", "[", "]", ":", ","}
Tokens == Numbers \cup Words \cup Names \cup Marks \cup {Quote, Nul, " "}

ASSUME NumbersAssumption == Numbers \cap (Names \cup Marks \cup {Quote, Nul, " "}) = {}

-----------------------------------------------------------------------------
(* NormalizeJSON.                                                          *)

\* ReplaceAllString: a name between the token before and a colon is quoted.
Rewrite(text, rule) ==
    LET found(i) == /\ i \in 2 .. Len(text) - 1
                    /\ text[i - 1] = rule.before /\ text[i] = rule.name /\ text[i + 1] = ":"
    IN  FlattenSeq([i \in DOMAIN text |->
            IF found(i) THEN rule.adds \o <<Quote, rule.name, Quote>> ELSE <<text[i]>>])

Rule(before, name, adds) == [before |-> before, name |-> name, adds |-> adds]

\* The third opens an object that nothing closes.
Rules == <<Rule("{", "k", <<>>), Rule(",", "v", <<>>), Rule("[", "k", <<"{">>),
           Rule("{", "version", <<>>), Rule(",", "version", <<>>), Rule(",", "ek", <<>>)>>

\* One rule after the other.
Repair(text, rules) ==
    LET after[n \in 0 .. Len(rules)] ==
            IF n = 0 THEN text ELSE Rewrite(after[n - 1], rules[n])
    IN  after[Len(rules)]

\* Mutants: ek is not repaired; blanks are removed for a simpler match.
NormalizeWithoutEk(text) == Repair(text, Front(Rules))
NormalizeCompacting(text) == Repair(SelectSeq(text, LAMBDA t : t # " "), Rules)

NormalizeJSON(text) == Repair(text, Rules)

-----------------------------------------------------------------------------
(* What a sender writes, and encoding/json as its inverse.                 *)

\* style.bare: the names written without quotes; style.swap: the members of
\* objects in the other order; style.spaced: blanks after colons and commas.
Name(name, style) == IF name \in style.bare THEN <<name>> ELSE <<Quote, name, Quote>>
Str(content) == <<Quote>> \o content \o <<Quote>>
Gap(style) == IF style.spaced THEN <<" ">> ELSE <<>>
Member(name, value, style) == Name(name, style) \o <<":">> \o Gap(style) \o value
Comma(style) == <<",">> \o Gap(style)

Object(first, second, style) ==
    <<"{">> \o (IF style.swap THEN second \o Comma(style) \o first
                ELSE first \o Comma(style) \o second) \o <<"}">>

Array(items, style) ==
    <<"[">> \o FlattenSeq([i \in DOMAIN items |->
                   IF i = 1 THEN items[i] ELSE Comma(style) \o items[i]]) \o <<"]">>

Entry(entry, style) ==
    Object(Member("k", <<entry.k>>, style), Member("v", Str(entry.v), style), style)
Entries(entries, style) ==
    Array([i \in DOMAIN entries |-> Entry(entries[i], style)], style)
Report(report, style) ==
    Object(Member("version", Str(report.version), style),
           Member("ek", Entries(report.ek, style), style), style)

Quoted == {[bare |-> {}, swap |-> swap, spaced |-> FALSE] : swap \in BOOLEAN}

\* The lexemes of JSON: a string is one, blanks outside strings are none.  A
\* zero byte is allowed nowhere, and every string must be closed.
Lex(l, t) ==
    IF t = Nul THEN [done |-> Append(l.done, <<Nul>>), open |-> l.open]
    ELSE IF t = Quote /\ l.open = <<>> THEN [done |-> l.done, open |-> <<Quote>>]
    ELSE IF t = Quote THEN [done |-> Append(l.done, Append(l.open, Quote)), open |-> <<>>]
    ELSE IF l.open # <<>> THEN [done |-> l.done, open |-> Append(l.open, t)]
    ELSE IF t = " " THEN l
    ELSE [done |-> Append(l.done, <<t>>), open |-> <<>>]

\* What is done of a text, and the string that is open at its end.
Scan(text) ==
    LET upTo[i \in 0 .. Len(text)] ==
            IF i = 0 THEN [done |-> <<>>, open |-> <<>>] ELSE Lex(upTo[i - 1], text[i])
    IN  upTo[Len(text)]
Lexemes(text) == Append(Scan(text).done, Scan(text).open)

\* The contents of the strings that are values, and what n entries can hold.
Contents(lexemes) ==
    {SubSeq(lexemes[i], 2, Len(lexemes[i]) - 1) :
        i \in {j \in DOMAIN lexemes \ {1} : lexemes[j - 1] = <<":">> /\ Len(lexemes[j]) > 1}}
EntriesIn(lexemes, n) ==
    [1 .. n -> [k : {m \in Numbers : <<m>> \in ToSet(lexemes)}, v : Contents(lexemes)]]
Objects(lexemes) == Cardinality({i \in DOMAIN lexemes : lexemes[i] = <<"{">>})

\* The values a text is read as: one, or none if encoding/json refuses it.
\* Texts with members that are missing, doubled or unknown are left out.
ReadReport(text) ==
    LET lexemes == Lexemes(text)
    IN  {report \in [version : Contents(lexemes), ek : EntriesIn(lexemes, Objects(lexemes) - 1)] :
            \E style \in Quoted : Lexemes(Report(report, style)) = lexemes}

ReadEntries(text) ==
    LET lexemes == Lexemes(text)
    IN  {entries \in EntriesIn(lexemes, Objects(lexemes)) :
            \E style \in Quoted : Lexemes(Entries(entries, style)) = lexemes}

ReadEntry(text) ==
    LET lexemes == Lexemes(text)
    IN  {entries \in EntriesIn(lexemes, 1) :
            \E style \in Quoted : Lexemes(Entry(entries[1], style)) = lexemes}

-----------------------------------------------------------------------------
(* The handlers.                                                           *)

PostMyStatusBody(text) == ReadReport(NormalizeJSON(text))

\* Mutant: only one object is expected.
PostAdminInjectObject(text) == ReadEntry(text)

\* No repair here; an array, else a single object.
PostAdminInjectBody(text) ==
    IF ReadEntries(text) # {} THEN ReadEntries(text) ELSE ReadEntry(text)

-----------------------------------------------------------------------------
(* One body, from its sender to the handler.                               *)

\* Strings with an escaped quote are left out.
Values == Seq(Tokens \ {Quote, Nul})
EntryLists == Seq([k : Numbers, v : Values])
Styles == [bare : SUBSET Names, swap : BOOLEAN, spaced : BOOLEAN]

TextOf(b) == IF b.kind = "report" THEN Report(b.meant, b.style)
             ELSE IF b.kind = "entries" THEN Entries(b.meant, b.style)
             ELSE Entry(b.meant[1], b.style)

\* A report, or entries to inject, in an array or alone; lost is the number
\* of tokens at the end that did not arrive.
ASSUME SentAssumption == \A b \in Sent :
    /\ b.style \in Styles
    /\ \/ b.kind = "report" /\ b.meant \in [version : Values, ek : EntryLists]
       \/ b.kind = "entries" /\ b.meant \in EntryLists
       \/ b.kind = "entry" /\ b.meant \in EntryLists /\ Len(b.meant) = 1
    /\ b.lost \in 0 .. Len(TextOf(b))

\* handleConnection leaves the bytes that did not arrive zero.
Received(b) ==
    LET text == TextOf(b)
    IN  SubSeq(text, 1, Len(text) - b.lost) \o [i \in 1 .. b.lost |-> Nul]

NoBody == [kind |-> "none"]

ReceiveInit == body \in {NoBody} \cup Sent /\ read = {} /\ handled = FALSE

ReceiveBody ==
    /\ body # NoBody /\ ~handled
    /\ handled' = TRUE
    /\ read' = IF body.kind = "report" THEN PostMyStatusBody(Received(body))
               ELSE PostAdminInjectBody(Received(body))
    /\ UNCHANGED body

ReceiveSpec == ReceiveInit /\ [][ReceiveBody]_bodyVars

-----------------------------------------------------------------------------
\* Whatever names are quoted, however the text is spaced and ordered, and
\* whatever patterns of the repair stand in its values, a body is read as
\* what its sender meant or is refused; a body that was cut is refused.
NeverMisread == handled => read \subseteq {body.meant} /\ (body.lost > 0 => read = {})

\* What the devices send is read, whichever names are without quotes; so is
\* valid JSON.  A value that holds a pattern of the repair makes a report
\* unreadable.
Triggers(value) == {"{", ",", "["} \cap ToSet(value) # {}
LegacyReportRead ==
    /\ handled /\ body.kind = "report" /\ body.lost = 0
    /\ body.style.bare # {} => ~body.style.swap /\ ~body.style.spaced
    /\ ~Triggers(body.meant.version) /\ \A i \in DOMAIN body.meant.ek : ~Triggers(body.meant.ek[i].v)
    => read = {body.meant}

\* An injection is read as an array and as a single object, in JSON only.
InjectionRead ==
    handled /\ body.kind # "report" /\ body.lost = 0 =>
        read = IF body.style.bare \cap {"k", "v"} = {} \/ body.meant = <<>>
               THEN {body.meant} ELSE {}
=============================================================================
