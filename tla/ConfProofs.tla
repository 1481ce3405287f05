----------------------------- MODULE ConfProofs -----------------------------
(***************************************************************************)
(* Proof about CConf::read(): a file of any number of lines, each of a     *)
(* form that an author may write, means what it says.  First the library's *)
(* functions, then the parts of one line, then what one line does, and     *)
(* last the file.                                                          *)
(***************************************************************************)
EXTENDS Conf, SequenceTheorems, TLAPS

LEMMA MinIs ==
  ASSUME NEW S \in SUBSET Int, NEW m \in S, \A y \in S : m <= y
  PROVE  Min(S) = m
<1>1. \A x \in S : (\A y \in S : x <= y) => x = m
  OBVIOUS
<1>2. \E x \in S : \A y \in S : x <= y
  OBVIOUS
<1> QED BY <1>1, <1>2 DEF Min

LEMMA MaxIs ==
  ASSUME NEW S \in SUBSET Int, NEW m \in S, \A y \in S : y <= m
  PROVE  Max(S) = m
<1>1. \A x \in S : (\A y \in S : x >= y) => x = m
  OBVIOUS
<1>2. \E x \in S : \A y \in S : x >= y
  OBVIOUS
<1> QED BY <1>1, <1>2 DEF Max

-----------------------------------------------------------------------------
(***************************************************************************)
(* The functions of the C library                                          *)
(***************************************************************************)
\* strchr() and strtok() stop at the first token that is one of chars, or
\* at the end.
LEMMA FirstInIs ==
  ASSUME NEW text, Len(text) \in Nat, NEW chars, NEW i \in Nat, NEW j \in i .. Len(text) + 1,
         \A k \in i .. j - 1 : text[k] \notin chars,
         j = Len(text) + 1 \/ text[j] \in chars
  PROVE  FirstIn(text, i, chars) = j
<1> DEFINE S == { k \in i .. Len(text) : text[k] \in chars } \union {Len(text) + 1}
<1>1. j \in S /\ S \in SUBSET Int
  OBVIOUS
<1>2. \A y \in S : j <= y
  OBVIOUS
<1> QED BY <1>1, <1>2, MinIs DEF FirstIn

LEMMA FirstNotInIs ==
  ASSUME NEW text, Len(text) \in Nat, NEW chars, NEW i \in Nat, NEW j \in i .. Len(text) + 1,
         \A k \in i .. j - 1 : text[k] \in chars,
         j = Len(text) + 1 \/ text[j] \notin chars
  PROVE  FirstNotIn(text, i, chars) = j
<1> DEFINE S == { k \in i .. Len(text) : text[k] \notin chars } \union {Len(text) + 1}
<1>1. j \in S /\ S \in SUBSET Int
  OBVIOUS
<1>2. \A y \in S : j <= y
  OBVIOUS
<1> QED BY <1>1, <1>2, MinIs DEF FirstNotIn

Tokens == STRING \union Ends

\* A part of a sequence, token by token.
LEMMA Part ==
  ASSUME NEW text \in Seq(Tokens), NEW m \in Nat \ {0}, NEW n \in m - 1 .. Len(text)
  PROVE  /\ SubSeq(text, m, n) \in Seq(Tokens)
         /\ Len(SubSeq(text, m, n)) = n - m + 1
         /\ \A i \in 1 .. n - m + 1 : SubSeq(text, m, n)[i] = text[m + i - 1]
<1>1. \A i \in m .. n : text[i] \in Tokens
  OBVIOUS
<1>2. Len(SubSeq(text, m, n)) = IF m <= n THEN n - m + 1 ELSE 0
  BY <1>1, SubSeqProperties
<1> QED BY <1>1, SubSeqProperties

-----------------------------------------------------------------------------
(***************************************************************************)
(* The text of one line                                                    *)
(***************************************************************************)
\* A line as it may be in the file: with its end, or, the last one, without.
Spelled(line) == { line.text \o end : end \in EndsOfLine \union {<< >>} } \ {<< >>}

LEMMA Spelling ==
  ASSUME NEW line \in Lines, NEW text \in Spelled(line)
  PROVE  /\ text \in Seq(Tokens) /\ line.text \in Seq(Tokens)
         /\ Len(text) \in Nat \ {0} /\ Len(line.text) \in 0 .. Len(text) /\ Len(text) < BufferSize
         /\ \A i \in 1 .. Len(line.text) : text[i] = line.text[i] /\ text[i] \notin Ends
         /\ \A i \in Len(line.text) + 1 .. Len(text) : text[i] \in Ends
<1>1. PICK end \in EndsOfLine \union {<< >>} : text = line.text \o end
  BY DEF Spelled
<1>2. end \in Seq(Tokens) /\ Len(end) \in 0 .. 2 /\ \A i \in 1 .. Len(end) : end[i] \in Ends
  <2>1. "\n" \in Ends /\ "\r" \in Ends /\ "\n" \in Tokens /\ "\r" \in Tokens
    BY DEF Ends, Tokens
  <2>2. CASE end = << "\n" >>
    BY <2>1, <2>2
  <2>3. CASE end = << "\r", "\n" >>
    BY <2>1, <2>3
  <2>4. CASE end = << >>
    BY <2>4
  <2> QED BY <2>2, <2>3, <2>4 DEF EndsOfLine
<1>3. /\ line.text \in Seq(Tokens) /\ Len(line.text) + 2 < BufferSize
      /\ \A i \in 1 .. Len(line.text) : line.text[i] \notin Ends
  <2>1. Seq(STRING) \subseteq Seq(Tokens)
    BY DEF Tokens
  <2> QED BY <2>1, LineAssumption
<1>4. /\ text \in Seq(Tokens) /\ Len(text) = Len(line.text) + Len(end)
      /\ \A i \in 1 .. Len(line.text) + Len(end) :
           text[i] = IF i <= Len(line.text) THEN line.text[i] ELSE end[i - Len(line.text)]
  BY <1>1, <1>2, <1>3, ConcatProperties
<1>5. Len(text) # 0
  BY <1>4 DEF Spelled
<1>6. Len(line.text) \in Nat /\ Len(end) \in Nat
  BY <1>2, <1>3, LenProperties
<1>7. \A i \in 1 .. Len(line.text) : text[i] = line.text[i] /\ text[i] \notin Ends
  BY <1>3, <1>4, <1>6
<1>8. \A i \in Len(line.text) + 1 .. Len(text) : text[i] \in Ends
  <2> TAKE i \in Len(line.text) + 1 .. Len(text)
  <2>1. text[i] = end[i - Len(line.text)] /\ i - Len(line.text) \in 1 .. Len(end)
    BY <1>4, <1>6
  <2> QED BY <1>2, <2>1
<1>9. Len(text) \in Nat \ {0} /\ Len(line.text) \in 0 .. Len(text) /\ Len(text) < BufferSize
  <2>1. Len(end) \in 0 .. 2 /\ Len(text) = Len(line.text) + Len(end)
    BY <1>2, <1>4
  <2>2. Len(line.text) + 2 < BufferSize
    BY <1>3
  <2> DEFINE a == Len(line.text)
             b == Len(end)
             c == Len(text)
  <2>3. a \in Nat /\ b \in 0 .. 2 /\ c = a + b /\ c # 0 /\ a + 2 < BufferSize
    BY <1>5, <1>6, <2>1, <2>2
  <2> HIDE DEF a, b, c
  <2>4. c \in Nat \ {0} /\ a \in 0 .. c /\ c < BufferSize
    BY <2>3, SizeAssumption
  <2> QED BY <2>4 DEF a, c
<1> QED BY <1>3, <1>4, <1>7, <1>8, <1>9

\* None of the separators, and no comment, is taken for a header.
LEMMA Distinct ==
  /\ (Separators \union {"#"}) \intersect (Sections \union OtherHeaders) = {}
  /\ "#" \notin Separators /\ Ends \subseteq Separators
BY HeaderAssumption DEF Separators, Blanks, Ends, Sections

LEMMA HeaderText ==
  ASSUME NEW line \in Lines, NEW text \in Spelled(line), HeaderLine(line)
  PROVE  text[1] = line.begins /\ text[1] \in Sections \union OtherHeaders
<1>1. line.text \in Seq(Tokens) /\ line.text # << >>
  BY Spelling DEF HeaderLine
<1>2. Len(line.text) >= 1
  BY <1>1
<1>3. text[1] = line.text[1]
  BY <1>2, Spelling
<1> QED BY <1>3 DEF HeaderLine

\* A line that says nothing is a comment, has no key, or has no value.
LEMMA SilentText ==
  ASSUME NEW line \in Lines, NEW text \in Spelled(line), SilentLine(line)
  PROVE  \/ text[1] = "#"
         \/ /\ text[1] \notin Sections \union OtherHeaders \union {"#"}
            /\ Key(text) = << >> \/ RawValue(text) = << >>
<1>1. CASE line.text # << >> /\ line.text[1] = "#"
  BY <1>1, Spelling
<1>2. CASE \A i \in DOMAIN line.text : line.text[i] \in Separators
  <2>1. \A i \in 1 .. Len(text) : text[i] \in Separators
    BY <1>2, Spelling, Distinct
  <2>2. KeyBegin(text) = Len(text) + 1
    <3> DEFINE j == Len(text) + 1
    <3>1. j \in 1 .. Len(text) + 1 /\ \A k \in 1 .. j - 1 : text[k] \in Separators
      BY <2>1, Spelling
    <3> QED BY <3>1, Spelling, FirstNotInIs DEF KeyBegin
  <2>3. KeyEnd(text) = Len(text) + 1
    <3> DEFINE j == Len(text) + 1
    <3>1. j \in Nat /\ j \in j .. Len(text) + 1 /\ \A k \in j .. j - 1 : text[k] \notin Separators
      BY Spelling
    <3> QED BY <2>2, <3>1, Spelling, FirstInIs DEF KeyEnd
  <2>4. Key(text) = << >>
    BY <2>2, <2>3, Spelling, SubSeqEmpty DEF Key
  <2> QED BY <2>1, <2>4, Spelling, Distinct
<1>3. CASE /\ Len(line.text) = 2 /\ line.text[2] = "="
           /\ line.text[1] \notin Separators \union Sections \union OtherHeaders
  <2>1. /\ text[1] \notin Separators \union Sections \union OtherHeaders /\ text[2] = "="
        /\ \A i \in 3 .. Len(text) : text[i] \in Ends
        /\ Len(text) >= 2
    BY <1>3, Spelling
  <2>2. KeyBegin(text) = 1
    BY <2>1, Spelling, FirstNotInIs DEF KeyBegin
  <2>3. KeyEnd(text) = 2
    BY <2>1, <2>2, Spelling, FirstInIs DEF KeyEnd, Separators
  <2> DEFINE j == Len(text) + 1
  <2>4. FirstNotIn(text, KeyEnd(text) + 1, Ends) = j
    <3>1. j \in 3 .. Len(text) + 1 /\ \A k \in 3 .. j - 1 : text[k] \in Ends
      BY <2>1, Spelling
    <3> QED BY <2>3, <3>1, Spelling, FirstNotInIs
  <2>5. FirstIn(text, j, Ends) = j
    <3>1. j \in Nat /\ j \in j .. Len(text) + 1 /\ \A k \in j .. j - 1 : text[k] \notin Ends
      BY Spelling
    <3> QED BY <3>1, Spelling, FirstInIs
  <2>6. RawValue(text) = << >>
    BY <2>4, <2>5, Spelling, SubSeqEmpty DEF RawValue
  <2> QED BY <2>1, <2>6
<1> QED BY <1>1, <1>2, <1>3 DEF SilentLine

\* A line with a value has its key and its value apart.
LEMMA SettingText ==
  ASSUME NEW line \in Lines, NEW text \in Spelled(line),
         line.text[1] \notin Sections \union OtherHeaders \union {"#"},
         NEW p \in 1 .. Len(line.text) - 2,
         \A i \in 1 .. p - 1 : line.text[i] \in Blanks,
         line.text[p] = line.key, line.key \notin Separators, line.text[p + 1] = "="
  PROVE  /\ text[1] \notin Sections \union OtherHeaders \union {"#"}
         /\ Key(text) = << line.key >>
         /\ RawValue(text) = SubSeq(line.text, p + 2, Len(line.text))
         /\ RawValue(text) # << >>
<1> DEFINE n == Len(line.text)
<1>1. /\ n \in Nat /\ p \in Nat \ {0} /\ p + 2 <= n /\ n <= Len(text) /\ Len(text) \in Nat
      /\ \A i \in 1 .. n : text[i] = line.text[i] /\ text[i] \notin Ends
      /\ \A i \in n + 1 .. Len(text) : text[i] \in Ends
      /\ text \in Seq(Tokens) /\ line.text \in Seq(Tokens)
  BY Spelling
<1> HIDE DEF n
<1>2. KeyBegin(text) = p
  <2>1. \A i \in 1 .. p - 1 : text[i] \in Separators
    BY <1>1 DEF Separators
  <2>2. text[p] \notin Separators /\ p \in 1 .. Len(text) + 1
    BY <1>1
  <2> QED BY <1>1, <2>1, <2>2, FirstNotInIs DEF KeyBegin
<1>3. KeyEnd(text) = p + 1
  <2>1. text[p] \notin Separators /\ text[p + 1] \in Separators /\ p + 1 \in p .. Len(text) + 1
    BY <1>1 DEF Separators
  <2>2. \A i \in p .. (p + 1) - 1 : text[i] \notin Separators
    BY <1>1, <2>1
  <2> QED BY <1>1, <1>2, <2>1, <2>2, FirstInIs DEF KeyEnd
<1>4. FirstNotIn(text, KeyEnd(text) + 1, Ends) = p + 2
  <2>1. text[p + 2] \notin Ends /\ p + 2 \in p + 2 .. Len(text) + 1 /\ p + 2 \in Nat
    BY <1>1
  <2>2. \A i \in p + 2 .. (p + 2) - 1 : text[i] \in Ends
    BY <1>1
  <2>3. FirstNotIn(text, p + 2, Ends) = p + 2
    BY <1>1, <2>1, <2>2, FirstNotInIs
  <2>4. KeyEnd(text) + 1 = p + 2
    BY <1>1, <1>3
  <2> QED BY <2>3, <2>4
<1>5. FirstIn(text, p + 2, Ends) = n + 1
  <2>1. n + 1 \in p + 2 .. Len(text) + 1 /\ p + 2 \in Nat
    BY <1>1
  <2>2. \A i \in p + 2 .. (n + 1) - 1 : text[i] \notin Ends
    BY <1>1
  <2>3. n + 1 = Len(text) + 1 \/ text[n + 1] \in Ends
    BY <1>1
  <2> QED BY <1>1, <2>1, <2>2, <2>3, FirstInIs
<1>6. RawValue(text) = SubSeq(text, p + 2, n)
  <2>1. (n + 1) - 1 = n
    BY <1>1
  <2> QED BY <1>4, <1>5, <2>1 DEF RawValue
<1>7. SubSeq(text, p + 2, n) = SubSeq(line.text, p + 2, n) /\ SubSeq(text, p + 2, n) # << >>
  <2>1. p + 2 \in Nat \ {0} /\ n \in (p + 2) - 1 .. Len(text) /\ n \in (p + 2) - 1 .. Len(line.text)
    BY <1>1 DEF n
  <2> DEFINE s == SubSeq(text, p + 2, n)
             t == SubSeq(line.text, p + 2, n)
             l == n - (p + 2) + 1
  <2>2. /\ s \in Seq(Tokens) /\ Len(s) = l
        /\ \A i \in 1 .. l : s[i] = text[(p + 2) + i - 1]
    BY <1>1, <2>1, Part
  <2>3. /\ t \in Seq(Tokens) /\ Len(t) = l
        /\ \A i \in 1 .. l : t[i] = line.text[(p + 2) + i - 1]
    BY <1>1, <2>1, Part
  <2>4. \A i \in 1 .. l : (p + 2) + i - 1 \in 1 .. n
    BY <1>1
  <2>5. \A i \in 1 .. l : text[(p + 2) + i - 1] = line.text[(p + 2) + i - 1]
    BY <1>1, <2>4
  <2> HIDE DEF s, t, l
  <2>6. s = t
    <3>1. Len(s) = Len(t) /\ \A i \in 1 .. Len(s) : s[i] = t[i]
      BY <2>2, <2>3, <2>5
    <3> QED BY <2>2, <2>3, <3>1, SeqEqual
  <2>7. Len(s) # 0
    BY <1>1, <2>2 DEF l
  <2>8. s # << >>
    BY <2>7
  <2> QED BY <2>6, <2>8 DEF s, t
<1>8. Key(text) = << line.key >>
  <2>1. Key(text) = SubSeq(text, p, p)
    <3>1. (p + 1) - 1 = p
      BY <1>1
    <3> QED BY <1>2, <1>3, <3>1 DEF Key
  <2>2. /\ SubSeq(text, p, p) \in Seq(Tokens) /\ Len(SubSeq(text, p, p)) = 1
        /\ SubSeq(text, p, p)[1] = text[p]
    <3>1. p \in p - 1 .. Len(text) /\ p - p + 1 = 1 /\ p + 1 - 1 = p
      BY <1>1
    <3> QED BY <1>1, <3>1, Part
  <2>3. text[p] = line.key /\ line.key \in Tokens
    BY <1>1
  <2> DEFINE s == SubSeq(text, p, p)
             t == << line.key >>
  <2>4. t \in Seq(Tokens) /\ Len(t) = 1 /\ t[1] = line.key
    BY <2>3
  <2> HIDE DEF s, t
  <2>5. s \in Seq(Tokens) /\ Len(s) = Len(t) /\ \A i \in 1 .. Len(s) : s[i] = t[i]
    BY <2>2, <2>3, <2>4 DEF s
  <2>6. s = t
    BY <2>4, <2>5, SeqEqual
  <2> QED BY <2>1, <2>6 DEF s, t
<1>9. text[1] = line.text[1]
  BY <1>1
<1> QED BY <1>6, <1>7, <1>8, <1>9 DEF n

-----------------------------------------------------------------------------
(***************************************************************************)
(* The value of one line                                                   *)
(***************************************************************************)
\* Without its comment and the blanks before it, a plain value is left.
LEMMA PlainText ==
  ASSUME NEW raw \in Seq(Tokens), ~Quoted(raw), NEW v \in 0 .. Len(raw), PlainValue(raw, v)
  PROVE  Value(raw) = SubSeq(raw, 1, v)
<1>1. PICK c \in v + 1 .. Len(raw) + 1 :
        /\ \A i \in v + 1 .. c - 1 : raw[i] \in Blanks
        /\ c = Len(raw) + 1 \/ raw[c] = "#"
  BY DEF PlainValue
<1>2. Len(raw) \in Nat /\ v \in Nat /\ c \in Nat /\ v + 1 <= c /\ c <= Len(raw) + 1
  BY LenProperties
<1>3. FirstIn(raw, 1, {"#"}) = c
  <2>1. \A i \in 1 .. v : raw[i] # "#"
    BY DEF PlainValue
  <2>2. \A i \in v + 1 .. c - 1 : raw[i] # "#"
    BY <1>1 DEF Blanks
  <2>3. \A i \in 1 .. c - 1 : raw[i] \notin {"#"}
    BY <1>2, <2>1, <2>2
  <2>4. c \in 1 .. Len(raw) + 1 /\ (c = Len(raw) + 1 \/ raw[c] \in {"#"})
    BY <1>1, <1>2
  <2> QED BY <1>2, <2>3, <2>4, FirstInIs
<1> DEFINE cut == SubSeq(raw, 1, c - 1)
<1>4. cut \in Seq(Tokens) /\ Len(cut) = c - 1 /\ \A i \in 1 .. c - 1 : cut[i] = raw[i]
  <2>1. c - 1 \in 1 - 1 .. Len(raw) /\ (c - 1) - 1 + 1 = c - 1
    BY <1>2
  <2>2. \A i \in 1 .. c - 1 : cut[i] = raw[1 + i - 1]
    BY <2>1, Part
  <2>3. \A i \in 1 .. c - 1 : 1 + i - 1 = i
    BY <1>2
  <2> QED BY <2>1, <2>2, <2>3, Part
<1>5. Value(raw) = Trimmed(cut)
  BY <1>3 DEF Value
<1> HIDE DEF cut
<1> DEFINE S == {0} \union { i \in DOMAIN cut : cut[i] \notin Blanks }
<1>6. Max(S) = v
  <2>1. DOMAIN cut = 1 .. c - 1
    BY <1>4, LenProperties
  <2>2. S \in SUBSET Int
    BY <1>2, <2>1
  <2>3. v \in S
    <3>1. CASE v = 0
      BY <3>1
    <3>2. CASE v # 0
      <4>1. v \in 1 .. c - 1 /\ raw[v] \notin Blanks
        BY <1>2, <3>2 DEF PlainValue
      <4> QED BY <1>4, <2>1, <4>1
    <3> QED BY <3>1, <3>2
  <2>4. ASSUME NEW y \in S PROVE y <= v
    <3>1. CASE y = 0
      BY <1>2, <3>1
    <3>2. CASE y # 0
      <4>1. y \in 1 .. c - 1 /\ raw[y] \notin Blanks
        BY <1>4, <2>1, <3>2
      <4>2. y \notin v + 1 .. c - 1
        BY <1>1, <4>1
      <4> QED BY <1>2, <4>1, <4>2
    <3> QED BY <3>1, <3>2
  <2> HIDE DEF S
  <2> QED BY <2>2, <2>3, <2>4, MaxIs
<1>7. Trimmed(cut) = SubSeq(cut, 1, v)
  BY <1>6 DEF Trimmed
<1>8. SubSeq(cut, 1, v) = SubSeq(raw, 1, v)
  <2> DEFINE s == SubSeq(cut, 1, v)
             t == SubSeq(raw, 1, v)
  <2>1. v \in 1 - 1 .. Len(cut) /\ v \in 1 - 1 .. Len(raw) /\ v - 1 + 1 = v
    BY <1>2, <1>4
  <2>2. s \in Seq(Tokens) /\ Len(s) = v /\ \A i \in 1 .. v : s[i] = cut[1 + i - 1]
    BY <1>4, <2>1, Part
  <2>3. t \in Seq(Tokens) /\ Len(t) = v /\ \A i \in 1 .. v : t[i] = raw[1 + i - 1]
    BY <2>1, Part
  <2>4. \A i \in 1 .. v : cut[1 + i - 1] = raw[1 + i - 1]
    BY <1>2, <1>4
  <2> HIDE DEF s, t
  <2>5. Len(s) = Len(t) /\ \A i \in 1 .. Len(s) : s[i] = t[i]
    BY <2>2, <2>3, <2>4
  <2>6. s = t
    BY <2>2, <2>3, <2>5, SeqEqual
  <2> QED BY <2>6 DEF s, t
<1> QED BY <1>5, <1>7, <1>8

\* atoi() of one word.
LEMMA NumberIs ==
  ASSUME NEW w \in DOMAIN Numeral
  PROVE  Number(<< w >>) = Numeral[w]
<1> DEFINE text == << w >>
<1>1. Len(text) = 1 /\ text[1] = w
  OBVIOUS
<1> HIDE DEF text
<1>2. w \notin Blanks
  BY NumeralAssumption
<1>3. FirstNotIn(text, 1, Blanks) = 1
  <2>1. 1 \in 1 .. Len(text) + 1 /\ \A k \in 1 .. 1 - 1 : text[k] \in Blanks
    BY <1>1
  <2> QED BY <1>1, <1>2, <2>1, FirstNotInIs
<1>4. Number(text) = Numeral[w]
  BY <1>1, <1>3 DEF Number
<1> QED BY <1>4 DEF text

LEMMA PortWidth == \A v \in PortNumbers : v % 65536 = v
<1> SUFFICES ASSUME NEW v \in PortNumbers PROVE v % 65536 = v
  OBVIOUS
<1>1. v \in Int /\ 0 <= v /\ v < 65536
  BY DEF PortNumbers
<1> QED BY <1>1

LEMMA CountWidth == \A v \in 0 .. Unsigned - 1 : v % Unsigned = v
<1> SUFFICES ASSUME NEW v \in 0 .. Unsigned - 1 PROVE v % Unsigned = v
  OBVIOUS
<1>1. Unsigned \in Int /\ Unsigned > 0 /\ v \in Int /\ 0 <= v /\ v < Unsigned
  BY SizeAssumption
<1>2. v \div Unsigned = 0
  BY <1>1
<1> QED BY <1>1, <1>2

\* Every field is of one kind, by its key.
LEMMA Kinds ==
  /\ \A f \in Flags  : f[1] \in Sections /\ f[2] \in {"Debug", "Daemon", "Auth"}
  /\ \A f \in Ports  : f[1] \in Sections /\ f[2] \in {"LocalPort", "RemotePort", "RptPort", "Port"}
  /\ \A f \in Counts : f[1] \in Sections
                       /\ f[2] \in {"DisplayLevel", "MQTTLevel", "Keepalive", "SampleRate"}
  /\ \A f \in Texts  : f[1] \in Sections
                       /\ f[2] \in {"LocalAddress", "RemoteAddress", "RptAddress", "Address", "Username",
                                    "Password", "Callsign", "Protocol", "Name", "SquelchFile", "Node"}
<1>1. \A f \in Flags :
        f[1] \in Sections /\ f[2] \in {"Debug", "Daemon", "Auth"}
  BY DEF Flags, Sections
<1>2. \A f \in Ports :
        f[1] \in Sections /\ f[2] \in {"LocalPort", "RemotePort", "RptPort", "Port"}
  BY DEF Ports, Sections
<1>3. \A f \in Counts :
        f[1] \in Sections /\ f[2] \in {"DisplayLevel", "MQTTLevel", "Keepalive", "SampleRate"}
  BY DEF Counts, Sections
<1>4. \A f \in Addresses :
        f[1] \in Sections /\ f[2] \in {"LocalAddress", "RemoteAddress", "RptAddress", "Address"}
  BY DEF Addresses, Sections
<1>5. \A f \in Texts \ Addresses :
        f[1] \in Sections /\ f[2] \in {"Username", "Password", "Callsign", "Protocol", "Name", "SquelchFile", "Node"}
  BY DEF Texts, Sections
<1> QED BY <1>1, <1>2, <1>3, <1>4, <1>5

LEMMA FieldNames == \A f \in Fields : f[1] \in Sections /\ f[2] # ""
BY Kinds DEF Fields

\* What the text of a value denotes is what the member becomes.
LEMMA ConvertedIs ==
  ASSUME NEW f \in Fields, NEW text, NEW value, Denotes(f, text, value)
  PROVE  Converted(f, text) = value
<1>1. CASE f \in Texts
  <2>1. f \notin Flags /\ f \notin Ports /\ f \notin Counts
    BY <1>1, Kinds
  <2> QED BY <1>1, <2>1 DEF Denotes, Converted
<1>2. CASE f \in Flags
  <2>1. f \notin Texts /\ f \notin Ports /\ f \notin Counts
    BY <1>2, Kinds
  <2>2. PICK w \in DOMAIN Numeral : text = << w >> /\ value = (Numeral[w] = 1)
    BY <1>2, <2>1 DEF Denotes
  <2>3. Converted(f, text) = (Number(text) = 1)
    BY <1>2, <2>1 DEF Converted
  <2> QED BY <2>2, <2>3, NumberIs
<1>3. CASE f \in Ports
  <2>1. f \notin Texts /\ f \notin Flags /\ f \notin Counts
    BY <1>3, Kinds
  <2>2. PICK w \in DOMAIN Numeral : text = << w >> /\ value = Numeral[w] /\ value \in PortNumbers
    BY <1>3, <2>1 DEF Denotes
  <2>3. Converted(f, text) = Number(text) % 65536
    BY <1>3, <2>1 DEF Converted
  <2>4. value % 65536 = value
    BY <2>2, PortWidth
  <2> QED BY <2>2, <2>3, <2>4, NumberIs
<1>4. CASE f \in Counts
  <2>1. f \notin Texts /\ f \notin Flags /\ f \notin Ports
    BY <1>4, Kinds
  <2>2. PICK w \in DOMAIN Numeral :
          text = << w >> /\ value = Numeral[w] /\ value \in 0 .. Unsigned - 1
    BY <1>4, <2>1 DEF Denotes
  <2>3. Converted(f, text) = Number(text) % Unsigned
    BY <1>4, <2>1 DEF Converted
  <2>4. value % Unsigned = value
    BY <2>2, CountWidth
  <2> QED BY <2>2, <2>3, <2>4, NumberIs
<1> QED BY <1>1, <1>2, <1>3, <1>4 DEF Fields

\* A line with a value means what it says.
LEMMA SettingMeans ==
  ASSUME NEW line \in Lines, NEW text \in Spelled(line), SettingLine(line)
  PROVE  /\ text[1] \notin Sections \union OtherHeaders \union {"#"}
         /\ Key(text) = << line.key >> /\ RawValue(text) # << >>
         /\ \A f \in Fields : f[2] = line.key => Converted(f, Value(RawValue(text))) = line.value
<1> DEFINE Raw(p) == SubSeq(line.text, p + 2, Len(line.text))
<1>1. PICK p \in 1 .. Len(line.text) - 2 :
        /\ \A i \in 1 .. p - 1 : line.text[i] \in Blanks
        /\ line.text[p] = line.key /\ line.key \notin Separators
        /\ line.text[p + 1] = "="
        /\ \/ Quoted(Raw(p)) /\ MeansValue(line, SubSeq(Raw(p), 2, Len(Raw(p)) - 1))
           \/ /\ ~Quoted(Raw(p))
              /\ \E v \in 0 .. Len(Raw(p)) :
                   PlainValue(Raw(p), v) /\ MeansValue(line, SubSeq(Raw(p), 1, v))
  BY DEF SettingLine
<1>2. line.text[1] \notin Sections \union OtherHeaders \union {"#"}
  BY DEF SettingLine
<1> DEFINE raw == Raw(p)
<1>3. /\ text[1] \notin Sections \union OtherHeaders \union {"#"}
      /\ Key(text) = << line.key >> /\ RawValue(text) = raw /\ raw # << >>
  BY <1>1, <1>2, SettingText
<1>4. raw \in Seq(Tokens)
  <2>1. /\ line.text \in Seq(Tokens) /\ p + 2 \in Nat \ {0}
        /\ Len(line.text) \in (p + 2) - 1 .. Len(line.text)
    BY Spelling
  <2> QED BY <2>1, Part
<1> HIDE DEF Raw
<1>5. MeansValue(line, Value(raw))
  <2>1. CASE Quoted(raw)
    <3>1. Value(raw) = SubSeq(raw, 2, Len(raw) - 1)
      BY <2>1 DEF Value
    <3> QED BY <1>1, <2>1, <3>1
  <2>2. CASE ~Quoted(raw)
    <3>1. PICK v \in 0 .. Len(raw) : PlainValue(raw, v) /\ MeansValue(line, SubSeq(raw, 1, v))
      BY <1>1, <2>2
    <3>2. Value(raw) = SubSeq(raw, 1, v)
      BY <1>4, <2>2, <3>1, PlainText
    <3> QED BY <3>1, <3>2
  <2> QED BY <2>1, <2>2
<1>6. \A f \in Fields : f[2] = line.key => Converted(f, Value(raw)) = line.value
  BY <1>5, ConvertedIs DEF MeansValue
<1> QED BY <1>3, <1>6

-----------------------------------------------------------------------------
(***************************************************************************)
(* The file                                                                *)
(***************************************************************************)
\* The lines that have been read.
Done == Len(file) - Len(rest)

SayingSoFar(field, k) == { i \in Saying(field) : i <= k }

Meaning(field, k) ==
  IF SayingSoFar(field, k) = {} THEN Default[field] ELSE file[Max(SayingSoFar(field, k))].value

Texting == UNION { Spelled(line) : line \in Lines }

FileType ==
  /\ file \in Seq(Lines)
  /\ rest \in Seq(Texting) /\ Len(rest) <= Len(file)

\* What is left of the file is the lines that have not been read.
RestIsLines == \A i \in 1 .. Len(rest) : rest[i] \in Spelled(file[Done + i])

SectionIsRead == section = IF Within(Done) \in Sections THEN Within(Done) ELSE "NONE"

ConfIsRead == \A f \in Fields : conf[f] = Meaning(f, Done)

\* So far the file means what it says.
CInv == FileType /\ RestIsLines /\ SectionIsRead /\ ConfIsRead

\* The section that a line is in is the one it begins, or that of the line
\* before.
LEMMA WithinNext ==
  ASSUME FileType, NEW k \in Nat, k + 1 <= Len(file)
  PROVE  Within(k + 1) = IF file[k + 1].begins # "" THEN file[k + 1].begins ELSE Within(k)
<1> DEFINE B(j) == file[j].begins # ""
           H(i) == { j \in 1 .. i : B(j) }
<1> HIDE DEF B
<1>1. CASE B(k + 1)
  <2>1. H(k + 1) \in SUBSET Int /\ k + 1 \in H(k + 1) /\ \A j \in H(k + 1) : j <= k + 1
    BY <1>1
  <2> HIDE DEF H
  <2>2. Max(H(k + 1)) = k + 1 /\ H(k + 1) # {}
    BY <2>1, MaxIs
  <2> QED BY <1>1, <2>2 DEF Within, H, B
<1>2. CASE ~B(k + 1)
  <2>1. \A j \in 1 .. k + 1 : B(j) => j \in 1 .. k
    BY <1>2
  <2>2. 1 .. k \subseteq 1 .. k + 1
    OBVIOUS
  <2>3. H(k + 1) = H(k)
    BY <2>1, <2>2
  <2> HIDE DEF H
  <2> QED BY <1>2, <2>3 DEF Within, H, B
<1> QED BY <1>1, <1>2

\* A line gives a value to the fields of its key in its section, and to no
\* other.
LEMMA MeaningNext ==
  ASSUME FileType, NEW k \in Nat, k + 1 <= Len(file), NEW f \in Fields
  PROVE  Meaning(f, k + 1) = IF file[k + 1].key = f[2] /\ Within(k + 1) = f[1]
                             THEN file[k + 1].value ELSE Meaning(f, k)
<1>1. k + 1 \in DOMAIN file /\ DOMAIN file \subseteq Nat
  BY LenProperties DEF FileType
<1>2. Saying(f) \subseteq DOMAIN file
  BY DEF Saying
<1>3. k + 1 \in Saying(f) <=> file[k + 1].key = f[2] /\ Within(k + 1) = f[1]
  BY <1>1 DEF Saying
<1>4. CASE k + 1 \in Saying(f)
  <2> DEFINE S == SayingSoFar(f, k + 1)
  <2>1. S \in SUBSET Int /\ k + 1 \in S /\ \A i \in S : i <= k + 1
    BY <1>1, <1>2, <1>4 DEF SayingSoFar
  <2> HIDE DEF S
  <2>2. Max(S) = k + 1 /\ S # {}
    BY <2>1, MaxIs
  <2> QED BY <1>3, <1>4, <2>2 DEF Meaning, S
<1>5. CASE k + 1 \notin Saying(f)
  <2>1. SayingSoFar(f, k + 1) = SayingSoFar(f, k)
    BY <1>1, <1>2, <1>5 DEF SayingSoFar
  <2> QED BY <1>3, <1>5, <2>1 DEF Meaning
<1> QED BY <1>4, <1>5

LEMMA ReadingBegins == Init => CInv
<1> SUFFICES ASSUME Init PROVE CInv
  OBVIOUS
<1>1. file \in Seq(Lines) /\ Len(file) \in Nat /\ DOMAIN file = 1 .. Len(file)
  <2>1. PICK n \in 0 .. MaxLines : file \in [1 .. n -> Lines]
    BY DEF Init
  <2>2. n \in Nat
    BY SizeAssumption
  <2>3. file \in Seq(Lines)
    BY <2>1, <2>2
  <2> QED BY <2>3, LenProperties
<1>2. PICK end \in EndsOfLine :
        \/ rest = Texted(file, end)
        \/ /\ file # << >> /\ Last(file).text # << >>
           /\ rest = [Texted(file, end) EXCEPT ![Len(file)] = Last(file).text]
  BY DEF Init
<1>3. end \in Seq(Tokens) /\ end # << >> /\ << >> \in Seq(Tokens)
  <2>1. "\n" \in Tokens /\ "\r" \in Tokens
    BY DEF Tokens, Ends
  <2>2. CASE end = << "\n" >>
    BY <2>1, <2>2
  <2>3. CASE end = << "\r", "\n" >>
    BY <2>1, <2>3
  <2> QED BY <2>2, <2>3 DEF EndsOfLine
<1>4. \A i \in 1 .. Len(file) :
        /\ file[i] \in Lines /\ file[i].text \in Seq(STRING)
        /\ file[i].text \o end \in Spelled(file[i])
        /\ file[i].text # << >> => file[i].text \in Spelled(file[i])
  <2> TAKE i \in 1 .. Len(file)
  <2>1. file[i] \in Lines
    BY <1>1
  <2>2. file[i].text \in Seq(STRING) /\ file[i].text \in Seq(Tokens)
    <3>1. Seq(STRING) \subseteq Seq(Tokens)
      BY DEF Tokens
    <3> QED BY <2>1, <3>1, LineAssumption
  <2>3. file[i].text \o end # << >>
    <3>1. Len(end) # 0 /\ Len(end) \in Nat /\ Len(file[i].text) \in Nat
      BY <1>3, <2>2, LenProperties
    <3>2. Len(file[i].text \o end) = Len(file[i].text) + Len(end)
      BY <1>3, <2>2, ConcatProperties
    <3>3. Len(file[i].text \o end) # 0
      BY <3>1, <3>2
    <3> QED BY <3>3
  <2>4. file[i].text \o << >> = file[i].text
    BY <2>2, ConcatEmptySeq
  <2> QED BY <2>1, <2>2, <2>3, <2>4 DEF Spelled
<1>5. /\ rest \in [1 .. Len(file) -> Texting]
      /\ \A i \in 1 .. Len(file) : rest[i] \in Spelled(file[i])
  <2> DEFINE all == Texted(file, end)
  <2>1. all = [i \in 1 .. Len(file) |-> file[i].text \o end]
    BY <1>1 DEF Texted
  <2>2. CASE rest = all
    BY <1>4, <2>1, <2>2 DEF Texting
  <2>3. CASE /\ file # << >> /\ Last(file).text # << >>
             /\ rest = [all EXCEPT ![Len(file)] = Last(file).text]
    <3>1. Len(file) \in 1 .. Len(file) /\ Last(file) = file[Len(file)]
      BY <1>1, <2>3 DEF Last
    <3>2. Last(file).text \in Spelled(file[Len(file)])
      BY <1>4, <2>3, <3>1
    <3> HIDE DEF all
    <3>3. rest = [i \in 1 .. Len(file) |-> IF i = Len(file) THEN Last(file).text ELSE all[i]]
      BY <2>1, <2>3
    <3>4. \A i \in 1 .. Len(file) : rest[i] \in Spelled(file[i])
      BY <1>4, <2>1, <3>2, <3>3
    <3> QED BY <1>4, <3>3, <3>4 DEF Texting
  <2> QED BY <1>2, <2>2, <2>3
<1>6. rest \in Seq(Texting) /\ Len(rest) = Len(file) /\ Done = 0
  BY <1>1, <1>5 DEF Done
<1>7. FileType
  BY <1>1, <1>6 DEF FileType
<1>8. RestIsLines
  BY <1>1, <1>5, <1>6 DEF RestIsLines
<1>9. SectionIsRead
  <2>1. Within(0) = "NONE"
    BY DEF Within
  <2> QED BY <1>6, <2>1 DEF SectionIsRead, Init
<1>10. ConfIsRead
  <2>1. ASSUME NEW f \in Fields PROVE Meaning(f, 0) = Default[f]
    <3>1. SayingSoFar(f, 0) = {}
      BY <1>1 DEF SayingSoFar, Saying
    <3> QED BY <3>1 DEF Meaning
  <2> QED BY <1>6, <2>1 DEF ConfIsRead, Init
<1> QED BY <1>7, <1>8, <1>9, <1>10 DEF CInv

\* fgets() reads the whole line that comes next.
LEMMA NextLine ==
  ASSUME CInv, ReadLine
  PROVE  /\ Done \in Nat /\ Done + 1 <= Len(file) /\ Done' = Done + 1 /\ file' = file
         /\ file[Done + 1] \in Lines /\ Head(rest) \in Spelled(file[Done + 1])
         /\ Comment(Head(rest)) \/ Header(Head(rest)) \/ Assignment(Head(rest))
         /\ FileType' /\ RestIsLines'
<1> DEFINE text == Head(rest)
<1>1. rest \in Seq(Texting) /\ rest # << >> /\ Len(rest) \in 1 .. Len(file) /\ Len(file) \in Nat
  <2>1. rest \in Seq(Texting) /\ rest # << >>
    BY DEF ReadLine, CInv, FileType
  <2>2. Len(rest) \in Nat /\ Len(rest) # 0
    BY <2>1, LenProperties
  <2>3. Len(file) \in Nat /\ Len(rest) <= Len(file)
    BY LenProperties DEF CInv, FileType
  <2> QED BY <2>1, <2>2, <2>3
<1>2. Done \in Nat /\ Done + 1 \in 1 .. Len(file)
  BY <1>1 DEF Done
<1>3. file[Done + 1] \in Lines
  BY <1>2 DEF CInv, FileType
<1>4. text \in Spelled(file[Done + 1])
  <2>1. text = rest[1]
    BY <1>1
  <2> QED BY <1>1, <2>1 DEF CInv, RestIsLines
<1>5. text \in Seq(Tokens) /\ Len(text) \in Nat \ {0} /\ Len(text) < BufferSize
  BY <1>3, <1>4, Spelling
<1> HIDE DEF text
<1>6. LineLength(text) = Len(text)
  <2> DEFINE S == {Len(text), BufferSize - 1}
  <2>1. S \in SUBSET Int /\ Len(text) \in S /\ \A y \in S : Len(text) <= y
    BY <1>5, SizeAssumption
  <2> HIDE DEF S
  <2>2. Min(S) = Len(text)
    BY <2>1, MinIs
  <2> QED BY <2>2 DEF LineLength, S
<1>7. SubSeq(text, 1, LineLength(text)) = text
  BY <1>5, <1>6, SubSeqFull
<1>8. /\ Comment(text) \/ Header(text) \/ Assignment(text)
      /\ rest' = Tail(rest) /\ file' = file
  BY <1>6, <1>7 DEF ReadLine, text
<1>9. /\ rest' \in Seq(Texting) /\ Len(rest') = Len(rest) - 1
      /\ \A i \in 1 .. Len(rest') : rest'[i] = rest[i + 1]
  BY <1>1, <1>8, HeadTailProperties
<1>10. Done' = Done + 1
  BY <1>1, <1>8, <1>9 DEF Done
<1>11. FileType'
  BY <1>1, <1>8, <1>9 DEF CInv, FileType
<1>12. RestIsLines'
  <2>1. ASSUME NEW i \in 1 .. Len(rest') PROVE rest'[i] \in Spelled(file[Done + 1 + i])
    <3>1. i + 1 \in 1 .. Len(rest) /\ Done + 1 + i = Done + (i + 1)
      BY <1>1, <1>2, <1>9
    <3>2. rest[i + 1] \in Spelled(file[Done + (i + 1)])
      BY <3>1 DEF CInv, RestIsLines
    <3> QED BY <1>9, <3>1, <3>2
  <2> QED BY <1>8, <1>10, <2>1 DEF RestIsLines, Spelled
<1> QED BY <1>2, <1>3, <1>4, <1>8, <1>10, <1>11, <1>12 DEF text

\* A line leaves the section and the members at what the file means so far.
LEMMA LineIsRead ==
  ASSUME CInv, ReadLine
  PROVE  CInv'
<1> DEFINE text == Head(rest)
           k    == Done
           line == file[k + 1]
<1>1. /\ k \in Nat /\ k + 1 <= Len(file) /\ Done' = k + 1 /\ file' = file
      /\ line \in Lines /\ text \in Spelled(line)
      /\ Comment(text) \/ Header(text) \/ Assignment(text)
      /\ FileType' /\ RestIsLines'
  BY NextLine
<1>2. \A i : Within(i)' = Within(i)
  BY <1>1 DEF Within
<1>3. Within(k + 1) = IF line.begins # "" THEN line.begins ELSE Within(k)
  BY <1>1, WithinNext DEF CInv
<1>4. \A f \in Fields : Meaning(f, Done)' =
        IF line.key = f[2] /\ Within(k + 1) = f[1] THEN line.value ELSE conf[f]
  <2> TAKE f \in Fields
  <2>1. Meaning(f, Done)' = Meaning(f, k + 1)
    BY <1>1 DEF Meaning, SayingSoFar, Saying, Within
  <2>2. conf[f] = Meaning(f, k)
    BY DEF CInv, ConfIsRead
  <2> QED BY <1>1, <2>1, <2>2, MeaningNext DEF CInv
<1>5. SectionIsRead' <=> section' = IF Within(k + 1) \in Sections THEN Within(k + 1) ELSE "NONE"
  BY <1>1, <1>2 DEF SectionIsRead
<1>6. ConfIsRead' <=> \A f \in Fields : conf'[f] = Meaning(f, Done)'
  BY DEF ConfIsRead
<1>7. section = IF Within(k) \in Sections THEN Within(k) ELSE "NONE"
  BY DEF CInv, SectionIsRead
<1> HIDE DEF text, k, line
<1>8. CASE HeaderLine(line)
  <2>1. text[1] = line.begins /\ text[1] \in Sections \union OtherHeaders /\ line.key = ""
    BY <1>1, <1>8, HeaderText DEF HeaderLine
  <2>2. text[1] # "#" /\ line.begins # ""
    BY <2>1, HeaderAssumption DEF Sections
  <2>3. Header(text)
    BY <1>1, <2>1, <2>2 DEF Comment, Assignment
  <2>4. \A f \in Fields : conf'[f] = Meaning(f, Done)'
    BY <1>4, <2>1, <2>3, FieldNames DEF Header
  <2> QED BY <1>1, <1>3, <1>5, <1>6, <2>1, <2>2, <2>3, <2>4 DEF CInv, Header
<1>9. CASE SilentLine(line)
  <2>1. line.key = "" /\ line.begins = ""
    BY <1>9 DEF SilentLine
  <2>2. section' = section
    BY <1>1, <1>9, SilentText, Distinct DEF Comment, Header, Assignment
  <2>3. \A f \in Fields : conf'[f] = conf[f]
    <3>1. CASE Comment(text)
      BY <3>1 DEF Comment
    <3>2. CASE Assignment(text) /\ text[1] # "#"
      <4>1. Key(text) = << >> \/ RawValue(text) = << >>
        BY <1>1, <1>9, <3>2, SilentText
      <4>2. \A f \in Fields : << f[2] >> # << >>
        OBVIOUS
      <4> QED BY <3>2, <4>1, <4>2 DEF Assignment, Assigned
    <3> QED BY <1>1, <1>9, <3>1, <3>2, SilentText, Distinct DEF Header, Assignment
  <2>4. \A f \in Fields : conf'[f] = Meaning(f, Done)'
    BY <1>4, <2>1, <2>3, FieldNames
  <2> QED BY <1>1, <1>3, <1>5, <1>6, <1>7, <2>1, <2>2, <2>4 DEF CInv
<1>10. CASE SettingLine(line)
  <2>1. /\ text[1] \notin Sections \union OtherHeaders \union {"#"}
        /\ Key(text) = << line.key >> /\ RawValue(text) # << >>
        /\ \A f \in Fields : f[2] = line.key => Converted(f, Value(RawValue(text))) = line.value
    BY <1>1, <1>10, SettingMeans
  <2>2. line.begins = ""
    BY <1>10 DEF SettingLine
  <2>3. Assignment(text)
    BY <1>1, <2>1 DEF Comment, Header
  <2>4. ASSUME NEW f \in Fields PROVE conf'[f] = Meaning(f, Done)'
    <3>1. f[1] = section <=> f[1] = Within(k + 1)
      <4>1. f[1] \in Sections /\ "NONE" \notin Sections
        BY FieldNames DEF Sections
      <4> QED BY <1>3, <1>7, <2>2, <4>1
    <3>2. << f[2] >> = Key(text) <=> f[2] = line.key
      BY <2>1
    <3>3. conf'[f] = IF f[1] = section /\ << f[2] >> = Key(text)
                     THEN Converted(f, Value(RawValue(text))) ELSE conf[f]
      BY <2>1, <2>3 DEF Assignment, Assigned
    <3> QED BY <1>4, <2>1, <3>1, <3>2, <3>3
  <2> QED BY <1>1, <1>3, <1>5, <1>6, <1>7, <2>2, <2>3, <2>4 DEF CInv, Assignment
<1> QED BY <1>1, <1>8, <1>9, <1>10, LineAssumption

\* A file of any length, whatever its lines mean, in whichever order and with
\* either end of a line, gives every member the value that its last line for
\* it says (Conf.cpp:87-237).
THEOREM FileMeansWhatItSays == Spec => []MeansWhatItSays
<1>1. Init => CInv
  BY ReadingBegins
<1>2. CInv /\ [Next]_vars => CInv'
  <2> SUFFICES ASSUME CInv, [Next]_vars PROVE CInv'
    OBVIOUS
  <2>1. CASE ReadLine
    BY <2>1, LineIsRead
  <2>2. CASE UNCHANGED vars
    <3>1. file' = file /\ rest' = rest /\ section' = section /\ conf' = conf
      BY <2>2 DEF vars
    <3>2. FileType' /\ RestIsLines' /\ SectionIsRead'
      BY <3>1 DEF CInv, FileType, RestIsLines, SectionIsRead, Done, Within
    <3>3. ASSUME NEW f \in Fields PROVE Meaning(f, Done)' = Meaning(f, Done)
      BY <3>1 DEF Meaning, SayingSoFar, Saying, Within, Done
    <3>4. ConfIsRead'
      BY <3>1, <3>3 DEF CInv, ConfIsRead
    <3> QED BY <3>2, <3>4 DEF CInv
  <2> QED BY <2>1, <2>2 DEF Next, Finished
<1>3. CInv => MeansWhatItSays
  <2> SUFFICES ASSUME CInv, rest = << >>, NEW f \in Fields
               PROVE  conf[f] = IF Saying(f) = {} THEN Default[f] ELSE file[Max(Saying(f))].value
    BY DEF MeansWhatItSays
  <2>1. Done = Len(file) /\ DOMAIN file = 1 .. Len(file)
    BY LenProperties DEF CInv, FileType, Done
  <2>2. SayingSoFar(f, Len(file)) = Saying(f)
    BY <2>1 DEF SayingSoFar, Saying
  <2> QED BY <2>1, <2>2 DEF CInv, ConfIsRead, Meaning
<1> QED BY <1>1, <1>2, <1>3, PTL DEF Spec
=============================================================================
