------------------------------- MODULE Conf ---------------------------------
(***************************************************************************)
(* CConf::read() (Conf.cpp): the .ini file, read line by line.  The text   *)
(* is a sequence of tokens: a character that read() looks for, or a word   *)
(* of others; a header such as "[General]" is one word.                    *)
(*                                                                         *)
(* A line of the constant Lines has its text, without the end of line, and *)
(* what its author means by it: the section it begins, or the key it gives *)
(* a value.                                                                *)
(***************************************************************************)
EXTENDS Integers, SequencesExt, FiniteSetsExt

CONSTANTS Lines,        \* records [text, begins, key, value]
          MaxLines,     \* bound: the lines of a file
          OtherHeaders, \* words that begin with a bracket and are no section
          Numeral,      \* what atoi() makes of a word, 0 if it is not in the domain
          BufferSize,   \* BUFFER_SIZE
          Unsigned      \* the values of an unsigned int: 2^32

Sections == {"[General]", "[Log]", "[MQTT]", "[Network]", "[USRP Network]",
             "[RAW Network]", "[IAX Network]"}

\* The members of CConf, by section and key.
Flags ==
  {"[General]", "[Network]", "[USRP Network]", "[RAW Network]", "[IAX Network]"} \X {"Debug"}
  \union {"[General]"} \X {"Daemon"} \union {"[MQTT]"} \X {"Auth"}

Ports ==
  {"[USRP Network]", "[RAW Network]", "[IAX Network]"} \X {"LocalPort", "RemotePort"}
  \union {"[Network]"} \X {"LocalPort", "RptPort"} \union {"[MQTT]"} \X {"Port"}

Counts ==
  {"[Log]"} \X {"DisplayLevel", "MQTTLevel"} \union {"[MQTT]"} \X {"Keepalive"}
  \union {"[RAW Network]"} \X {"SampleRate"}

Addresses ==
  {"[USRP Network]", "[RAW Network]", "[IAX Network]"} \X {"LocalAddress", "RemoteAddress"}
  \union {"[Network]"} \X {"LocalAddress", "RptAddress"} \union {"[MQTT]"} \X {"Address"}

Texts ==
  Addresses \union {"[MQTT]", "[IAX Network]"} \X {"Username", "Password"}
  \union {"[General]"} \X {"Callsign", "Protocol"} \union {"[MQTT]"} \X {"Name"}
  \union {"[RAW Network]"} \X {"SquelchFile"} \union {"[IAX Network]"} \X {"Node"}

Fields == Flags \union Ports \union Counts \union Texts

Default == [f \in Fields |->
  CASE f \in Flags -> FALSE
    [] f = << "[MQTT]", "Port" >> -> 1883
    [] f = << "[MQTT]", "Keepalive" >> -> 60
    [] f = << "[RAW Network]", "SampleRate" >> -> 8000
    [] f \in (Ports \union Counts) \ { << "[MQTT]", "Port" >>, << "[MQTT]", "Keepalive" >>,
                                       << "[RAW Network]", "SampleRate" >> } -> 0
    [] f \in Addresses -> << "127.0.0.1" >>
    [] f = << "[General]", "Protocol" >> -> << "USRP" >>
    [] f = << "[MQTT]", "Name" >> -> << "fm-gateway" >>
    [] OTHER -> << >>]

-----------------------------------------------------------------------------
(***************************************************************************)
(* What the author of a file may write.  The lines of FMGateway.ini are of *)
(* these forms.                                                            *)
(***************************************************************************)
Blanks == {" ", "\t"}
Ends == {"\r", "\n"}
Separators == Blanks \union Ends \union {"="}
EndsOfLine == {<< "\n" >>, << "\r", "\n" >>}

Quoted(raw) == Len(raw) > 1 /\ raw[1] = "\"" /\ raw[Len(raw)] = "\""

\* A value of a line and what is left of it: blanks, then a comment or nothing.
PlainValue(raw, v) ==
  /\ \A i \in 1 .. v : raw[i] # "#"
  /\ v = 0 \/ raw[v] \notin Blanks
  /\ \E c \in v + 1 .. Len(raw) + 1 :
       /\ \A i \in v + 1 .. c - 1 : raw[i] \in Blanks
       /\ c = Len(raw) + 1 \/ raw[c] = "#"

PortNumbers == 0 .. 65535

\* What the text of a value means to a member.
Denotes(field, text, value) ==
  CASE field \in Texts  -> value = text
    [] field \in Flags  -> \E w \in DOMAIN Numeral : text = << w >> /\ value = (Numeral[w] = 1)
    [] field \in Ports  -> \E w \in DOMAIN Numeral :
                             text = << w >> /\ value = Numeral[w] /\ value \in PortNumbers
    [] field \in Counts -> \E w \in DOMAIN Numeral :
                             text = << w >> /\ value = Numeral[w] /\ value \in 0 .. Unsigned - 1

MeansValue(line, text) == \A f \in Fields : f[2] = line.key => Denotes(f, text, line.value)

HeaderLine(line) ==
  /\ line.text # << >> /\ line.text[1] \in Sections \union OtherHeaders
  /\ line.begins = line.text[1] /\ line.key = ""

\* A comment, blanks, or a key without a value.
SilentLine(line) ==
  /\ line.begins = "" /\ line.key = ""
  /\ \/ line.text # << >> /\ line.text[1] = "#"
     \/ \A i \in DOMAIN line.text : line.text[i] \in Separators
     \/ /\ Len(line.text) = 2 /\ line.text[2] = "="
        /\ line.text[1] \notin Separators \union Sections \union OtherHeaders

\* Key=Value, after blanks or none.
SettingLine(line) ==
  /\ line.begins = "" /\ line.text # << >>
  /\ line.text[1] \notin Sections \union OtherHeaders \union {"#"}
  /\ \E p \in 1 .. Len(line.text) - 2 :
       LET raw == SubSeq(line.text, p + 2, Len(line.text))
       IN  /\ \A i \in 1 .. p - 1 : line.text[i] \in Blanks
           /\ line.text[p] = line.key /\ line.key \notin Separators
           /\ line.text[p + 1] = "="
           /\ \/ Quoted(raw) /\ MeansValue(line, SubSeq(raw, 2, Len(raw) - 1))
              \/ /\ ~Quoted(raw)
                 /\ \E v \in 0 .. Len(raw) :
                      PlainValue(raw, v) /\ MeansValue(line, SubSeq(raw, 1, v))

ASSUME LineAssumption ==
  \A line \in Lines :
    /\ line.text \in Seq(STRING) /\ Len(line.text) + 2 < BufferSize
    /\ \A i \in DOMAIN line.text : line.text[i] \notin Ends
    /\ HeaderLine(line) \/ SilentLine(line) \/ SettingLine(line)

ASSUME SizeAssumption == MaxLines \in Nat /\ BufferSize \in Nat /\ Unsigned \in Nat \ {0}

\* A header is one word, that begins with a bracket.
ASSUME HeaderAssumption == OtherHeaders \intersect (Separators \union {"#", ""} \union Sections) = {}

ASSUME NumeralAssumption ==
  DOMAIN Numeral \intersect Blanks = {} /\ \A w \in DOMAIN Numeral : Numeral[w] \in Int

-----------------------------------------------------------------------------
VARIABLES file,         \* the lines of the file
          rest,         \* the text that has not been read, by lines
          section,      \* the section of the line to come
          conf          \* the members of CConf

vars == << file, rest, section, conf >>

-----------------------------------------------------------------------------
(***************************************************************************)
(* The functions of the C library                                          *)
(***************************************************************************)
\* strchr() and strtok(): the first place from i on whose token is in
\* chars, or that has none of them.
FirstIn(text, i, chars) == Min({ j \in i .. Len(text) : text[j] \in chars } \union {Len(text) + 1})

FirstNotIn(text, i, chars) == Min({ j \in i .. Len(text) : text[j] \notin chars } \union {Len(text) + 1})

\* fgets(): what is left of a line, or as much of it as the buffer holds.
LineLength(text) == Min({Len(text), BufferSize - 1})

\* atoi()
Number(value) ==
  LET i == FirstNotIn(value, 1, Blanks)
  IN  IF i <= Len(value) /\ value[i] \in DOMAIN Numeral THEN Numeral[value[i]] ELSE 0

-----------------------------------------------------------------------------
(***************************************************************************)
(* A line with a key and a value                                           *)
(***************************************************************************)
KeyBegin(line) == FirstNotIn(line, 1, Separators)
KeyEnd(line) == FirstIn(line, KeyBegin(line), Separators)
Key(line) == SubSeq(line, KeyBegin(line), KeyEnd(line) - 1)

\* The one separator that ended the key is gone; any other stays.
RawValue(line) ==
  LET begin == FirstNotIn(line, KeyEnd(line) + 1, Ends)
  IN  SubSeq(line, begin, FirstIn(line, begin, Ends) - 1)

Trimmed(value) ==
  SubSeq(value, 1, Max({0} \union { i \in DOMAIN value : value[i] \notin Blanks }))

\* A value in quotes is left alone, any other loses its comment and the
\* blanks at its end.
Value(raw) ==
  IF Quoted(raw)
  THEN SubSeq(raw, 2, Len(raw) - 1)
  ELSE Trimmed(SubSeq(raw, 1, FirstIn(raw, 1, {"#"}) - 1))

Converted(field, value) ==
  CASE field \in Flags -> Number(value) = 1
    [] field \in Ports -> Number(value) % 65536
    [] field \in Counts -> Number(value) % Unsigned
    [] field \in Texts -> value

\* A key that the section does not have is ignored.
Assigned(line) ==
  [f \in Fields |->
     IF f[1] = section /\ << f[2] >> = Key(line) /\ RawValue(line) # << >>
     THEN Converted(f, Value(RawValue(line))) ELSE conf[f]]

-----------------------------------------------------------------------------
\* The file on the disk: lines with their ends, the last one perhaps without.
Texted(lines, end) == [i \in DOMAIN lines |-> lines[i].text \o end]

Init ==
  /\ \E n \in 0 .. MaxLines : file \in [1 .. n -> Lines]
  /\ \E end \in EndsOfLine :
       \/ rest = Texted(file, end)
       \/ /\ file # << >> /\ Last(file).text # << >>
          /\ rest = [Texted(file, end) EXCEPT ![Len(file)] = Last(file).text]
  /\ section = "NONE"
  /\ conf = Default

Comment(line) == line[1] = "#" /\ UNCHANGED << section, conf >>

\* Variant of Header that ignores a section it does not know.
HeaderKnown(line) ==
  /\ line[1] \in Sections \union OtherHeaders
  /\ section' = IF line[1] \in Sections THEN line[1] ELSE section
  /\ UNCHANGED conf

Header(line) ==
  /\ line[1] \in Sections \union OtherHeaders
  /\ section' = IF line[1] \in Sections THEN line[1] ELSE "NONE"
  /\ UNCHANGED conf

Assignment(line) ==
  /\ line[1] \notin Sections \union OtherHeaders \union {"#"}
  /\ conf' = Assigned(line)
  /\ UNCHANGED section

\* One turn of the loop over fgets().
ReadLine ==
  /\ rest # << >>
  /\ LET text == Head(rest)
         n    == LineLength(text)
         line == SubSeq(text, 1, n)
     IN  /\ Comment(line) \/ Header(line) \/ Assignment(line)
         /\ rest' = IF n = Len(text) THEN Tail(rest)
                    ELSE << SubSeq(text, n + 1, Len(text)) >> \o Tail(rest)
  /\ UNCHANGED file

Finished == rest = << >> /\ UNCHANGED vars

Next == ReadLine \/ Finished

Spec == Init /\ [][Next]_vars
-----------------------------------------------------------------------------
(***************************************************************************)
(* Properties                                                              *)
(***************************************************************************)
\* The section that the author of the file has the line in, and the lines
\* that give the field a value.
Within(i) ==
  LET headers == { j \in 1 .. i : file[j].begins # "" }
  IN  IF headers = {} THEN "NONE" ELSE file[Max(headers)].begins

Saying(field) == { i \in DOMAIN file : file[i].key = field[2] /\ Within(i) = field[1] }

\* When the file has been read, every member has the value that the last
\* line for it gives it, and the others have their defaults: comments, blank
\* lines, sections that are not known and repeated ones, quotes, trailing
\* blanks and either end of a line make no difference (Conf.cpp:98-231).
MeansWhatItSays ==
  rest = << >> =>
    \A f \in Fields :
      conf[f] = IF Saying(f) = {} THEN Default[f] ELSE file[Max(Saying(f))].value
=============================================================================
