------------------------------- MODULE MCConf -------------------------------
(***************************************************************************)
(* Conf with files of up to three of fourteen lines: two sections, one     *)
(* that is not known, a comment and an empty line, and values that are     *)
(* plain, quoted, commented, empty, blank at the end, missing, numbers and *)
(* flags.                                                                  *)
(***************************************************************************)
EXTENDS Conf

Nothing(text) == [text |-> text, begins |-> "", key |-> "", value |-> << >>]

Begins(word, name) == [text |-> << word >>, begins |-> name, key |-> "", value |-> << >>]

Says(text, key, value) == [text |-> text, begins |-> "", key |-> key, value |-> value]

MCLines ==
  { Begins("[General]", "[General]"), Begins("[RAW Network]", "[RAW Network]"),
    Begins("[Elsewhere]", "[Elsewhere]"),
    Nothing(<< "#", "Debug", "=", "1" >>), Nothing(<< >>),
    Nothing(<< "Protocol", "=" >>),
    Says(<< "Protocol", "=", "RAW" >>, "Protocol", << "RAW" >>),
    Says(<< "Protocol", "=", "IAX", " ", "#", "or", " ", "RAW" >>, "Protocol", << "IAX" >>),
    Says(<< "SquelchFile", "=", "\"", "a", "#", "b", "\"" >>, "SquelchFile", << "a", "#", "b" >>),
    Says(<< "SquelchFile", "=", "\"", "\"" >>, "SquelchFile", << >>),
    Says(<< "RemotePort", "=", "70", "\t" >>, "RemotePort", 70),
    Says(<< "SampleRate", "=", "70" >>, "SampleRate", 70),
    Says(<< " ", "Debug", "=", "1" >>, "Debug", TRUE),
    Says(<< "Debug", "=", "0", "#", "1" >>, "Debug", FALSE) }

MCNumeral == [w \in {"0", "1", "70"} |-> CASE w = "0" -> 0 [] w = "1" -> 1 [] w = "70" -> 70]
=============================================================================
