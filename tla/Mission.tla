------------------------------ MODULE Mission ------------------------------
(***************************************************************************)
(* Missions::new of src/mission.rs: the global options and the values of   *)
(* every --encoding are parsed, completed with defaults and made into one  *)
(* mission per encoding, in a loop that the first error ends.              *)
(*                                                                         *)
(* A text on the command line is modelled by what a parser can tell of it: *)
(* it is absent or empty, a number, or something else.  A filter may also  *)
(* be a word.  Words are sequences of pieces, cut where two alias names    *)
(* first differ; a filter's value is the name of its constant.             *)
(* (A text whose first two bytes end inside a character is none of these:  *)
(* both macros slice them off to look for "0x", which panics there, before *)
(* any input is read.)                                                     *)
(***************************************************************************)
EXTENDS Naturals, Sequences, SequencesExt

CONSTANTS
    Labels,       \* the names for which encoding_rs has an encoding
    FlagChoices,  \* the sets of global options that may be given
    EncTexts,     \* the values --encoding may be given
    MaxEncodings  \* bound: how often it is given

Absent    == [kind |-> "absent"]            \* no text, or an empty one
Number(n) == [kind |-> "number", n |-> n]
Word(w)   == [kind |-> "word", w |-> w]     \* no number

Texts == {Absent} \cup [kind : {"number"}, n : Nat] \cup [kind : {"word"}, w : Seq(STRING)]

GlobalOptions == [ counter_offset : Texts, chars_min : Texts,
                   same_unicode_block : BOOLEAN, ascii_filter : Texts,
                   unicode_block_filter : Texts, grep_char : Texts,
                   output_line_len : Texts ]

\* A value of --encoding: its name, four more texts, and whether there is a sixth.
IsEncodingOption(e) ==
    /\ DOMAIN e = {"name", "chars_min", "ascii_filter", "unicode_block_filter",
                   "grep_char", "more"}
    /\ {e.chars_min, e.ascii_filter, e.unicode_block_filter, e.grep_char} \subseteq Texts
    /\ e.more \in BOOLEAN

ASSUME MissionAssumption ==
    /\ FlagChoices \subseteq GlobalOptions
    /\ \A e \in EncTexts : IsEncodingOption(e)
    /\ MaxEncodings \in Nat

\* The words are cut into pieces such that a user's text is a prefix of an alias
\* name exactly if its pieces are a prefix of the name's pieces.
Alias(name, value) == [name |-> name, value |-> value]

\* Mutant: the longer name comes first.
ASCII_FILTER_ALIASSE_by_length ==
    << Alias(<<"A", "ll", "-Ctrl", "+Wsp">>, "AF_ALL & !AF_CTRL | AF_WHITESPACE"),
       Alias(<<"A", "ll", "-Ctrl">>, "AF_ALL & !AF_CTRL"),
       Alias(<<"A", "ll">>, "AF_ALL"),
       Alias(<<"Default">>, "AF_ALL & !AF_CTRL"),
       Alias(<<"None">>, "AF_NONE"),
       Alias(<<"Wsp">>, "AF_WHITESPACE") >>

ASCII_FILTER_ALIASSE ==
    << Alias(<<"A", "ll">>, "AF_ALL"),
       Alias(<<"A", "ll", "-Ctrl">>, "AF_ALL & !AF_CTRL"),
       Alias(<<"A", "ll", "-Ctrl", "+Wsp">>, "AF_ALL & !AF_CTRL | AF_WHITESPACE"),
       Alias(<<"Default">>, "AF_ALL & !AF_CTRL"),
       Alias(<<"None">>, "AF_NONE"),
       Alias(<<"Wsp">>, "AF_WHITESPACE") >>

UNICODE_BLOCK_FILTER_ALIASSE ==
    << Alias(<<"A", "frican">>, "UBF_AFRICAN"),
       Alias(<<"A", "ll", "-Asian">>, "UBF_ALL & !UBF_INVALID & !UBF_ASIAN"),
       Alias(<<"A", "ll">>, "UBF_ALL & !UBF_INVALID"),
       Alias(<<"A", "r", "abic">>, "UBF_ARABIC | UBF_SYRIAC"),
       Alias(<<"A", "r", "menian">>, "UBF_ARMENIAN"),
       Alias(<<"A", "sian">>, "UBF_ASIAN"),
       Alias(<<"C", "jk">>, "UBF_CJK"),
       Alias(<<"C", "ommon">>, "UBF_COMMON"),
       Alias(<<"C", "yrillic">>, "UBF_CYRILLIC"),
       Alias(<<"Default">>, "UBF_ALL & !UBF_INVALID"),
       Alias(<<"Greek">>, "UBF_GREEK"),
       Alias(<<"H", "angul">>, "UBF_HANGUL"),
       Alias(<<"H", "ebrew">>, "UBF_HEBREW"),
       Alias(<<"Kana">>, "UBF_KANA"),
       Alias(<<"Latin">>, "UBF_LATIN | UBF_ACCENTS"),
       Alias(<<"None">>, "UBF_NONE"),
       Alias(<<"Private">>, "UBF_PUA"),
       Alias(<<"Uncommon">>, "UBF_UNCOMMON | UBF_PUA") >>

\* What a parser returns: an error, or an option, {} or {x}.
Err    == [ok |-> FALSE]
Ok(o)  == [ok |-> TRUE, value |-> o]

\* Mutant: a number that does not fit is taken as it is.
ParseInteger_any_size(text, max) ==
    CASE text.kind = "absent" -> Ok({})
      [] text.kind = "number" -> Ok({text.n})
      [] text.kind = "word"   -> Err

\* parse_integer! for a type with the largest value max.
ParseInteger(text, max) ==
    CASE text.kind = "absent" -> Ok({})
      [] text.kind = "number" -> IF text.n <= max THEN Ok({text.n}) ELSE Err
      [] text.kind = "word"   -> Err

\* parse_filter_parameter! for a type with the largest value max: a number (in
\* hexadecimal), or the first alias that starts with the word.  A word of blanks
\* is the empty sequence and starts all.
ParseFilter(text, max, aliasse) ==
    CASE text.kind = "absent" -> Ok({})
      [] text.kind = "number" -> IF text.n <= max THEN Ok({"0x"}) ELSE Err
      [] text.kind = "word"   ->
           LET i == SelectInSeq(aliasse, LAMBDA a : IsPrefix(text.w, a.name))
           IN  IF i = 0 THEN Err ELSE Ok({aliasse[i].value})

U8  == 255
U64 == 1000   \* bound: stands for the largest u64
U128 == 2000  \* bound: stands for the largest u128

ENCODING_DEFAULT               == "UTF-8"
CHARS_MIN_DEFAULT              == 4
COUNTER_OFFSET_DEFAULT         == 0
OUTPUT_LINE_CHAR_NB_MAX_DEFAULT == 64
OUTPUT_LINE_CHAR_NB_MIN        == 6
ASCII_ENC_LABEL                == "ascii"

AfDefault(name)  == "AF_ALL & !AF_CTRL"
UbfDefault(name) == IF name = ASCII_ENC_LABEL THEN "UBF_NONE" ELSE "UBF_COMMON"

VARIABLES
    flags,          \* the global options
    flag_encoding,  \* the values of --encoding
    mission_id,     \* the loop's counter
    v,              \* the missions made
    outcome         \* "parsing", "loop", "ok" or "error"

vars == <<flags, flag_encoding, mission_id, v, outcome>>

Init ==
    /\ flags \in FlagChoices
    /\ flag_encoding \in UNION {[1 .. n -> EncTexts] : n \in 0 .. MaxEncodings}
    /\ mission_id = 0
    /\ v = <<>>
    /\ outcome = "parsing"

\* The global options, parsed.
FlagCounterOffset == ParseInteger(flags.counter_offset, U64)
FlagCharsMin      == ParseInteger(flags.chars_min, U8)
FlagAf            == ParseFilter(flags.ascii_filter, U128, ASCII_FILTER_ALIASSE)
FlagUbf           == ParseFilter(flags.unicode_block_filter, U64,
                                 UNICODE_BLOCK_FILTER_ALIASSE)
FlagGrep          == ParseInteger(flags.grep_char, U8)
FlagLineLen       == ParseInteger(flags.output_line_len, U64)

\* Mutant: every code that fits in a byte will do.
GrepOK_any_byte(o) == TRUE

GrepOK(o) == \A c \in o : c <= 127

FlagsOK ==
    /\ FlagCounterOffset.ok
    /\ FlagCharsMin.ok
    /\ FlagAf.ok
    /\ FlagUbf.ok
    /\ FlagGrep.ok /\ GrepOK(FlagGrep.value)
    /\ FlagLineLen.ok /\ \A n \in FlagLineLen.value : n >= OUTPUT_LINE_CHAR_NB_MIN

\* The global options are parsed first.
ParseFlags ==
    /\ outcome = "parsing"
    /\ outcome' = IF FlagsOK THEN "loop" ELSE "error"
    /\ UNCHANGED <<flags, flag_encoding, mission_id, v>>

-----------------------------------------------------------------------------
\* The loop over the encodings.

EncOpts ==
    IF flag_encoding = <<>>
    THEN << [ name |-> ENCODING_DEFAULT, chars_min |-> Absent,
              ascii_filter |-> Absent, unicode_block_filter |-> Absent,
              grep_char |-> Absent, more |-> FALSE ] >>
    ELSE flag_encoding

\* parse_enc_opt.
EncCharsMin(e) == ParseInteger(e.chars_min, U8)
EncAf(e)       == ParseFilter(e.ascii_filter, U128, ASCII_FILTER_ALIASSE)
EncUbf(e)      == ParseFilter(e.unicode_block_filter, U64, UNICODE_BLOCK_FILTER_ALIASSE)
EncGrep(e)     == ParseInteger(e.grep_char, U8)
EncName(e)     == IF e.name = "" THEN ENCODING_DEFAULT ELSE e.name

EncOptOK(e) == EncCharsMin(e).ok /\ EncAf(e).ok /\ EncUbf(e).ok /\ EncGrep(e).ok /\ ~e.more

\* The encoding's own value, else the global one, else the default.
FirstOf(own, flag, default) ==
    IF own # {} THEN CHOOSE x \in own : TRUE
    ELSE IF flag # {} THEN CHOOSE x \in flag : TRUE
    ELSE default

\* Mutant: what one encoding leaves open is taken from the one before it.
MissionGrep_of_the_last(e) ==
    IF EncGrep(e).value # {} THEN EncGrep(e).value
    ELSE IF v # <<>> THEN v[Len(v)].grep_char ELSE FlagGrep.value

MissionGrep(e) ==
    IF EncGrep(e).value # {} THEN EncGrep(e).value ELSE FlagGrep.value

EncodingOf(name) == IF name = ASCII_ENC_LABEL THEN "x-user-defined" ELSE name

MissionOf(e) ==
    [ mission_id     |-> mission_id % (U8 + 1),
      counter_offset |-> FirstOf({}, FlagCounterOffset.value, COUNTER_OFFSET_DEFAULT),
      encoding       |-> EncodingOf(EncName(e)),
      chars_min_nb   |-> FirstOf(EncCharsMin(e).value, FlagCharsMin.value, CHARS_MIN_DEFAULT),
      require_same_unicode_block |-> flags.same_unicode_block,
      af             |-> FirstOf(EncAf(e).value, FlagAf.value, AfDefault(EncName(e))),
      ubf            |-> FirstOf(EncUbf(e).value, FlagUbf.value, UbfDefault(EncName(e))),
      grep_char      |-> MissionGrep(e),
      output_line_char_nb_max |->
          FirstOf({}, FlagLineLen.value, OUTPUT_LINE_CHAR_NB_MAX_DEFAULT),
      print_encoding_as_ascii |-> EncName(e) = ASCII_ENC_LABEL ]

InLoop == outcome = "loop" /\ mission_id < Len(EncOpts)

\* None of the checks of an encoding's values fails.
EncAccepted(e) ==
    /\ EncOptOK(e)
    /\ GrepOK(MissionGrep(e))
    /\ EncodingOf(EncName(e)) \in Labels

NextMission ==
    /\ InLoop
    /\ EncAccepted(EncOpts[mission_id + 1])
    /\ v' = Append(v, MissionOf(EncOpts[mission_id + 1]))
    /\ mission_id' = mission_id + 1
    /\ UNCHANGED <<flags, flag_encoding, outcome>>

BadMission ==
    /\ InLoop
    /\ ~EncAccepted(EncOpts[mission_id + 1])
    /\ outcome' = "error"
    /\ UNCHANGED <<flags, flag_encoding, mission_id, v>>

\* All missions are made.
Finish ==
    /\ outcome = "loop"
    /\ mission_id = Len(EncOpts)
    /\ outcome' = "ok"
    /\ UNCHANGED <<flags, flag_encoding, mission_id, v>>

\* run() goes on with v; an error ends the process before any input is read.
Ended == outcome \in {"ok", "error"} /\ UNCHANGED vars

Next == ParseFlags \/ NextMission \/ BadMission \/ Finish \/ Ended

Spec == Init /\ [][Next]_vars

-----------------------------------------------------------------------------

Values(aliasse) == {aliasse[i].value : i \in 1 .. Len(aliasse)} \cup {"0x"}

\* Type invariant.
TypeOK ==
    /\ flags \in FlagChoices
    /\ flag_encoding \in Seq(EncTexts)
    /\ mission_id \in 0 .. Len(EncOpts)
    /\ outcome \in {"parsing", "loop", "ok", "error"}
    /\ v \in Seq([ mission_id : 0 .. U8, counter_offset : 0 .. U64,
                   encoding : Labels, chars_min_nb : 0 .. U8,
                   require_same_unicode_block : BOOLEAN,
                   af : Values(ASCII_FILTER_ALIASSE),
                   ubf : Values(UNICODE_BLOCK_FILTER_ALIASSE),
                   grep_char : SUBSET (0 .. U8),
                   output_line_char_nb_max : 0 .. U64,
                   print_encoding_as_ascii : BOOLEAN ])

\* What the scanners take for granted: there is at least one mission, no grep
\* character is the first byte of a longer character (SplitStr looks for it among
\* leading bytes, before the filter), no line is shorter than the minimum, and a
\* mission that prints itself as ascii has the decoder that stands in for it.
MissionsAreUsable ==
    /\ outcome = "ok" => Len(v) > 0
    /\ \A i \in 1 .. Len(v) :
          /\ v[i].grep_char \subseteq 0 .. 127
          /\ \A c, d \in v[i].grep_char : c = d
          /\ v[i].output_line_char_nb_max >= OUTPUT_LINE_CHAR_NB_MIN
          /\ v[i].print_encoding_as_ascii => v[i].encoding = "x-user-defined"

\* "The values given here override - for this ENC only - the default values" (-e
\* in the manual): which mission a value of --encoding becomes does not depend on
\* the values before it.
MissionsAreIndependent ==
    \A i, j \in 1 .. Len(v) :
        EncOpts[i] = EncOpts[j] =>
            v[i] = [v[j] EXCEPT !.mission_id = v[i].mission_id]

\* The full name of an alias, given inside a value of --encoding, stands for the
\* alias' own value, although any prefix of a name is one as well and some names
\* are prefixes of others.
NameIsThatFilter(text, value, aliasse) ==
    \A k \in 1 .. Len(aliasse) :
        text.kind = "word" /\ text.w = aliasse[k].name => value = aliasse[k].value

AsciiNameIsThatFilter ==
    \A i \in 1 .. Len(v) :
        NameIsThatFilter(EncOpts[i].ascii_filter, v[i].af, ASCII_FILTER_ALIASSE)

\* The same of the Unicode block filter ("All: all valid multibyte UTF-8").
BlockNameIsThatFilter ==
    \A i \in 1 .. Len(v) :
        NameIsThatFilter(EncOpts[i].unicode_block_filter, v[i].ubf,
                         UNICODE_BLOCK_FILTER_ALIASSE)

=============================================================================
