---------------------------- MODULE MissionProofs ----------------------------
(***************************************************************************)
(* Proofs about Missions::new, for every set of options on the command     *)
(* line, any number of encodings and every text.                           *)
(*                                                                         *)
(* MadeInv says what the loop has made so far: mission number i is what    *)
(* value number i of --encoding becomes with the global options alone      *)
(* (Completed), and that value passed all checks.                          *)
(***************************************************************************)
EXTENDS Mission, WellFoundedInduction, TLAPS

\* What a value of --encoding becomes, whichever its number.
Completed(e) == [MissionOf(e) EXCEPT !.mission_id = 0]

MadeInv ==
    /\ Len(v) = mission_id
    /\ mission_id <= Len(EncOpts)
    /\ \A i \in 1 .. Len(v) :
          /\ FlagsOK
          /\ EncAccepted(EncOpts[i])
          /\ v[i] = [Completed(EncOpts[i]) EXCEPT !.mission_id = v[i].mission_id]
    /\ outcome = "loop" => FlagsOK
    /\ outcome = "ok" => mission_id = Len(EncOpts)

IInv == TypeOK /\ MadeInv

-----------------------------------------------------------------------------
(* The parsers.                                                            *)

\* A set of numbers has a least element.
LEMMA NatLeast ==
  ASSUME NEW S \in SUBSET Nat, S # {}
  PROVE  \E m \in S : \A k \in S : m <= k
<1> DEFINE R == OpToRel(<, Nat)
<1>1. IsWellFoundedOn(R, Nat)
  BY NatLessThanWellFounded
<1>2. \A x, y \in Nat : <<y, x>> \in R <=> y < x
  BY DEF OpToRel
<1> HIDE DEF R
<1>3. PICK x \in S : \A y \in S : <<y, x>> \notin R
  BY <1>1, WFMin
<1>4. \A y \in S : ~(y < x)
  BY <1>2, <1>3
<1> QED  BY <1>4

\* An integer that is accepted is in the range of its type.
LEMMA ParsedInteger ==
  ASSUME NEW text \in Texts, NEW max \in Nat, ParseInteger(text, max).ok
  PROVE  /\ ParseInteger(text, max).value \subseteq 0 .. max
         /\ \A c, d \in ParseInteger(text, max).value : c = d
<1>1. CASE text.kind = "absent"
  BY <1>1 DEF ParseInteger, Ok
<1>2. CASE text.kind = "number"
  <2>1. text.n \in Nat
    BY <1>2 DEF Texts, Absent
  <2>2. text.n <= max /\ ParseInteger(text, max).value = {text.n}
    BY <1>2 DEF ParseInteger, Ok, Err
  <2> QED  BY <2>1, <2>2
<1>3. CASE text.kind = "word"
  BY <1>3 DEF ParseInteger, Err
<1>4. text.kind \in {"absent", "number", "word"}
  BY DEF Texts, Absent
<1> QED  BY <1>1, <1>2, <1>3, <1>4

\* The names of a table that the word is a beginning of.
Fitting(w, aliasse) == {i \in 1 .. Len(aliasse) : IsPrefix(w, aliasse[i].name)}

\* A word stands for the value of the first of these names.
LEMMA ParsedWord ==
  ASSUME NEW text, NEW max, NEW aliasse, text.kind = "word", Len(aliasse) \in Nat,
         ParseFilter(text, max, aliasse).ok
  PROVE  \E i \in Fitting(text.w, aliasse) :
            /\ \A k \in Fitting(text.w, aliasse) : i <= k
            /\ ParseFilter(text, max, aliasse).value = {aliasse[i].value}
<1> DEFINE I == Fitting(text.w, aliasse)
<1>1. SelectInSeq(aliasse, LAMBDA a : IsPrefix(text.w, a.name)) =
        IF I # {} THEN Min(I) ELSE 0
  BY DEF SelectInSeq, Fitting
<1>2. ParseFilter(text, max, aliasse) =
        LET i == SelectInSeq(aliasse, LAMBDA a : IsPrefix(text.w, a.name))
        IN  IF i = 0 THEN Err ELSE Ok({aliasse[i].value})
  BY Zenon DEF ParseFilter
<1>3. I # {} => Min(I) \in I /\ \A k \in I : Min(I) <= k
  <2>1. I \in SUBSET Nat
    BY DEF Fitting
  <2> HIDE DEF I
  <2> SUFFICES ASSUME I # {} PROVE Min(I) \in I /\ \A k \in I : Min(I) <= k
    OBVIOUS
  <2>2. \E m \in I : \A k \in I : m <= k
    BY <2>1, NatLeast
  <2> QED  BY <2>2 DEF Min
<1>4. I # {}
  BY <1>1, <1>2 DEF Err
<1>5. Min(I) # 0
  BY <1>3, <1>4 DEF Fitting
<1>6. ParseFilter(text, max, aliasse).value = {aliasse[Min(I)].value}
  <2> HIDE DEF I
  <2>1. ParseFilter(text, max, aliasse) = Ok({aliasse[Min(I)].value})
    BY <1>1, <1>2, <1>4, <1>5
  <2> QED  BY <2>1 DEF Ok
<1> QED  BY <1>3, <1>4, <1>6

LEMMA ParsedFilter ==
  ASSUME NEW text \in Texts, NEW max, NEW aliasse, Len(aliasse) \in Nat, ParseFilter(text, max, aliasse).ok
  PROVE  ParseFilter(text, max, aliasse).value \subseteq Values(aliasse)
<1>1. CASE text.kind = "absent"
  BY <1>1 DEF ParseFilter, Ok
<1>2. CASE text.kind = "number"
  BY <1>2 DEF ParseFilter, Ok, Err, Values
<1>3. CASE text.kind = "word"
  <2>1. PICK i \in Fitting(text.w, aliasse) :
          ParseFilter(text, max, aliasse).value = {aliasse[i].value}
    BY <1>3, ParsedWord
  <2> QED  BY <2>1 DEF Fitting, Values
<1>4. text.kind \in {"absent", "number", "word"}
  BY DEF Texts, Absent
<1> QED  BY <1>1, <1>2, <1>3, <1>4

LEMMA TableLengths ==
  /\ Len(ASCII_FILTER_ALIASSE) = 6 /\ Len(UNICODE_BLOCK_FILTER_ALIASSE) = 18
BY DEF ASCII_FILTER_ALIASSE, UNICODE_BLOCK_FILTER_ALIASSE

LEMMA DefaultFilters ==
  \A name : /\ AfDefault(name) \in Values(ASCII_FILTER_ALIASSE)
            /\ UbfDefault(name) \in Values(UNICODE_BLOCK_FILTER_ALIASSE)
<1>1. /\ ASCII_FILTER_ALIASSE[2].value = "AF_ALL & !AF_CTRL"
      /\ UNICODE_BLOCK_FILTER_ALIASSE[8].value = "UBF_COMMON"
      /\ UNICODE_BLOCK_FILTER_ALIASSE[16].value = "UBF_NONE"
  BY DEF ASCII_FILTER_ALIASSE, UNICODE_BLOCK_FILTER_ALIASSE, Alias
<1>2. \A aliasse : \A i \in 1 .. Len(aliasse) : aliasse[i].value \in Values(aliasse)
  BY DEF Values
<1>3. /\ "AF_ALL & !AF_CTRL" \in Values(ASCII_FILTER_ALIASSE)
      /\ "UBF_COMMON" \in Values(UNICODE_BLOCK_FILTER_ALIASSE)
      /\ "UBF_NONE" \in Values(UNICODE_BLOCK_FILTER_ALIASSE)
  <2>1. ASCII_FILTER_ALIASSE[2].value \in Values(ASCII_FILTER_ALIASSE)
    <3>1. 2 \in 1 .. Len(ASCII_FILTER_ALIASSE)
      BY TableLengths
    <3> QED  BY <1>2, <3>1
  <2>2. /\ UNICODE_BLOCK_FILTER_ALIASSE[8].value \in Values(UNICODE_BLOCK_FILTER_ALIASSE)
        /\ UNICODE_BLOCK_FILTER_ALIASSE[16].value \in Values(UNICODE_BLOCK_FILTER_ALIASSE)
    <3>1. /\ 8 \in 1 .. Len(UNICODE_BLOCK_FILTER_ALIASSE)
          /\ 16 \in 1 .. Len(UNICODE_BLOCK_FILTER_ALIASSE)
      BY TableLengths
    <3> QED  BY <1>2, <3>1
  <2> QED  BY <1>1, <2>1, <2>2
<1> QED  BY <1>3 DEF AfDefault, UbfDefault

LEMMA FirstOfRange ==
  ASSUME NEW T, NEW own \in SUBSET T, NEW flag \in SUBSET T, NEW default \in T
  PROVE  FirstOf(own, flag, default) \in T
BY DEF FirstOf

-----------------------------------------------------------------------------
(* The options.                                                            *)

LEMMA OptionTypes ==
  ASSUME TypeOK
  PROVE  /\ flags \in GlobalOptions
         /\ \A i \in 1 .. Len(EncOpts) : IsEncodingOption(EncOpts[i])
         /\ Len(EncOpts) \in Nat \ {0}
<1>1. CASE flag_encoding = <<>>
  <2>1. /\ Len(EncOpts) = 1
        /\ DOMAIN EncOpts[1] = {"name", "chars_min", "ascii_filter",
                                "unicode_block_filter", "grep_char", "more"}
        /\ EncOpts[1].chars_min = Absent /\ EncOpts[1].ascii_filter = Absent
        /\ EncOpts[1].unicode_block_filter = Absent /\ EncOpts[1].grep_char = Absent
        /\ EncOpts[1].more = FALSE
    BY <1>1 DEF EncOpts
  <2>2. IsEncodingOption(EncOpts[1])
    BY <2>1 DEF IsEncodingOption, Texts
  <2> QED  BY <2>1, <2>2, MissionAssumption DEF TypeOK
<1>2. CASE flag_encoding # <<>>
  BY <1>2, MissionAssumption DEF TypeOK, EncOpts
<1> QED  BY <1>1, <1>2

\* What the checks ensure of a mission.
LEMMA CompletedMission ==
  ASSUME TypeOK, NEW e, IsEncodingOption(e), FlagsOK, EncAccepted(e)
  PROVE  /\ FirstOf({}, FlagCounterOffset.value, COUNTER_OFFSET_DEFAULT) \in 0 .. U64
         /\ EncodingOf(EncName(e)) \in Labels
         /\ FirstOf(EncCharsMin(e).value, FlagCharsMin.value, CHARS_MIN_DEFAULT) \in 0 .. U8
         /\ flags.same_unicode_block \in BOOLEAN
         /\ FirstOf(EncAf(e).value, FlagAf.value, AfDefault(EncName(e)))
              \in Values(ASCII_FILTER_ALIASSE)
         /\ FirstOf(EncUbf(e).value, FlagUbf.value, UbfDefault(EncName(e)))
              \in Values(UNICODE_BLOCK_FILTER_ALIASSE)
         /\ MissionGrep(e) \subseteq 0 .. 127
         /\ \A c, d \in MissionGrep(e) : c = d
         /\ FirstOf({}, FlagLineLen.value, OUTPUT_LINE_CHAR_NB_MAX_DEFAULT) \in 0 .. U64
         /\ FirstOf({}, FlagLineLen.value, OUTPUT_LINE_CHAR_NB_MAX_DEFAULT)
              >= OUTPUT_LINE_CHAR_NB_MIN
<1>1. /\ flags.counter_offset \in Texts /\ flags.chars_min \in Texts
      /\ flags.ascii_filter \in Texts /\ flags.unicode_block_filter \in Texts
      /\ flags.grep_char \in Texts /\ flags.output_line_len \in Texts
      /\ flags.same_unicode_block \in BOOLEAN
  BY OptionTypes DEF GlobalOptions
<1>2. /\ e.chars_min \in Texts /\ e.ascii_filter \in Texts
      /\ e.unicode_block_filter \in Texts /\ e.grep_char \in Texts
  BY DEF IsEncodingOption
<1>3. U8 \in Nat /\ U64 \in Nat
  BY DEF U8, U64
<1>4. FlagCounterOffset.value \subseteq 0 .. U64 /\ FlagLineLen.value \subseteq 0 .. U64
  BY <1>1, <1>3, ParsedInteger DEF FlagsOK, FlagCounterOffset, FlagLineLen
<1>5. FlagCharsMin.value \subseteq 0 .. U8 /\ EncCharsMin(e).value \subseteq 0 .. U8
  BY <1>1, <1>2, <1>3, ParsedInteger
     DEF FlagsOK, FlagCharsMin, EncAccepted, EncOptOK, EncCharsMin
<1>6. /\ FlagAf.value \subseteq Values(ASCII_FILTER_ALIASSE)
      /\ EncAf(e).value \subseteq Values(ASCII_FILTER_ALIASSE)
  BY <1>1, <1>2, ParsedFilter, TableLengths DEF FlagsOK, FlagAf, EncAccepted, EncOptOK, EncAf
<1>7. /\ FlagUbf.value \subseteq Values(UNICODE_BLOCK_FILTER_ALIASSE)
      /\ EncUbf(e).value \subseteq Values(UNICODE_BLOCK_FILTER_ALIASSE)
  BY <1>1, <1>2, ParsedFilter, TableLengths DEF FlagsOK, FlagUbf, EncAccepted, EncOptOK, EncUbf
<1>8. /\ FirstOf({}, FlagCounterOffset.value, COUNTER_OFFSET_DEFAULT) \in 0 .. U64
      /\ FirstOf({}, FlagLineLen.value, OUTPUT_LINE_CHAR_NB_MAX_DEFAULT) \in 0 .. U64
  <2>1. COUNTER_OFFSET_DEFAULT \in 0 .. U64 /\ OUTPUT_LINE_CHAR_NB_MAX_DEFAULT \in 0 .. U64
    BY DEF COUNTER_OFFSET_DEFAULT, OUTPUT_LINE_CHAR_NB_MAX_DEFAULT, U64
  <2> QED  BY <1>4, <2>1, FirstOfRange
<1>9. FirstOf(EncCharsMin(e).value, FlagCharsMin.value, CHARS_MIN_DEFAULT) \in 0 .. U8
  <2>1. CHARS_MIN_DEFAULT \in 0 .. U8
    BY DEF CHARS_MIN_DEFAULT, U8
  <2> QED  BY <1>5, <2>1, FirstOfRange
<1>10. /\ FirstOf(EncAf(e).value, FlagAf.value, AfDefault(EncName(e)))
            \in Values(ASCII_FILTER_ALIASSE)
       /\ FirstOf(EncUbf(e).value, FlagUbf.value, UbfDefault(EncName(e)))
            \in Values(UNICODE_BLOCK_FILTER_ALIASSE)
  BY <1>6, <1>7, DefaultFilters, FirstOfRange
<1>11. MissionGrep(e) \subseteq 0 .. 127 /\ \A c, d \in MissionGrep(e) : c = d
  <2>1. /\ FlagGrep.value \subseteq 0 .. U8 /\ EncGrep(e).value \subseteq 0 .. U8
        /\ \A c, d \in FlagGrep.value : c = d
        /\ \A c, d \in EncGrep(e).value : c = d
    BY <1>1, <1>2, <1>3, ParsedInteger DEF FlagsOK, FlagGrep, EncAccepted, EncOptOK, EncGrep
  <2>2. MissionGrep(e) \subseteq 0 .. U8 /\ \A c, d \in MissionGrep(e) : c = d
    BY <2>1 DEF MissionGrep
  <2>3. \A c \in MissionGrep(e) : c <= 127
    BY DEF EncAccepted, GrepOK
  <2> QED  BY <2>2, <2>3, <1>3
<1>12. FirstOf({}, FlagLineLen.value, OUTPUT_LINE_CHAR_NB_MAX_DEFAULT)
         >= OUTPUT_LINE_CHAR_NB_MIN
  <2>1. \A n \in FlagLineLen.value : n >= OUTPUT_LINE_CHAR_NB_MIN
    BY DEF FlagsOK
  <2>2. OUTPUT_LINE_CHAR_NB_MAX_DEFAULT >= OUTPUT_LINE_CHAR_NB_MIN
    BY DEF OUTPUT_LINE_CHAR_NB_MAX_DEFAULT, OUTPUT_LINE_CHAR_NB_MIN
  <2> QED  BY <2>1, <2>2 DEF FirstOf
<1> QED  BY <1>1, <1>8, <1>9, <1>10, <1>11, <1>12 DEF EncAccepted

-----------------------------------------------------------------------------
(* The invariant.                                                          *)

LEMMA InitIInv == Init => IInv
<1> SUFFICES ASSUME Init PROVE IInv
  OBVIOUS
<1>1. flags \in FlagChoices /\ mission_id = 0 /\ v = <<>> /\ outcome = "parsing"
  BY DEF Init
<1>2. flag_encoding \in Seq(EncTexts)
  <2>1. PICK n \in 0 .. MaxEncodings : flag_encoding \in [1 .. n -> EncTexts]
    BY DEF Init
  <2> QED  BY <2>1, MissionAssumption
<1>3. Len(EncOpts) \in Nat
  BY <1>2 DEF EncOpts
<1> QED  BY <1>1, <1>2, <1>3 DEF IInv, TypeOK, MadeInv

LEMMA OptionsKept ==
  ASSUME UNCHANGED <<flags, flag_encoding>>
  PROVE  /\ EncOpts' = EncOpts
         /\ FlagsOK' = FlagsOK
         /\ \A e : EncAccepted(e)' = EncAccepted(e)
         /\ \A e : Completed(e)' = Completed(e)
<1> USE DEF FlagCounterOffset, FlagCharsMin, FlagAf, FlagUbf, FlagGrep, FlagLineLen
<1>1. EncOpts' = EncOpts
  BY DEF EncOpts
<1>2. FlagsOK' = FlagsOK
  BY DEF FlagsOK
<1>3. \A e : MissionGrep(e)' = MissionGrep(e)
  BY DEF MissionGrep
<1>4. \A e : EncAccepted(e)' = EncAccepted(e)
  BY <1>3 DEF EncAccepted
<1>5. \A e : Completed(e)' = Completed(e)
  BY <1>3 DEF Completed, MissionOf
<1> QED  BY <1>1, <1>2, <1>4, <1>5

LEMMA NextMissionKeeps ==
  ASSUME IInv, NextMission
  PROVE  IInv'
<1> DEFINE e == EncOpts[mission_id + 1]
           m == MissionOf(e)
<1>1. /\ outcome = "loop" /\ mission_id < Len(EncOpts)
      /\ EncAccepted(e)
      /\ v' = Append(v, m)
      /\ mission_id' = mission_id + 1
      /\ UNCHANGED <<flags, flag_encoding, outcome>>
  BY DEF NextMission, InLoop
<1>2. /\ \A i \in 1 .. Len(EncOpts) : IsEncodingOption(EncOpts[i])
      /\ Len(EncOpts) \in Nat
      /\ mission_id \in Nat /\ Len(v) = mission_id /\ FlagsOK
  BY <1>1, OptionTypes DEF IInv, TypeOK, MadeInv
<1>3. IsEncodingOption(e)
  BY <1>1, <1>2
<1>4. /\ EncOpts' = EncOpts /\ FlagsOK' = FlagsOK
      /\ \A d : EncAccepted(d)' = EncAccepted(d)
      /\ \A d : Completed(d)' = Completed(d)
  BY <1>1, OptionsKept
<1>5. /\ mission_id % (U8 + 1) \in 0 .. U8
      /\ MissionGrep(e) \in SUBSET (0 .. U8)
      /\ (EncName(e) = ASCII_ENC_LABEL) \in BOOLEAN
  <2>1. mission_id % (U8 + 1) \in 0 .. U8
    BY <1>2 DEF U8
  <2>2. MissionGrep(e) \subseteq 0 .. 127
    BY <1>1, <1>2, <1>3, CompletedMission DEF IInv
  <2>3. 0 .. 127 \subseteq 0 .. U8
    BY DEF U8
  <2> QED  BY <2>1, <2>2, <2>3, Zenon
<1>6. m \in [ mission_id : 0 .. U8, counter_offset : 0 .. U64,
              encoding : Labels, chars_min_nb : 0 .. U8,
              require_same_unicode_block : BOOLEAN,
              af : Values(ASCII_FILTER_ALIASSE),
              ubf : Values(UNICODE_BLOCK_FILTER_ALIASSE),
              grep_char : SUBSET (0 .. U8),
              output_line_char_nb_max : 0 .. U64,
              print_encoding_as_ascii : BOOLEAN ]
  <2> HIDE DEF e
  <2>1. /\ FirstOf({}, FlagCounterOffset.value, COUNTER_OFFSET_DEFAULT) \in 0 .. U64
        /\ EncodingOf(EncName(e)) \in Labels
        /\ FirstOf(EncCharsMin(e).value, FlagCharsMin.value, CHARS_MIN_DEFAULT) \in 0 .. U8
        /\ flags.same_unicode_block \in BOOLEAN
        /\ FirstOf(EncAf(e).value, FlagAf.value, AfDefault(EncName(e)))
              \in Values(ASCII_FILTER_ALIASSE)
        /\ FirstOf(EncUbf(e).value, FlagUbf.value, UbfDefault(EncName(e)))
              \in Values(UNICODE_BLOCK_FILTER_ALIASSE)
        /\ FirstOf({}, FlagLineLen.value, OUTPUT_LINE_CHAR_NB_MAX_DEFAULT) \in 0 .. U64
    BY <1>1, <1>2, <1>3, CompletedMission DEF IInv
  <2> QED  BY <1>5, <2>1 DEF MissionOf
<1>7. m = [Completed(e) EXCEPT !.mission_id = m.mission_id]
  <2> HIDE DEF e
  <2> QED  BY DEF Completed, MissionOf
<1> HIDE DEF e, m
<1>8. TypeOK'
  BY <1>1, <1>2, <1>4, <1>6 DEF IInv, TypeOK
<1>9. MadeInv'
  <2>1. /\ Len(v') = mission_id + 1
        /\ \A i \in 1 .. Len(v) : v'[i] = v[i]
        /\ v'[mission_id + 1] = m
    BY <1>1, <1>2 DEF IInv, TypeOK
  <2>2. \A i \in 1 .. Len(v') :
          /\ EncAccepted(EncOpts[i])
          /\ v'[i] = [Completed(EncOpts[i]) EXCEPT !.mission_id = v'[i].mission_id]
    <3> TAKE i \in 1 .. Len(v')
    <3>1. CASE i \in 1 .. Len(v)
      BY <2>1, <3>1 DEF IInv, MadeInv
    <3>2. CASE i = mission_id + 1
      BY <1>1, <1>7, <2>1, <3>2 DEF e
    <3> QED  BY <1>2, <2>1, <3>1, <3>2
  <2> QED  BY <1>1, <1>2, <1>4, <2>1, <2>2 DEF MadeInv
<1> QED  BY <1>8, <1>9 DEF IInv

LEMMA NextKeepsIInv ==
  ASSUME IInv, [Next]_vars
  PROVE  IInv'
<1>1. CASE NextMission
  BY <1>1, NextMissionKeeps
<1>2. CASE ~NextMission
  <2>1. /\ UNCHANGED <<flags, flag_encoding, mission_id, v>>
        /\ outcome' \in {"parsing", "loop", "ok", "error"}
        /\ outcome' = "loop" => outcome = "loop" \/ FlagsOK
        /\ outcome' = "ok" => outcome = "ok" \/ mission_id = Len(EncOpts)
    BY <1>2 DEF Next, ParseFlags, BadMission, Finish, Ended, vars, IInv, TypeOK
  <2>2. /\ EncOpts' = EncOpts /\ FlagsOK' = FlagsOK
        /\ \A d : EncAccepted(d)' = EncAccepted(d)
        /\ \A d : Completed(d)' = Completed(d)
    BY <2>1, OptionsKept
  <2>3. TypeOK'
    BY <2>1, <2>2 DEF IInv, TypeOK
  <2>4. MadeInv'
    BY <2>1, <2>2 DEF IInv, MadeInv
  <2> QED  BY <2>3, <2>4 DEF IInv
<1> QED  BY <1>1, <1>2

LEMMA InductiveInvariant == Spec => []IInv
BY InitIInv, NextKeepsIInv, PTL DEF Spec

-----------------------------------------------------------------------------

\* Every value that parsing and completing let through has the type of its field,
\* whatever is written on the command line.
THEOREM MissionTypes == Spec => []TypeOK
<1>1. IInv => TypeOK
  BY DEF IInv
<1> QED  BY <1>1, InductiveInvariant, PTL

\* What the scanners take for granted of a mission is ensured by the checks of
\* Missions::new, wherever a value comes from: the encoding, the global option or
\* the default.
THEOREM MissionsCanBeUsed == Spec => []MissionsAreUsable
<1>1. IInv => MissionsAreUsable
  <2> SUFFICES ASSUME IInv PROVE MissionsAreUsable
    OBVIOUS
  <2>1. /\ Len(EncOpts) \in Nat \ {0}
        /\ \A k \in 1 .. Len(EncOpts) : IsEncodingOption(EncOpts[k])
        /\ Len(v) = mission_id /\ mission_id <= Len(EncOpts) /\ mission_id \in Nat
    BY OptionTypes DEF IInv, MadeInv, TypeOK
  <2>2. outcome = "ok" => Len(v) > 0
    BY <2>1 DEF IInv, MadeInv
  <2> SUFFICES ASSUME NEW i \in 1 .. Len(v)
               PROVE  /\ v[i].grep_char \subseteq 0 .. 127
                      /\ \A c, d \in v[i].grep_char : c = d
                      /\ v[i].output_line_char_nb_max >= OUTPUT_LINE_CHAR_NB_MIN
                      /\ v[i].print_encoding_as_ascii => v[i].encoding = "x-user-defined"
    BY <2>2 DEF MissionsAreUsable
  <2> DEFINE e == EncOpts[i]
  <2>3. /\ FlagsOK /\ EncAccepted(e)
        /\ v[i] = [Completed(e) EXCEPT !.mission_id = v[i].mission_id]
    BY DEF IInv, MadeInv
  <2>4. IsEncodingOption(e)
    BY <2>1
  <2> HIDE DEF e
  <2>5. /\ v[i].grep_char = MissionGrep(e)
        /\ v[i].output_line_char_nb_max =
              FirstOf({}, FlagLineLen.value, OUTPUT_LINE_CHAR_NB_MAX_DEFAULT)
        /\ v[i].print_encoding_as_ascii = (EncName(e) = ASCII_ENC_LABEL)
        /\ v[i].encoding = EncodingOf(EncName(e))
    BY <2>3 DEF Completed, MissionOf
  <2>6. v[i].print_encoding_as_ascii => v[i].encoding = "x-user-defined"
    BY <2>5 DEF EncodingOf
  <2> QED  BY <2>3, <2>4, <2>5, <2>6, CompletedMission DEF IInv
<1> QED  BY <1>1, InductiveInvariant, PTL

\* No value gets from one --encoding to the next: equal texts make equal missions,
\* but for the number.
THEOREM EncodingsDoNotMix == Spec => []MissionsAreIndependent
<1>1. IInv => MissionsAreIndependent
  <2> SUFFICES ASSUME IInv, NEW i \in 1 .. Len(v), NEW j \in 1 .. Len(v),
                      EncOpts[i] = EncOpts[j]
               PROVE  v[i] = [v[j] EXCEPT !.mission_id = v[i].mission_id]
    BY DEF MissionsAreIndependent
  <2>1. /\ v[i] = [Completed(EncOpts[i]) EXCEPT !.mission_id = v[i].mission_id]
        /\ v[j] = [Completed(EncOpts[i]) EXCEPT !.mission_id = v[j].mission_id]
    BY DEF IInv, MadeInv
  <2> QED  BY <2>1 DEF Completed, MissionOf
<1> QED  BY <1>1, InductiveInvariant, PTL

-----------------------------------------------------------------------------
(* The names of the ASCII filters.                                         *)

AsciiPieces == {"A", "ll", "-Ctrl", "+Wsp", "Default", "None", "Wsp"}

LEMMA PrefixesAgree ==
  ASSUME NEW S, NEW s \in Seq(S), NEW t \in Seq(S), Len(s) >= 1, IsPrefix(s, t)
  PROVE  Len(s) <= Len(t) /\ s[1] = t[1]
<1>1. Len(s) <= Len(t) /\ SubSeq(s, 1, Len(s)) = SubSeq(t, 1, Len(s))
  BY DEF IsPrefix
<1>2. SubSeq(s, 1, Len(s))[1] = s[1] /\ SubSeq(t, 1, Len(s))[1] = t[1]
  BY <1>1
<1> QED  BY <1>1, <1>2

\* How the names of the table start, and how many pieces they have.
LEMMA AsciiNames ==
  /\ \A k \in 1 .. 6 : /\ ASCII_FILTER_ALIASSE[k].name \in Seq(AsciiPieces)
                       /\ Len(ASCII_FILTER_ALIASSE[k].name) >= 1
  /\ \A k \in 1 .. 3 : /\ ASCII_FILTER_ALIASSE[k].name[1] = "A"
                       /\ Len(ASCII_FILTER_ALIASSE[k].name) = k + 1
  /\ ASCII_FILTER_ALIASSE[4].name[1] = "Default"
  /\ ASCII_FILTER_ALIASSE[5].name[1] = "None"
  /\ ASCII_FILTER_ALIASSE[6].name[1] = "Wsp"
<1>1. /\ ASCII_FILTER_ALIASSE[1].name = <<"A", "ll">>
      /\ ASCII_FILTER_ALIASSE[2].name = <<"A", "ll", "-Ctrl">>
      /\ ASCII_FILTER_ALIASSE[3].name = <<"A", "ll", "-Ctrl", "+Wsp">>
      /\ ASCII_FILTER_ALIASSE[4].name = <<"Default">>
      /\ ASCII_FILTER_ALIASSE[5].name = <<"None">>
      /\ ASCII_FILTER_ALIASSE[6].name = <<"Wsp">>
  BY DEF ASCII_FILTER_ALIASSE, Alias
<1>2. /\ <<"A", "ll">> \in Seq(AsciiPieces)
      /\ <<"A", "ll", "-Ctrl">> \in Seq(AsciiPieces)
      /\ <<"A", "ll", "-Ctrl", "+Wsp">> \in Seq(AsciiPieces)
      /\ <<"Default">> \in Seq(AsciiPieces)
      /\ <<"None">> \in Seq(AsciiPieces)
      /\ <<"Wsp">> \in Seq(AsciiPieces)
  BY DEF AsciiPieces
<1> DEFINE name(k) == ASCII_FILTER_ALIASSE[k].name
<1>3. /\ name(1) \in Seq(AsciiPieces) /\ Len(name(1)) = 2 /\ name(1)[1] = "A"
      /\ name(2) \in Seq(AsciiPieces) /\ Len(name(2)) = 3 /\ name(2)[1] = "A"
      /\ name(3) \in Seq(AsciiPieces) /\ Len(name(3)) = 4 /\ name(3)[1] = "A"
      /\ name(4) \in Seq(AsciiPieces) /\ Len(name(4)) = 1 /\ name(4)[1] = "Default"
      /\ name(5) \in Seq(AsciiPieces) /\ Len(name(5)) = 1 /\ name(5)[1] = "None"
      /\ name(6) \in Seq(AsciiPieces) /\ Len(name(6)) = 1 /\ name(6)[1] = "Wsp"
  BY <1>1, <1>2
<1> HIDE DEF name
<1>4. \A k \in 1 .. 6 : name(k) \in Seq(AsciiPieces) /\ Len(name(k)) >= 1
  <2> TAKE k \in 1 .. 6
  <2>1. k = 1 \/ k = 2 \/ k = 3 \/ k = 4 \/ k = 5 \/ k = 6
    OBVIOUS
  <2> QED  BY <1>3, <2>1
<1>5. \A k \in 1 .. 3 : name(k)[1] = "A" /\ Len(name(k)) = k + 1
  <2> TAKE k \in 1 .. 3
  <2>1. CASE k = 1
    BY <1>3, <2>1
  <2>2. CASE k = 2
    BY <1>3, <2>2
  <2>3. CASE k = 3
    BY <1>3, <2>3
  <2> QED  BY <2>1, <2>2, <2>3
<1> QED  BY <1>3, <1>4, <1>5 DEF name

\* No name of the table is the beginning of a name before it.
LEMMA AsciiNamesComeFirst ==
  ASSUME NEW k \in 1 .. 6, NEW i \in 1 .. 6,
         IsPrefix(ASCII_FILTER_ALIASSE[k].name, ASCII_FILTER_ALIASSE[i].name)
  PROVE  k <= i
<1> SUFFICES ASSUME i < k PROVE FALSE
  OBVIOUS
<1>1. /\ Len(ASCII_FILTER_ALIASSE[k].name) <= Len(ASCII_FILTER_ALIASSE[i].name)
      /\ ASCII_FILTER_ALIASSE[k].name[1] = ASCII_FILTER_ALIASSE[i].name[1]
  BY AsciiNames, PrefixesAgree
<1>2. CASE k \in 1 .. 3
  <2>1. i \in 1 .. 3
    BY <1>2
  <2>2. /\ Len(ASCII_FILTER_ALIASSE[k].name) = k + 1
        /\ Len(ASCII_FILTER_ALIASSE[i].name) = i + 1
    BY <1>2, <2>1, AsciiNames
  <2> QED  BY <1>1, <2>2
<1>3. CASE k = 4
  <2>1. i \in 1 .. 3
    BY <1>3
  <2> QED  BY <1>1, <1>3, <2>1, AsciiNames
<1>4. CASE k = 5
  <2>1. i \in 1 .. 3 \/ i = 4
    BY <1>4
  <2> QED  BY <1>1, <1>4, <2>1, AsciiNames
<1>5. CASE k = 6
  <2>1. i \in 1 .. 3 \/ i = 4 \/ i = 5
    BY <1>5
  <2> QED  BY <1>1, <1>5, <2>1, AsciiNames
<1> QED  BY <1>2, <1>3, <1>4, <1>5

\* The full name of an ASCII filter stands for that filter, although the first name
\* that starts with the text is taken.  (For the names of the Unicode blocks this is
\* not so: they are not in such an order.)
THEOREM AsciiNamesMeanTheirFilter == Spec => []AsciiNameIsThatFilter
<1>1. IInv => AsciiNameIsThatFilter
  <2> SUFFICES ASSUME IInv, NEW i \in 1 .. Len(v),
                      NEW k \in 1 .. Len(ASCII_FILTER_ALIASSE),
                      EncOpts[i].ascii_filter.kind = "word",
                      EncOpts[i].ascii_filter.w = ASCII_FILTER_ALIASSE[k].name
               PROVE  v[i].af = ASCII_FILTER_ALIASSE[k].value
    BY DEF AsciiNameIsThatFilter, NameIsThatFilter
  <2> DEFINE e == EncOpts[i]
  <2>1. /\ EncAccepted(e)
        /\ v[i] = [Completed(e) EXCEPT !.mission_id = v[i].mission_id]
    BY DEF IInv, MadeInv
  <2>2. v[i].af = FirstOf(EncAf(e).value, FlagAf.value, AfDefault(EncName(e)))
    <3> HIDE DEF e
    <3> QED  BY <2>1 DEF Completed, MissionOf
  <2>3. EncAf(e).ok
    BY <2>1 DEF EncAccepted, EncOptOK
  <2>4. PICK j \in Fitting(e.ascii_filter.w, ASCII_FILTER_ALIASSE) :
           /\ \A n \in Fitting(e.ascii_filter.w, ASCII_FILTER_ALIASSE) : j <= n
           /\ EncAf(e).value = {ASCII_FILTER_ALIASSE[j].value}
    <3>1. /\ ParseFilter(e.ascii_filter, U128, ASCII_FILTER_ALIASSE).ok
          /\ e.ascii_filter.kind = "word"
      BY <2>3 DEF EncAf
    <3>2. Len(ASCII_FILTER_ALIASSE) \in Nat
      BY TableLengths
    <3> HIDE DEF e
    <3> QED  BY <3>1, <3>2, ParsedWord DEF EncAf
  <2>5. /\ k \in 1 .. 6 /\ j \in 1 .. 6
        /\ IsPrefix(ASCII_FILTER_ALIASSE[k].name, ASCII_FILTER_ALIASSE[j].name)
    BY TableLengths DEF Fitting
  <2>6. k <= j
    BY <2>5, AsciiNamesComeFirst
  <2>7. k \in Fitting(e.ascii_filter.w, ASCII_FILTER_ALIASSE)
    <3>1. IsPrefix(ASCII_FILTER_ALIASSE[k].name, ASCII_FILTER_ALIASSE[k].name)
      BY <2>5, AsciiNames DEF IsPrefix
    <3> QED  BY <3>1 DEF Fitting
  <2>8. j = k
    BY <2>4, <2>5, <2>6, <2>7
  <2>9. FirstOf(EncAf(e).value, FlagAf.value, AfDefault(EncName(e)))
          = ASCII_FILTER_ALIASSE[k].value
    BY <2>4, <2>8 DEF FirstOf
  <2> QED  BY <2>2, <2>9
<1> QED  BY <1>1, InductiveInvariant, PTL

=============================================================================
