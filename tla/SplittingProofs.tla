--------------------------- MODULE SplittingProofs ---------------------------
(***************************************************************************)
(* Proofs about the iterator SplitStr, for every buffer, every filter and  *)
(* every length of a line.                                                 *)
(*                                                                         *)
(* Results are right because of what the iterator knows of the string it   *)
(* has not returned yet: which characters it holds (PlaceInv, StringInv),  *)
(* where it stands to the results returned before (BehindInv, CutInv), and *)
(* whether the grep character is in it (GrepInv).  That no string is lost  *)
(* needs RunsInv: all that a run of good characters has in the buffer in   *)
(* front of the current string has been returned, and a run that goes on   *)
(* in the current string is known to be a continuation.  EndsInv and       *)
(* LinesInv say what a buffer means to the next one: what may go on there  *)
(* is not mistaken for complete, and the first line of a string is in one  *)
(* result.                                                                 *)
(*                                                                         *)
(* IteratorInv is what holds of the iterator whoever calls it: Scanner-    *)
(* Proofs uses it of the iterator that from() makes.  IInv adds what       *)
(* Splitting remembers of the calls.                                       *)
(***************************************************************************)
EXTENDS Splitting, SequenceTheorems, TLAPS

\* The string being collected, and the place behind it.
End == ok_s_p + ok_char_nb
Current == ok_s_p .. End - 1

\* Where the next string will start, or the current one does.
Front == IF pc = "returned" THEN p ELSE ok_s_p

Iterating == pc \in {"loop", "break", "returned"}

\* p is behind the current string, and behind a rejected character that is not
\* looked at again.
PlaceInv ==
    /\ pc = "none" => results = <<>>
    /\ pc = "returned" => results # <<>>
    /\ pc = "loop" => p = End
    /\ pc \in {"break", "returned"} => p \in {End, End + 1}
    /\ pc = "break" => /\ End <= Len(inp)
                       /\ ok_char_nb < CharMax
                       /\ Collected(grep_char_ok)
                       /\ p = End + 1 \/ require_same_unicode_block

StringInv ==
    /\ pc \in {"loop", "break"} => Homogeneous(Current)
    /\ pc = "loop" /\ require_same_unicode_block =>
          \A i \in Current : IsMultibyte(inp[i]) => inp[i] = last_multi_char_leading_byte

LastResult == results[Len(results)]

BehindInv == Iterating /\ results # <<>> => EndOf(LastResult) <= Front

\* What the iterator remembers of its last result.
CutInv ==
    Iterating =>
        IF results = <<>>
        THEN inp_start_p = 1
        ELSE /\ last_s_was_maybe_cut = LastResult.s_is_maybe_cut
             /\ LastResult.s_is_maybe_cut =>
                   \/ inp_start_p = EndOf(LastResult)
                   \/ EndOf(LastResult) = Len(inp) + 1

\* The grep character passes the ASCII filter.  (If it does not, the code takes
\* the rejected character behind a string for one of its own.)
GrepPasses == \A grep \in GrepChars : grep \subseteq Af

GrepInv ==
    /\ grep_char \in GrepChars \cup {{}}
    /\ pc = "loop" =>
          (grep_char_ok <=> NoGrep \/ \E i \in Current : inp[i] \in grep_char)
    /\ pc = "break" =>
          /\ NoGrep => grep_char_ok
          /\ GrepPasses /\ grep_char_ok =>
                NoGrep \/ \E i \in Current : inp[i] \in grep_char

\* s_completes_previous_s, without the caller's part in the first result's.
ContinuesInv ==
    \A k \in 1 .. Len(results) :
        IF k = 1
        THEN results[k].s_completes_previous_s => results[k].from = 1
        ELSE results[k].s_completes_previous_s <=>
                /\ results[k - 1].s_is_maybe_cut
                /\ results[k].from = EndOf(results[k - 1])

\* When a string is kept for the next buffer.
KeptInv ==
    \A k \in 1 .. Len(results) :
        results[k].s_is_to_be_filtered_again =>
            /\ ~results[k].s_completes_previous_s
            /\ ~invalid_bytes_after_inp
            /\ NoGrep => results[k].nb < CharMax
            /\ results[k].nb = CharMax =>
                  \A i \in PlacesOf(results[k]) : inp[i] \notin grep_char

ResultsInv ==
    /\ ResultsAreStrings
    /\ ContinuesInv
    /\ KeptStringIsLast /\ KeptInv
    /\ GrepPasses => MinAndGrepObserved

\* What holds of an iterator, whoever calls it.
IteratorInv ==
    /\ TypeOK
    /\ PlaceInv /\ StringInv /\ BehindInv /\ CutInv /\ GrepInv
    /\ ResultsInv

CallInv == call \in [buffer : Buffers, min : CharsMins, same_block : SameBlocks,
                     continue : BOOLEAN, invalid : BOOLEAN, grep : GrepChars]

\* The caller says whether the first result completes a string.
FlagInv(continue) ==
    /\ Iterating /\ results = <<>> => last_s_was_maybe_cut = continue
    /\ results # <<>> => (results[1].s_completes_previous_s <=>
                            continue /\ results[1].from = 1)

\* The strings that must not be lost, and when.
Qualifies(i, j, continue) ==
    /\ IsRun(i, j)
    /\ \/ j + 1 - i >= chars_min_nb
       \/ i <= j /\ j = Len(inp) /\ ~invalid_bytes_after_inp
       \/ i = 1 /\ i <= j /\ continue

Lossless == NoGrep /\ chars_min_nb \in 1 .. CharMax

RunsInv(continue) ==
    Lossless =>
        \A i, j \in 1 .. Len(inp) : Qualifies(i, j, continue) =>
            /\ Iterating =>
                  /\ \A k \in i .. j : k < Front => Covered(k)
                  /\ pc # "break" /\ i < Front /\ Front <= j =>
                        Front = inp_start_p /\ last_s_was_maybe_cut
                  /\ pc = "break" /\ End \in i .. j => i = p
            /\ pc = "exhausted" => \A k \in i .. j : Covered(k)

\* A result at the end of a buffer that may go on is held to be cut, and it is kept
\* only if it is the start of its run.
EndsInv ==
    \A k \in 1 .. Len(results) :
        /\ EndOf(results[k]) = Len(inp) + 1 /\ ~invalid_bytes_after_inp =>
              results[k].s_is_maybe_cut
        /\ Lossless /\ results[k].s_is_to_be_filtered_again =>
              \A i \in 1 .. results[k].from - 1 : ~IsRun(i, Len(inp))

\* What depends on whether the buffer may continue a string.
ContinueInv(continue) == FlagInv(continue) /\ RunsInv(continue) /\ EndsInv

IInv == IteratorInv /\ CallInv /\ ContinueInv(call.continue)

-----------------------------------------------------------------------------
(* Facts about the types.                                                  *)

LEMMA FilterIsTyped ==
  /\ CharMax \in Nat \ {0}
  /\ \A c : PassesFilter(c) => c \in LeadingBytes
  /\ \A c \in Af : c \in Ascii
<1>1. Af \subseteq Ascii /\ Ubf \subseteq 192 .. 247 /\ CharMax \in Nat \ {0}
  BY SplitStrAssumption
<1> QED  BY <1>1 DEF PassesFilter, LeadingBytes

LEMMA SplitTypes ==
  ASSUME TypeOK
  PROVE  /\ Len(inp) \in Nat
         /\ \A i \in 1 .. Len(inp) : inp[i] \in LeadingBytes
         /\ p \in Nat /\ ok_s_p \in Nat /\ inp_start_p \in Nat
         /\ ok_char_nb \in Nat /\ chars_min_nb \in Nat
         /\ results \in Seq(Result) /\ Len(results) \in Nat
         /\ \A k \in 1 .. Len(results) : /\ results[k] \in Result
                                         /\ results[k].from \in Nat
                                         /\ results[k].nb \in Nat
<1>1. inp \in Seq(LeadingBytes) /\ results \in Seq(Result)
  BY DEF TypeOK
<1>2. Len(inp) \in Nat /\ Len(results) \in Nat
  BY <1>1, LenProperties
<1>3. \A i \in 1 .. Len(inp) : inp[i] \in LeadingBytes
  BY <1>1, ElementOfSeq
<1>4. \A k \in 1 .. Len(results) : results[k] \in Result
  BY <1>1, ElementOfSeq
<1>5. \A k \in 1 .. Len(results) : results[k].from \in Nat /\ results[k].nb \in Nat
  BY <1>4 DEF Result
<1> QED  BY <1>1, <1>2, <1>3, <1>4, <1>5, FilterIsTyped DEF TypeOK

\* The current string lies in the buffer.
LEMMA EndInBuffer ==
  ASSUME TypeOK, PlaceInv, Iterating
  PROVE  /\ End \in Nat /\ End = ok_s_p + ok_char_nb
         /\ End <= p /\ p <= Len(inp) + 1
         /\ \A i : i \in Current => i \in Nat /\ ok_s_p <= i /\ i < End
         /\ \A i \in Nat : ok_s_p <= i /\ i < End => i \in Current
<1>1. /\ ok_s_p \in Nat /\ ok_char_nb \in Nat /\ p \in 1 .. Len(inp) + 1
      /\ Len(inp) \in Nat
  BY SplitTypes DEF TypeOK
<1>2. End <= p
  BY <1>1 DEF PlaceInv, Iterating, End
<1> QED  BY <1>1, <1>2 DEF End, Current

\* What has been given to the iterator, and what it has returned, is left alone.
LEMMA ResultsFrame ==
  ASSUME ResultsInv, UNCHANGED <<given_vars, results>>
  PROVE  ResultsInv' /\ LastResult' = LastResult
<1>1. UNCHANGED <<inp, invalid_bytes_after_inp, chars_min_nb,
                  require_same_unicode_block, grep_char, results>>
  BY DEF given_vars
<1>2. ResultsAreStrings'
  BY <1>1 DEF ResultsInv, ResultsAreStrings, EndOf, PlacesOf, Homogeneous
<1>3. ContinuesInv'
  BY <1>1 DEF ResultsInv, ContinuesInv, EndOf
<1>4. KeptStringIsLast' /\ KeptInv'
  BY <1>1 DEF ResultsInv, KeptStringIsLast, KeptInv, EndOf, NoGrep
<1>5. GrepPasses => MinAndGrepObserved'
  BY <1>1 DEF ResultsInv, MinAndGrepObserved, PlacesOf, NoGrep
<1> QED  BY <1>1, <1>2, <1>3, <1>4, <1>5 DEF ResultsInv, GrepPasses, LastResult

LEMMA RunsFrame ==
  ASSUME UNCHANGED <<given_vars, results>>, NEW continue
  PROVE  /\ \A i, j, k : /\ Covered(k)' <=> Covered(k)
                         /\ Qualifies(i, j, continue)' <=> Qualifies(i, j, continue)
         /\ Lossless' <=> Lossless
         /\ results' = results
<1>1. UNCHANGED <<inp, invalid_bytes_after_inp, chars_min_nb,
                  require_same_unicode_block, grep_char, results>>
  BY DEF given_vars
<1>2. ASSUME NEW k PROVE Covered(k)' <=> Covered(k)
  BY <1>1 DEF Covered, PlacesOf
<1>3. ASSUME NEW i, NEW j
      PROVE  Qualifies(i, j, continue)' <=> Qualifies(i, j, continue)
  BY <1>1 DEF Qualifies, IsRun
<1>4. Lossless' <=> Lossless
  BY <1>1 DEF Lossless, NoGrep
<1> QED  BY <1>1, <1>2, <1>3, <1>4

LEMMA EndsFrame ==
  ASSUME UNCHANGED <<given_vars, results>>, EndsInv
  PROVE  EndsInv'
<1>1. UNCHANGED <<inp, invalid_bytes_after_inp, chars_min_nb,
                  require_same_unicode_block, grep_char, results>>
  BY DEF given_vars
<1>2. Lossless' <=> Lossless
  BY <1>1 DEF Lossless, NoGrep
<1>3. \A i, j : IsRun(i, j)' <=> IsRun(i, j)
  BY <1>1 DEF IsRun
<1> QED  BY <1>1, <1>2, <1>3 DEF EndsInv, EndOf

-----------------------------------------------------------------------------
(* The iterator's steps, whoever calls it.                                 *)

LEMMA NewEstablishes ==
  ASSUME NEW buffer \in Seq(LeadingBytes), NEW min \in 0 .. 255,
         NEW same_block \in BOOLEAN, NEW continue \in BOOLEAN,
         NEW invalid \in BOOLEAN, NEW grep \in GrepChars, GrepCharOK(grep),
         New(buffer, min, same_block, continue, invalid, grep)
  PROVE  IteratorInv'
<1>1. /\ inp' = buffer /\ invalid_bytes_after_inp' = invalid
      /\ chars_min_nb' = min /\ require_same_unicode_block' = same_block
      /\ grep_char' = grep
      /\ inp_start_p' = 1 /\ p' = 1 /\ last_s_was_maybe_cut' = continue
      /\ pc' = "loop" /\ ok_s_p' = 1 /\ ok_char_nb' = 0
      /\ grep_char_ok' = (grep = {})
      /\ last_multi_char_leading_byte' = 0 /\ results' = <<>>
  BY DEF New
<1>2. Len(inp') \in Nat /\ Len(results') = 0
  BY <1>1, LenProperties
<1>3. TypeOK'
  <2>1. 1 \in 1 .. Len(inp') + 1
    BY <1>2
  <2>2. results' \in Seq(Result)
    BY <1>1
  <2>3. 0 \in LeadingBytes /\ 0 \in 0 .. CharMax
    BY FilterIsTyped DEF LeadingBytes, Ascii
  <2>4. (grep = {}) \in BOOLEAN
    OBVIOUS
  <2> QED  BY <1>1, <2>1, <2>2, <2>3, <2>4 DEF TypeOK
<1>4. End' = 1 /\ \A i : i \notin Current'
  BY <1>1 DEF End, Current
<1>5. PlaceInv'
  BY <1>1, <1>4 DEF PlaceInv
<1>6. StringInv'
  BY <1>1, <1>4 DEF StringInv, Homogeneous
<1>7. BehindInv' /\ CutInv'
  BY <1>1 DEF BehindInv, CutInv
<1>8. GrepInv'
  BY <1>1, <1>4 DEF GrepInv, NoGrep
<1>9. ResultsInv'
  BY <1>2 DEF ResultsInv, ResultsAreStrings, ContinuesInv, KeptStringIsLast,
              KeptInv, MinAndGrepObserved
<1> QED  BY <1>3, <1>5, <1>6, <1>7, <1>8, <1>9 DEF IteratorInv

LEMMA CallNextKeeps ==
  ASSUME IteratorInv, CallNext
  PROVE  IteratorInv'
<1>1. /\ pc = "returned" /\ pc' = "loop"
      /\ ok_s_p' = p /\ ok_char_nb' = 0 /\ (grep_char_ok' <=> NoGrep)
      /\ last_multi_char_leading_byte' = 0
      /\ UNCHANGED <<given_vars, inp, grep_char, results, inp_start_p, p,
                     last_s_was_maybe_cut, require_same_unicode_block>>
  BY DEF CallNext, iterator_vars, given_vars
<1>2. TypeOK'
  <2>1. grep_char_ok' \in BOOLEAN
    BY DEF CallNext, NoGrep
  <2> QED  BY <1>1, <2>1, FilterIsTyped DEF IteratorInv, TypeOK, given_vars, LeadingBytes, Ascii
<1>3. End' = p' /\ \A i : i \notin Current'
  <2>1. p \in Nat
    BY SplitTypes DEF IteratorInv
  <2> QED  BY <1>1, <2>1 DEF End, Current
<1>4. PlaceInv'
  BY <1>1, <1>3 DEF PlaceInv
<1>5. StringInv'
  BY <1>1, <1>3 DEF StringInv, Homogeneous
<1>6. Front' = Front /\ Iterating
  BY <1>1 DEF Front, Iterating
<1>7. ResultsInv' /\ LastResult' = LastResult
  BY <1>1, ResultsFrame DEF IteratorInv
<1>8. BehindInv' /\ CutInv'
  BY <1>1, <1>6, <1>7 DEF IteratorInv, BehindInv, CutInv, EndOf
<1>9. GrepInv'
  BY <1>1, <1>3 DEF IteratorInv, GrepInv, NoGrep
<1> QED  BY <1>2, <1>4, <1>5, <1>7, <1>8, <1>9 DEF IteratorInv

\* The string grows by the character at p, which is good with all of it.
LEMMA AcceptKeeps ==
  ASSUME IteratorInv, Accept
  PROVE  IteratorInv'
<1>1. /\ pc = "loop" /\ pc' = pc
      /\ p <= Len(inp) /\ ok_char_nb < CharMax
      /\ PassesFilter(inp[p]) /\ ~OtherBlock(inp[p])
      /\ ok_char_nb' = ok_char_nb + 1 /\ p' = p + 1
      /\ grep_char_ok' = GrepOkWith(inp[p])
      /\ last_multi_char_leading_byte' =
            IF IsMultibyte(inp[p]) THEN inp[p] ELSE last_multi_char_leading_byte
      /\ UNCHANGED <<given_vars, inp, grep_char, results, inp_start_p, ok_s_p,
                     last_s_was_maybe_cut, require_same_unicode_block>>
  BY DEF Accept, InLoop, given_vars
<1>2. /\ TypeOK /\ PlaceInv /\ Iterating /\ p = End
      /\ p \in Nat /\ p \in 1 .. Len(inp) /\ Len(inp) \in Nat /\ ok_s_p \in Nat
      /\ inp[p] \in LeadingBytes /\ ok_char_nb \in Nat
  BY <1>1, SplitTypes DEF IteratorInv, PlaceInv, Iterating, TypeOK
<1>3. TypeOK'
  <2>1. grep_char_ok' \in BOOLEAN
    BY <1>1 DEF GrepOkWith, IteratorInv, TypeOK
  <2>2. last_multi_char_leading_byte' \in LeadingBytes
    BY <1>1, <1>2 DEF TypeOK
  <2>3. p' \in 1 .. Len(inp) + 1 /\ ok_char_nb' \in 0 .. CharMax
    BY <1>1, <1>2, FilterIsTyped
  <2> QED  BY <1>1, <1>2, <2>1, <2>2, <2>3 DEF TypeOK, given_vars
<1>5. End' = p' /\ \A i : i \in Current' <=> i \in Current \/ i = p
  BY <1>1, <1>2, EndInBuffer DEF End, Current
<1>6. PlaceInv'
  BY <1>1, <1>5 DEF PlaceInv
<1>7. \A i \in Current : PassesFilter(inp[i])
  BY <1>1 DEF IteratorInv, StringInv, Homogeneous
<1>8. require_same_unicode_block => \A i \in Current' :
         IsMultibyte(inp[i]) => inp[i] = last_multi_char_leading_byte'
  <2> SUFFICES ASSUME require_same_unicode_block, NEW i \in Current', IsMultibyte(inp[i])
               PROVE  inp[i] = last_multi_char_leading_byte'
    OBVIOUS
  <2>1. CASE i = p
    BY <1>1, <2>1
  <2>2. CASE i \in Current
    <3>1. inp[i] = last_multi_char_leading_byte
      BY <1>1, <2>2 DEF IteratorInv, StringInv
    <3>2. inp[i] # 0
      BY DEF IsMultibyte, Ascii
    <3> QED  BY <1>1, <3>1, <3>2 DEF OtherBlock
  <2> QED  BY <1>5, <2>1, <2>2
<1>9. StringInv'
  BY <1>1, <1>5, <1>7, <1>8 DEF StringInv, Homogeneous, PassesFilter, IsMultibyte
<1>10. ResultsInv' /\ LastResult' = LastResult
  BY <1>1, ResultsFrame DEF IteratorInv
<1>11. Front' = Front
  BY <1>1 DEF Front
<1>12. BehindInv' /\ CutInv'
  BY <1>1, <1>2, <1>10, <1>11 DEF IteratorInv, BehindInv, CutInv, EndOf
<1>13. GrepInv'
  BY <1>1, <1>5 DEF IteratorInv, GrepInv, NoGrep, GrepOkWith
<1> QED  BY <1>3, <1>6, <1>9, <1>10, <1>12, <1>13 DEF IteratorInv

\* A run of good characters that contains a rejected one starts with it.
LEMMA NoRunCrosses ==
  ASSUME IteratorInv, InLoop, Rejected, NEW i \in 1 .. Len(inp), NEW j \in 1 .. Len(inp),
         IsRun(i, j), p \in i .. j
  PROVE  /\ PassesFilter(inp[p])
         /\ ok_char_nb > 0 => i = p
<1>1. pc = "loop" /\ p = End
  BY DEF InLoop, IteratorInv, PlaceInv
<1>2. PassesFilter(inp[p])
  BY DEF IsRun
<1>3. OtherBlock(inp[p])
  BY <1>2 DEF Rejected
<1>4. ASSUME ok_char_nb > 0, i # p PROVE FALSE
  <2>1. /\ i \in Nat /\ j \in Nat /\ p \in Nat /\ ok_s_p \in Nat /\ ok_char_nb \in Nat
        /\ p = ok_s_p + ok_char_nb
    BY <1>1, SplitTypes DEF IteratorInv, End
  <2>2. p - 1 \in i .. j /\ p - 1 \in Nat
    BY <1>4, <2>1
  <2>3. p - 1 \in Current
    BY <1>1, <1>4, <2>1 DEF Current
  <2>4. /\ require_same_unicode_block
        /\ last_multi_char_leading_byte # inp[p]
    BY <1>3 DEF OtherBlock
  <2>5. IsMultibyte(inp[p - 1]) /\ inp[p - 1] = inp[i] /\ inp[p] = inp[i]
    BY <2>2, <2>4 DEF IsRun
  <2>6. inp[p - 1] = last_multi_char_leading_byte
    BY <1>1, <2>3, <2>4, <2>5 DEF IteratorInv, StringInv
  <2> QED  BY <2>4, <2>5, <2>6
<1> QED  BY <1>2, <1>4

\* Where SkipRejected leaves p.
LEMMA Skips ==
  ASSUME TypeOK, InLoop, SkipRejected
  PROVE  /\ p' = IF PassesFilter(inp[p]) THEN p ELSE p + 1
         /\ p' \in 1 .. Len(inp) + 1
         /\ last_multi_char_leading_byte' \in LeadingBytes
<1>1. p \in 1 .. Len(inp) /\ Len(inp) \in Nat /\ inp[p] \in LeadingBytes
  BY SplitTypes DEF InLoop, TypeOK
<1>2. 0 \in LeadingBytes
  BY DEF LeadingBytes, Ascii
<1> QED  BY <1>1, <1>2 DEF SkipRejected, TypeOK

LEMMA RestartKeeps ==
  ASSUME IteratorInv, Restart
  PROVE  IteratorInv'
<1>1. /\ pc = "loop" /\ pc' = pc /\ InLoop
      /\ Rejected
      /\ ~Collected(GrepOkWith(inp[p]))
      /\ ok_char_nb' = 0 /\ ok_s_p' = p'
      /\ (grep_char_ok' <=> NoGrep)
      /\ UNCHANGED <<given_vars, inp, grep_char, results, inp_start_p,
                     last_s_was_maybe_cut, require_same_unicode_block>>
  BY DEF Restart, InLoop, given_vars
<1>2. /\ TypeOK /\ PlaceInv /\ Iterating /\ p = End
      /\ p \in Nat /\ p \in 1 .. Len(inp) /\ Len(inp) \in Nat /\ ok_s_p \in Nat
      /\ ok_char_nb \in Nat /\ chars_min_nb \in Nat
      /\ p = ok_s_p + ok_char_nb
  BY <1>1, SplitTypes DEF IteratorInv, PlaceInv, Iterating, InLoop, TypeOK, End
<1>3. /\ p' = IF PassesFilter(inp[p]) THEN p ELSE p + 1
      /\ p' \in 1 .. Len(inp) + 1
      /\ last_multi_char_leading_byte' \in LeadingBytes
  BY <1>1, <1>2, Skips DEF Restart
<1>4. TypeOK'
  <2>1. grep_char_ok' \in BOOLEAN
    BY DEF Restart, NoGrep
  <2> QED  BY <1>1, <1>2, <1>3, <2>1, FilterIsTyped DEF TypeOK, given_vars
<1>6. End' = p' /\ \A i : i \notin Current'
  BY <1>1, <1>2, <1>3 DEF End, Current
<1>7. PlaceInv'
  BY <1>1, <1>6 DEF PlaceInv
<1>8. StringInv'
  BY <1>1, <1>6 DEF StringInv, Homogeneous
<1>9. ResultsInv' /\ LastResult' = LastResult
  BY <1>1, ResultsFrame DEF IteratorInv
<1>10. Front = ok_s_p /\ Front' = p' /\ p <= p'
  BY <1>1, <1>2, <1>3 DEF Front
<1>11. BehindInv'
  <2>1. ASSUME results # <<>> PROVE EndOf(LastResult) <= p'
    <3>1. EndOf(LastResult) <= ok_s_p
      BY <1>2, <1>10, <2>1 DEF IteratorInv, BehindInv
    <3>2. EndOf(LastResult) \in Nat
      <4>1. Len(results) \in 1 .. Len(results)
        BY <1>2, <2>1, SplitTypes, EmptySeq
      <4> QED  BY <1>2, <4>1, SplitTypes DEF EndOf, LastResult
    <3> QED  BY <1>2, <1>3, <3>1, <3>2
  <2> QED  BY <1>1, <1>9, <1>10, <2>1 DEF BehindInv, EndOf
<1>12. CutInv'
  BY <1>1, <1>2, <1>9 DEF IteratorInv, CutInv, EndOf
<1>13. GrepInv'
  BY <1>1, <1>6 DEF IteratorInv, GrepInv, NoGrep
<1> QED  BY <1>4, <1>7, <1>8, <1>9, <1>11, <1>12, <1>13 DEF IteratorInv

\* The loop is left with a string that is to be returned.
LEMMA BreakKeeps ==
  ASSUME IteratorInv, Break
  PROVE  IteratorInv'
<1>1. /\ pc = "loop" /\ pc' = "break" /\ InLoop
      /\ p <= Len(inp) /\ ok_char_nb < CharMax
      /\ Rejected
      /\ Collected(GrepOkWith(inp[p]))
      /\ grep_char_ok' = GrepOkWith(inp[p])
      /\ UNCHANGED <<given_vars, inp, grep_char, results, inp_start_p, ok_s_p,
                     ok_char_nb, chars_min_nb, last_s_was_maybe_cut,
                     require_same_unicode_block>>
  BY DEF Break, InLoop, given_vars
<1>2. /\ TypeOK /\ PlaceInv /\ Iterating /\ p = End
      /\ p \in Nat /\ p \in 1 .. Len(inp) /\ Len(inp) \in Nat /\ ok_s_p \in Nat
      /\ ok_char_nb \in Nat /\ chars_min_nb \in Nat
      /\ p = ok_s_p + ok_char_nb
  BY <1>1, SplitTypes DEF IteratorInv, PlaceInv, Iterating, InLoop, TypeOK, End
<1>3. /\ p' = IF PassesFilter(inp[p]) THEN p ELSE p + 1
      /\ p' \in 1 .. Len(inp) + 1
      /\ last_multi_char_leading_byte' \in LeadingBytes
  BY <1>1, <1>2, Skips DEF Break
<1>4. TypeOK'
  <2>1. grep_char_ok' \in BOOLEAN
    BY <1>1, <1>2 DEF GrepOkWith, TypeOK
  <2> QED  BY <1>1, <1>2, <1>3, <2>1 DEF TypeOK, given_vars
<1>6. End' = End /\ Current' = Current
  BY <1>1 DEF End, Current
<1>7. PlaceInv'
  <2>1. ~require_same_unicode_block => p' = p + 1
    BY <1>1, <1>3 DEF Rejected, OtherBlock
  <2> QED  BY <1>1, <1>2, <1>3, <1>6, <2>1 DEF PlaceInv, Collected
<1>8. StringInv'
  BY <1>1, <1>6 DEF IteratorInv, StringInv, Homogeneous, PassesFilter, IsMultibyte
<1>9. ResultsInv' /\ LastResult' = LastResult
  BY <1>1, ResultsFrame DEF IteratorInv
<1>10. Front = ok_s_p /\ Front' = ok_s_p
  BY <1>1 DEF Front
<1>11. BehindInv' /\ CutInv'
  BY <1>1, <1>2, <1>9, <1>10 DEF IteratorInv, BehindInv, CutInv, EndOf
<1>12. GrepInv'
  <2>1. NoGrep => grep_char_ok'
    BY <1>1 DEF IteratorInv, GrepInv, GrepOkWith
  <2>2. ASSUME GrepPasses, grep_char_ok', ~NoGrep
        PROVE  \E i \in Current : inp[i] \in grep_char
    <3>1. inp[p] \notin grep_char
      <4>1. ASSUME inp[p] \in grep_char PROVE FALSE
        <5>1. inp[p] \in Af /\ inp[p] \in Ascii
          BY <2>2, <4>1, FilterIsTyped DEF IteratorInv, GrepInv, GrepPasses, NoGrep
        <5>2. PassesFilter(inp[p]) /\ ~OtherBlock(inp[p])
          BY <5>1 DEF PassesFilter, OtherBlock, IsMultibyte
        <5> QED  BY <1>1, <5>2 DEF Rejected
      <4> QED  BY <4>1
    <3>2. grep_char_ok
      BY <1>1, <2>2, <3>1 DEF GrepOkWith
    <3> QED  BY <1>1, <2>2, <3>2 DEF IteratorInv, GrepInv
  <2>3. grep_char' = grep_char /\ inp' = inp
    BY <1>1
  <2> QED  BY <1>1, <1>6, <2>1, <2>2, <2>3 DEF IteratorInv, GrepInv, NoGrep, GrepPasses
<1> QED  BY <1>4, <1>7, <1>8, <1>9, <1>11, <1>12 DEF IteratorInv

LEMMA ExhaustKeeps ==
  ASSUME IteratorInv, Exhaust
  PROVE  IteratorInv'
<1>1. /\ pc' = "exhausted"
      /\ UNCHANGED <<given_vars, inp, inp_start_p, p, last_s_was_maybe_cut, ok_s_p,
                     ok_char_nb, grep_char_ok, last_multi_char_leading_byte, grep_char,
                     chars_min_nb, invalid_bytes_after_inp, results>>
  BY DEF Exhaust, iterator_vars, given_vars, local_vars
<1>2. TypeOK'
  BY <1>1 DEF IteratorInv, TypeOK, given_vars
<1>3. PlaceInv' /\ StringInv' /\ BehindInv' /\ CutInv'
  BY <1>1 DEF PlaceInv, StringInv, BehindInv, CutInv, Iterating
<1>4. GrepInv'
  BY <1>1 DEF IteratorInv, GrepInv
<1>5. ResultsInv'
  BY <1>1, ResultsFrame DEF IteratorInv
<1> QED  BY <1>2, <1>3, <1>4, <1>5 DEF IteratorInv

\* What Return adds to the results.
LEMMA ReturnAppends ==
  ASSUME IteratorInv, Return
  PROVE  \E r \in Result :
           /\ r.from = ok_s_p /\ r.nb = ok_char_nb
           /\ r.s_completes_previous_s = CompletesPrevious
           /\ r.s_is_maybe_cut = IsMaybeCut
           /\ r.s_is_to_be_filtered_again = ToBeFilteredAgain
           /\ Len(results') = Len(results) + 1
           /\ \A k \in 1 .. Len(results) : results'[k] = results[k]
           /\ results'[Len(results) + 1] = r
           /\ results' \in Seq(Result)
           /\ EndOf(r) = End /\ PlacesOf(r) = Current
<1> DEFINE r == [ from                       |-> ok_s_p,
                  nb                         |-> ok_char_nb,
                  s_completes_previous_s     |-> CompletesPrevious,
                  s_is_maybe_cut             |-> IsMaybeCut,
                  s_is_to_be_filtered_again  |-> ToBeFilteredAgain,
                  s_satisfies_min_char_rule  |-> ok_char_nb >= chars_min_nb,
                  s_satisfies_grep_char_rule |-> grep_char_ok ]
<1>1. results' = Append(results, r) /\ ok_char_nb > 0
  BY DEF Return
<1>2. /\ ok_s_p \in Nat \ {0} /\ ok_char_nb \in Nat \ {0}
      /\ grep_char_ok \in BOOLEAN
      /\ results \in Seq(Result)
  BY <1>1, SplitTypes DEF IteratorInv, TypeOK
<1>3. /\ CompletesPrevious \in BOOLEAN /\ IsMaybeCut \in BOOLEAN
      /\ ToBeFilteredAgain \in BOOLEAN
      /\ (ok_char_nb >= chars_min_nb) \in BOOLEAN
  BY DEF CompletesPrevious, IsMaybeCut, ToBeFilteredAgain
<1>4. r \in Result
  BY <1>2, <1>3 DEF Result
<1>5. /\ Len(results') = Len(results) + 1
      /\ \A k \in 1 .. Len(results) : results'[k] = results[k]
      /\ results'[Len(results) + 1] = r
      /\ results' \in Seq(Result)
  BY <1>1, <1>2, <1>4, AppendProperties
<1>6. EndOf(r) = End /\ PlacesOf(r) = Current
  <2>1. r.from = ok_s_p /\ r.nb = ok_char_nb
    OBVIOUS
  <2> QED  BY <1>2, <2>1 DEF EndOf, End, PlacesOf, Current
<1> QED  BY <1>4, <1>5, <1>6

LEMMA ReturnKeeps ==
  ASSUME IteratorInv, Return
  PROVE  IteratorInv'
<1> DEFINE n == Len(results)
<1>1. /\ pc' = "returned"
      /\ pc = "break" \/ (pc = "loop" /\ ~InLoop)
      /\ ok_char_nb > 0 /\ ~IsDismissed
      /\ inp_start_p' = IF ok_char_nb >= CharMax THEN p ELSE inp_start_p
      /\ last_s_was_maybe_cut' = IsMaybeCut
      /\ UNCHANGED <<given_vars, inp, p, ok_s_p, ok_char_nb, grep_char_ok,
                     last_multi_char_leading_byte, grep_char, chars_min_nb,
                     invalid_bytes_after_inp, require_same_unicode_block>>
  BY DEF Return, LoopLeft, given_vars, local_vars
<1>2. /\ TypeOK /\ PlaceInv /\ Iterating
      /\ p \in Nat /\ p <= Len(inp) + 1 /\ Len(inp) \in Nat
      /\ ok_s_p \in Nat /\ ok_s_p >= 1
      /\ ok_char_nb \in Nat /\ ok_char_nb <= CharMax /\ CharMax \in Nat
      /\ chars_min_nb \in Nat
      /\ n \in Nat
  BY <1>1, SplitTypes, FilterIsTyped DEF IteratorInv, Iterating, TypeOK
<1>3. /\ End \in Nat /\ End = ok_s_p + ok_char_nb
      /\ End <= p /\ End <= Len(inp) + 1
      /\ pc = "loop" => p = End
      /\ pc = "break" => ok_char_nb < CharMax /\ p \in {End, End + 1}
  BY <1>2, EndInBuffer DEF PlaceInv
<1>4. PICK r \in Result :
        /\ r.from = ok_s_p /\ r.nb = ok_char_nb
        /\ r.s_completes_previous_s = CompletesPrevious
        /\ r.s_is_maybe_cut = IsMaybeCut
        /\ r.s_is_to_be_filtered_again = ToBeFilteredAgain
        /\ Len(results') = n + 1
        /\ \A k \in 1 .. n : results'[k] = results[k]
        /\ results'[n + 1] = r
        /\ results' \in Seq(Result)
        /\ EndOf(r) = End /\ PlacesOf(r) = Current
  BY ReturnAppends
<1> HIDE DEF n
<1>5. \A k \in 1 .. Len(results') : \/ k \in 1 .. n /\ results'[k] = results[k]
                                    \/ k = n + 1 /\ results'[k] = r
  BY <1>2, <1>4
<1>6. TypeOK'
  <2>1. IsMaybeCut \in BOOLEAN
    BY DEF IsMaybeCut
  <2>2. inp_start_p' \in 1 .. Len(inp) + 1
    BY <1>1, <1>2 DEF TypeOK
  <2> QED  BY <1>1, <1>2, <1>4, <2>1, <2>2 DEF TypeOK, given_vars
<1>8. End' = End
  BY <1>1 DEF End
<1>9. PlaceInv'
  <2>1. results' # <<>>
    BY <1>2, <1>4, EmptySeq
  <2> QED  BY <1>1, <1>3, <1>8, <2>1 DEF PlaceInv
<1>10. StringInv' /\ GrepInv'
  BY <1>1 DEF IteratorInv, StringInv, GrepInv
<1>11. results' # <<>> /\ LastResult' = r
  BY <1>2, <1>4, EmptySeq DEF LastResult
<1>12. BehindInv'
  BY <1>1, <1>3, <1>4, <1>11 DEF BehindInv, Front, EndOf
<1>13. CutInv'
  <2>1. IsMaybeCut => inp_start_p' = EndOf(r) \/ EndOf(r) = Len(inp) + 1
    <3>1. CASE ok_char_nb >= CharMax
      BY <1>1, <1>2, <1>3, <1>4, <3>1
    <3>2. CASE TouchesRight
      BY <1>2, <1>3, <1>4, <3>2 DEF TouchesRight
    <3> QED  BY <3>1, <3>2 DEF IsMaybeCut
  <2> QED  BY <1>1, <1>4, <1>11, <2>1 DEF CutInv, EndOf
\* The results before this one end at or in front of it.
<1>14. n # 0 => /\ LastResult = results[n] /\ n \in 1 .. n
                /\ EndOf(results[n]) <= ok_s_p
                /\ EndOf(results[n]) \in Nat
                /\ EndOf(results[n]) # Len(inp) + 1
  <2> SUFFICES ASSUME n # 0
               PROVE  /\ LastResult = results[n] /\ n \in 1 .. n
                      /\ EndOf(results[n]) <= ok_s_p
                      /\ EndOf(results[n]) \in Nat
                      /\ EndOf(results[n]) # Len(inp) + 1
    OBVIOUS
  <2>1. LastResult = results[n] /\ n \in 1 .. n /\ results # <<>>
    BY <1>2, EmptySeq DEF LastResult, n
  <2>2. EndOf(results[n]) <= ok_s_p
    BY <1>1, <1>2, <2>1 DEF IteratorInv, BehindInv, Front
  <2>3. EndOf(results[n]) \in Nat
    BY <1>2, <2>1, SplitTypes DEF EndOf, n
  <2> QED  BY <1>1, <1>2, <1>3, <2>1, <2>2, <2>3
<1>15. ResultsAreStrings'
  <2>1. /\ Homogeneous(Current) /\ End <= Len(inp) + 1 /\ ok_char_nb <= CharMax
    BY <1>1, <1>2, <1>3 DEF IteratorInv, StringInv
  <2>2. /\ EndOf(r) <= Len(inp) + 1 /\ r.nb <= CharMax
        /\ Homogeneous(PlacesOf(r))
    BY <1>4, <2>1
  <2>3. \A k \in 1 .. n : /\ EndOf(results[k]) <= Len(inp) + 1
                          /\ results[k].nb <= CharMax
                          /\ Homogeneous(PlacesOf(results[k]))
    BY DEF IteratorInv, ResultsInv, ResultsAreStrings, n
  <2>4. \A k \in 1 .. n - 1 : EndOf(results[k]) <= results[k + 1].from
    BY DEF IteratorInv, ResultsInv, ResultsAreStrings, n
  <2>5. \A k \in 1 .. Len(results') :
          /\ EndOf(results'[k]) <= Len(inp) + 1
          /\ results'[k].nb <= CharMax
          /\ Homogeneous(PlacesOf(results'[k]))
    BY <1>5, <2>2, <2>3
  <2>6. ASSUME NEW k \in 1 .. Len(results') - 1
        PROVE  EndOf(results'[k]) <= results'[k + 1].from
    <3>1. k \in 1 .. n /\ results'[k] = results[k]
      BY <1>2, <1>4
    <3>2. CASE k = n
      BY <1>2, <1>4, <1>14, <3>1, <3>2
    <3>3. CASE k # n
      <4>1. k \in 1 .. n - 1 /\ k + 1 \in 1 .. n
        BY <1>2, <3>1, <3>3
      <4> QED  BY <1>4, <2>4, <3>1, <4>1
    <3> QED  BY <3>2, <3>3
  <2>7. \A P : Homogeneous(P)' <=> Homogeneous(P)
    BY <1>1 DEF Homogeneous
  <2> QED  BY <1>1, <2>5, <2>6, <2>7 DEF ResultsAreStrings, EndOf, PlacesOf
<1>16. ContinuesInv'
  <2>1. ASSUME NEW k \in 1 .. n
        PROVE  IF k = 1
               THEN results'[k].s_completes_previous_s => results'[k].from = 1
               ELSE results'[k].s_completes_previous_s <=>
                      /\ results'[k - 1].s_is_maybe_cut
                      /\ results'[k].from = EndOf(results'[k - 1])
    <3>1. k # 1 => k - 1 \in 1 .. n
      BY <1>2
    <3>2. results'[k] = results[k] /\ (k # 1 => results'[k - 1] = results[k - 1])
      BY <1>4, <3>1
    <3> QED  BY <3>2 DEF IteratorInv, ResultsInv, ContinuesInv, n
  <2>2. CASE n = 0
    <3>1. results = <<>>
      BY <1>2, <2>2, SplitTypes, EmptySeq DEF n
    <3>2. CompletesPrevious => r.from = 1
      BY <1>2, <1>4, <3>1 DEF IteratorInv, CutInv, CompletesPrevious, TouchesLeft
    <3> QED  BY <1>1, <1>4, <1>5, <2>2, <3>2 DEF ContinuesInv
  <2>3. CASE n # 0
    <3>1. results # <<>> /\ LastResult = results[n]
      BY <1>14, <2>3, EmptySeq DEF n
    <3>2. CompletesPrevious <=> results[n].s_is_maybe_cut /\ r.from = EndOf(results[n])
      BY <1>2, <1>4, <1>14, <2>3, <3>1
         DEF IteratorInv, CutInv, CompletesPrevious, TouchesLeft
    <3>3. n + 1 # 1 /\ (n + 1) - 1 = n /\ results'[n] = results[n]
      BY <1>2, <1>4, <1>14, <2>3
    <3> QED  BY <1>1, <1>4, <1>5, <2>1, <3>2, <3>3 DEF ContinuesInv, EndOf
  <2> QED  BY <2>2, <2>3
<1>17. KeptStringIsLast'
  <2>1. \A k \in 1 .. n : ~results[k].s_is_to_be_filtered_again
    <3> SUFFICES ASSUME NEW k \in 1 .. n, results[k].s_is_to_be_filtered_again
                 PROVE  FALSE
      OBVIOUS
    <3>1. k = n /\ EndOf(results[k]) = Len(inp) + 1
      BY DEF IteratorInv, ResultsInv, KeptStringIsLast, n
    <3> QED  BY <1>2, <1>14, <3>1
  <2>2. r.s_is_to_be_filtered_again => End = Len(inp) + 1
    <3>1. TouchesRight => End = Len(inp) + 1
      BY <1>2, <1>3 DEF TouchesRight
    <3>2. r.s_is_to_be_filtered_again => TouchesRight
      BY <1>4 DEF ToBeFilteredAgain
    <3> QED  BY <3>1, <3>2
  <2> QED  BY <1>1, <1>2, <1>4, <1>5, <2>1, <2>2 DEF KeptStringIsLast, EndOf
<1>18. GrepPasses => MinAndGrepObserved'
  <2> SUFFICES ASSUME GrepPasses, NEW k \in 1 .. Len(results'),
                      ~results'[k].s_completes_previous_s,
                      ~results'[k].s_is_to_be_filtered_again
               PROVE  /\ results'[k].nb >= chars_min_nb
                      /\ NoGrep \/ \E i \in PlacesOf(results'[k]) : inp[i] \in grep_char
    BY <1>1 DEF MinAndGrepObserved, NoGrep, PlacesOf
  <2>1. CASE k \in 1 .. n /\ results'[k] = results[k]
    BY <2>1 DEF IteratorInv, ResultsInv, MinAndGrepObserved, n
  <2>2. CASE k = n + 1 /\ results'[k] = r
    <3>1. grep_char_ok /\ ok_char_nb >= chars_min_nb
      BY <1>1, <1>2, <1>4, <2>2 DEF IsDismissed
    <3> QED  BY <1>1, <1>4, <2>2, <3>1 DEF IteratorInv, GrepInv
  <2> QED  BY <1>5, <2>1, <2>2
<1>19. KeptInv'
  <2>1. r.s_is_to_be_filtered_again =>
          /\ ~r.s_completes_previous_s
          /\ ~invalid_bytes_after_inp
          /\ NoGrep => r.nb < CharMax
          /\ r.nb = CharMax => \A i \in PlacesOf(r) : inp[i] \notin grep_char
    <3> SUFFICES ASSUME ToBeFilteredAgain
                 PROVE  /\ ~CompletesPrevious /\ ~invalid_bytes_after_inp
                        /\ NoGrep => ok_char_nb < CharMax
                        /\ ok_char_nb = CharMax => \A i \in Current : inp[i] \notin grep_char
      BY <1>4
    <3>1. ok_char_nb < CharMax \/ ~grep_char_ok
      BY DEF ToBeFilteredAgain
    <3>2. ok_char_nb = CharMax => pc = "loop" /\ ~grep_char_ok
      BY <1>1, <1>2, <1>3, <3>1
    <3>3. NoGrep => grep_char_ok
      BY <1>1 DEF IteratorInv, GrepInv
    <3> QED  BY <3>1, <3>2, <3>3 DEF ToBeFilteredAgain, IteratorInv, GrepInv
  <2>2. \A k \in 1 .. n : results[k].s_is_to_be_filtered_again =>
          /\ ~results[k].s_completes_previous_s
          /\ ~invalid_bytes_after_inp
          /\ NoGrep => results[k].nb < CharMax
          /\ results[k].nb = CharMax =>
                \A i \in PlacesOf(results[k]) : inp[i] \notin grep_char
    BY DEF IteratorInv, ResultsInv, KeptInv, n
  <2>3. UNCHANGED <<invalid_bytes_after_inp, grep_char, inp>>
    BY <1>1
  <2> QED  BY <1>5, <2>1, <2>2, <2>3 DEF KeptInv, NoGrep, PlacesOf
<1>20. ResultsInv'
  BY <1>15, <1>16, <1>17, <1>18, <1>19 DEF ResultsInv, GrepPasses
<1> QED  BY <1>6, <1>9, <1>10, <1>12, <1>13, <1>20 DEF IteratorInv

LEMMA NextStepKeeps ==
  ASSUME IteratorInv, NextStep
  PROVE  IteratorInv'
BY AcceptKeeps, RestartKeeps, BreakKeeps, ExhaustKeeps, ReturnKeeps DEF NextStep

LEMMA UnchangedKeeps ==
  ASSUME IteratorInv, UNCHANGED split_vars
  PROVE  IteratorInv'
<1>1. /\ UNCHANGED <<given_vars, inp, invalid_bytes_after_inp, chars_min_nb,
                     require_same_unicode_block, grep_char>>
      /\ UNCHANGED <<inp_start_p, p, last_s_was_maybe_cut, pc, results>>
      /\ UNCHANGED <<ok_s_p, ok_char_nb, grep_char_ok, last_multi_char_leading_byte>>
  BY DEF split_vars, iterator_vars, given_vars, local_vars
<1>2. ResultsInv' /\ LastResult' = LastResult
  BY <1>1, ResultsFrame DEF IteratorInv
<1>3. TypeOK'
  BY <1>1 DEF IteratorInv, TypeOK
<1>4. PlaceInv' /\ StringInv' /\ GrepInv'
  BY <1>1 DEF IteratorInv, PlaceInv, StringInv, GrepInv, End, Current, Homogeneous,
              Collected, NoGrep
<1>5. BehindInv' /\ CutInv'
  BY <1>1, <1>2 DEF IteratorInv, BehindInv, CutInv, Front, Iterating, EndOf
<1> QED  BY <1>2, <1>3, <1>4, <1>5 DEF IteratorInv

LEMMA NoIteratorHasIt ==
  ASSUME NoIterator
  PROVE  IteratorInv
<1>1. /\ inp = <<>> /\ inp_start_p = 1 /\ p = 1 /\ last_s_was_maybe_cut = FALSE
      /\ invalid_bytes_after_inp = FALSE /\ chars_min_nb = 0
      /\ require_same_unicode_block = FALSE /\ grep_char = {}
      /\ pc = "none" /\ ok_s_p = 1 /\ ok_char_nb = 0 /\ grep_char_ok = TRUE
      /\ last_multi_char_leading_byte = 0 /\ results = <<>>
  BY DEF NoIterator
<1>2. Len(inp) = 0 /\ Len(results) = 0
  BY <1>1, EmptySeq
<1>3. inp \in Seq(LeadingBytes) /\ results \in Seq(Result)
  BY <1>1, EmptySeq
<1>4. TypeOK
  <2>1. GrepCharOK(grep_char) /\ last_multi_char_leading_byte \in LeadingBytes
    BY <1>1 DEF GrepCharOK, LeadingBytes, Ascii
  <2>2. ok_char_nb \in 0 .. CharMax
    BY <1>1, FilterIsTyped
  <2>3. /\ inp_start_p \in 1 .. Len(inp) + 1 /\ p \in 1 .. Len(inp) + 1
        /\ ok_s_p \in 1 .. Len(inp) + 1
    BY <1>1, <1>2
  <2>4. /\ last_s_was_maybe_cut \in BOOLEAN /\ invalid_bytes_after_inp \in BOOLEAN
        /\ require_same_unicode_block \in BOOLEAN /\ grep_char_ok \in BOOLEAN
    BY <1>1
  <2>5. /\ chars_min_nb \in 0 .. 255
        /\ pc \in {"none", "loop", "break", "returned", "exhausted"}
    BY <1>1
  <2> QED  BY <1>3, <2>1, <2>2, <2>3, <2>4, <2>5 DEF TypeOK
<1>5. PlaceInv /\ StringInv /\ BehindInv /\ CutInv /\ GrepInv
  BY <1>1 DEF PlaceInv, StringInv, BehindInv, CutInv, GrepInv, Iterating
<1>6. ResultsInv
  BY <1>2 DEF ResultsInv, ResultsAreStrings, ContinuesInv, KeptStringIsLast, KeptInv,
              MinAndGrepObserved
<1> QED  BY <1>4, <1>5, <1>6 DEF IteratorInv

-----------------------------------------------------------------------------
(* A buffer that begins with a string kept from the buffer before.         *)

\* The first m characters may be such a string.
KeptPrefix(m) ==
    /\ m \in 0 .. Len(inp) /\ m <= CharMax
    /\ Homogeneous(1 .. m)
    /\ m = CharMax => ~NoGrep /\ \A i \in 1 .. m : inp[i] \notin grep_char

\* The block remembered is the one of these characters.
KnownBlock(m) ==
    \/ last_multi_char_leading_byte = 0
    \/ \E i \in 1 .. m : IsMultibyte(inp[i]) /\ inp[i] = last_multi_char_leading_byte

\* Nothing is given back that ends within them, so all results but the first start
\* behind them; and behind the character that follows, unless it may be another
\* block's.
FirstInv(m) ==
    Iterating /\ results = <<>> =>
        /\ m > 0 => ~last_s_was_maybe_cut
        /\ ok_s_p = 1 \/ m < ok_s_p
        /\ pc = "break" => m < End
        /\ pc = "loop" /\ p <= m => KnownBlock(m)

FrontInv(m) ==
    Iterating /\ results # <<>> =>
        /\ m < Front
        /\ require_same_unicode_block \/ m + 1 < Front \/ Len(inp) < Front

LaterInv(m) ==
    \A k \in 2 .. Len(results) :
        /\ m < results[k].from
        /\ require_same_unicode_block \/ m + 1 < results[k].from

PrefixInv(m) == FirstInv(m) /\ FrontInv(m) /\ LaterInv(m)

LEMMA NewHasPrefix ==
  ASSUME NEW m \in Nat, NEW buffer, NEW min, NEW same_block, NEW continue, NEW invalid,
         NEW grep, New(buffer, min, same_block, continue, invalid, grep), m > 0 => ~continue
  PROVE  PrefixInv(m)'
<1>1. /\ last_s_was_maybe_cut' = continue /\ pc' = "loop" /\ ok_s_p' = 1
      /\ last_multi_char_leading_byte' = 0 /\ results' = <<>>
  BY DEF New
<1>2. Len(results') = 0
  BY <1>1
<1> QED  BY <1>1, <1>2 DEF PrefixInv, FirstInv, FrontInv, LaterInv, KnownBlock

LEMMA CallNextKeepsPrefix ==
  ASSUME IteratorInv, NEW m \in Nat, PrefixInv(m), CallNext
  PROVE  PrefixInv(m)'
<1>1. /\ pc = "returned" /\ pc' = "loop" /\ ok_s_p' = p /\ results # <<>>
      /\ UNCHANGED <<results, inp, p, require_same_unicode_block>>
  BY DEF CallNext, iterator_vars, given_vars, IteratorInv, PlaceInv
<1>2. Front' = Front /\ Iterating
  BY <1>1 DEF Front, Iterating
<1> QED  BY <1>1, <1>2 DEF PrefixInv, FirstInv, FrontInv, LaterInv

\* No character of the prefix is rejected.
LEMMA PrefixPasses ==
  ASSUME IteratorInv, NEW m \in Nat, KeptPrefix(m), PrefixInv(m), InLoop, Rejected,
         results = <<>>
  PROVE  m < p
<1> SUFFICES ASSUME ~(m < p) PROVE FALSE
  OBVIOUS
<1>1. pc = "loop" /\ Iterating /\ p \in Nat /\ p >= 1 /\ p <= m /\ p \in 1 .. m
  BY SplitTypes DEF InLoop, Iterating, IteratorInv, TypeOK
<1>2. PassesFilter(inp[p])
  BY <1>1 DEF KeptPrefix, Homogeneous
<1>3. /\ require_same_unicode_block /\ IsMultibyte(inp[p])
      /\ last_multi_char_leading_byte \notin {0, inp[p]}
  BY <1>2 DEF Rejected, OtherBlock
<1>4. PICK i \in 1 .. m : IsMultibyte(inp[i]) /\ inp[i] = last_multi_char_leading_byte
  BY <1>1, <1>3 DEF PrefixInv, FirstInv, KnownBlock
<1>5. inp[i] = inp[p]
  BY <1>1, <1>3, <1>4 DEF KeptPrefix, Homogeneous
<1> QED  BY <1>3, <1>4, <1>5

\* The first result goes beyond the prefix, and what follows it starts behind one
\* more character.
LEMMA FirstResultCoversPrefix ==
  ASSUME IteratorInv, NEW m \in Nat, KeptPrefix(m), PrefixInv(m), Return, results = <<>>
  PROVE  /\ m < p
         /\ require_same_unicode_block \/ m + 1 < p \/ Len(inp) < p
<1>1. /\ pc = "break" \/ (pc = "loop" /\ ~InLoop)
      /\ ok_char_nb > 0 /\ ~IsDismissed
  BY DEF Return, LoopLeft
<1>2. /\ TypeOK /\ PlaceInv /\ Iterating
      /\ p \in Nat /\ Len(inp) \in Nat /\ ok_s_p \in Nat /\ ok_s_p >= 1
      /\ ok_char_nb \in Nat /\ ok_char_nb <= CharMax /\ CharMax \in Nat
      /\ End = ok_s_p + ok_char_nb
      /\ m <= Len(inp) /\ m <= CharMax
  BY <1>1, SplitTypes, FilterIsTyped DEF IteratorInv, Iterating, TypeOK, End, KeptPrefix
<1>3. /\ m > 0 => ~last_s_was_maybe_cut
      /\ ok_s_p = 1 \/ m < ok_s_p
  BY <1>2 DEF PrefixInv, FirstInv
<1>4. CASE pc = "break"
  <2>1. m < End /\ p \in {End, End + 1} /\ (p = End + 1 \/ require_same_unicode_block)
    BY <1>2, <1>4 DEF PrefixInv, FirstInv, PlaceInv
  <2> QED  BY <1>2, <2>1
<1>5. CASE pc = "loop" /\ p > Len(inp)
  BY <1>2, <1>5
<1>6. CASE pc = "loop" /\ p <= Len(inp)
  <2>1. ok_char_nb = CharMax /\ p = ok_s_p + CharMax /\ CharMax >= 1
    BY <1>1, <1>2, <1>6 DEF InLoop, PlaceInv
  <2>2. m < p
    BY <1>2, <1>3, <2>1
  <2>3. CASE m < ok_s_p \/ m # CharMax
    <3>1. m + 1 < p
      BY <1>2, <1>3, <2>1, <2>3
    <3> QED  BY <2>2, <3>1
  <2>4. ASSUME ok_s_p = 1, m = CharMax PROVE FALSE
    <3>1. \A i \in Current : i \in 1 .. m
      BY <1>2, <2>1, <2>4, EndInBuffer
    <3>2. ~grep_char_ok
      BY <1>6, <2>4, <3>1 DEF IteratorInv, GrepInv, KeptPrefix
    <3>3. ~CompletesPrevious
      BY <1>3, <2>1, <2>4 DEF CompletesPrevious
    <3>4. ~TouchesRight
      BY <1>2, <1>6, <2>1 DEF TouchesRight
    <3> QED  BY <1>1, <3>2, <3>3, <3>4 DEF IsDismissed, ToBeFilteredAgain
  <2> QED  BY <1>3, <2>2, <2>3, <2>4
<1> QED  BY <1>1, <1>2, <1>4, <1>5, <1>6

LEMMA NextStepKeepsPrefix ==
  ASSUME IteratorInv, NEW m \in Nat, KeptPrefix(m), PrefixInv(m), NextStep
  PROVE  KeptPrefix(m)' /\ PrefixInv(m)'
<1>1. UNCHANGED <<inp, grep_char, require_same_unicode_block>>
  BY DEF NextStep, Accept, Restart, Break, Exhaust, Return, given_vars, iterator_vars
<1>2. KeptPrefix(m)'
  BY <1>1 DEF KeptPrefix, Homogeneous, NoGrep
<1> SUFFICES PrefixInv(m)'
  BY <1>2
<1>3. /\ p \in Nat /\ Len(inp) \in Nat /\ ok_s_p \in Nat /\ ok_char_nb \in Nat
      /\ results \in Seq(Result) /\ Len(results) \in Nat
      /\ pc = "loop" => p = ok_s_p + ok_char_nb
  BY SplitTypes DEF IteratorInv, PlaceInv, End
<1>4. CASE Accept
  <2>1. /\ pc = "loop" /\ pc' = "loop" /\ p' = p + 1
        /\ last_multi_char_leading_byte' =
              IF IsMultibyte(inp[p]) THEN inp[p] ELSE last_multi_char_leading_byte
        /\ UNCHANGED <<ok_s_p, results, last_s_was_maybe_cut>>
    BY <1>4 DEF Accept, InLoop
  <2>2. Front' = Front /\ Iterating
    BY <2>1 DEF Front, Iterating
  <2>3. p' <= m => p <= m /\ p \in 1 .. m
    BY <1>3, <2>1 DEF IteratorInv, TypeOK
  <2>4. FirstInv(m) /\ FrontInv(m) /\ LaterInv(m)
    BY DEF PrefixInv
  <2>5. ASSUME KnownBlock(m), p \in 1 .. m PROVE KnownBlock(m)'
    <3>1. CASE IsMultibyte(inp[p])
      BY <1>1, <2>1, <2>5, <3>1 DEF KnownBlock, IsMultibyte
    <3>2. CASE ~IsMultibyte(inp[p])
      BY <1>1, <2>1, <2>5, <3>2 DEF KnownBlock, IsMultibyte
    <3> QED  BY <3>1, <3>2
  <2>6. FirstInv(m)'
    BY <2>1, <2>2, <2>3, <2>4, <2>5 DEF FirstInv
  <2>7. FrontInv(m)' /\ LaterInv(m)'
    BY <1>1, <2>1, <2>2, <2>4 DEF FrontInv, LaterInv
  <2> QED  BY <2>6, <2>7 DEF PrefixInv
<1>5. CASE Restart
  <2>1. /\ InLoop /\ Rejected /\ pc = "loop" /\ pc' = "loop" /\ ok_s_p' = p'
        /\ UNCHANGED <<results, last_s_was_maybe_cut>>
        /\ p' \in Nat /\ p <= p'
    <3>1. p' = p \/ p' = p + 1
      BY <1>5 DEF Restart, SkipRejected
    <3> QED  BY <1>3, <1>5, <3>1 DEF Restart, InLoop
  <2>2. Front = ok_s_p /\ Front' = p' /\ Iterating /\ ok_s_p <= p'
    BY <1>3, <2>1 DEF Front, Iterating
  <2>3. CASE results = <<>>
    <3>1. m < p'
      BY <1>3, <2>1, <2>3, PrefixPasses
    <3>2. ~(p' <= m)
      BY <2>1, <3>1
    <3> QED  BY <1>1, <2>1, <2>2, <2>3, <3>1, <3>2 DEF PrefixInv, FirstInv, FrontInv, LaterInv
  <2>4. CASE results # <<>>
    <3>1. /\ m < ok_s_p
          /\ require_same_unicode_block \/ m + 1 < ok_s_p \/ Len(inp) < ok_s_p
      BY <2>2, <2>4 DEF PrefixInv, FrontInv
    <3>2. /\ m < p'
          /\ require_same_unicode_block \/ m + 1 < p' \/ Len(inp) < p'
      BY <1>3, <2>1, <2>2, <3>1
    <3> QED  BY <1>1, <2>1, <2>2, <2>4, <3>2 DEF PrefixInv, FirstInv, FrontInv, LaterInv
  <2> QED  BY <2>3, <2>4
<1>6. CASE Break
  <2>1. /\ InLoop /\ Rejected /\ pc = "loop" /\ pc' = "break"
        /\ UNCHANGED <<results, last_s_was_maybe_cut, ok_s_p, ok_char_nb>>
    BY <1>6 DEF Break, InLoop
  <2>2. Front' = Front /\ Iterating /\ End' = End /\ p = End
    BY <1>3, <2>1 DEF Front, Iterating, End
  <2>3. results = <<>> => m < End
    BY <2>1, <2>2, PrefixPasses
  <2> QED  BY <1>1, <2>1, <2>2, <2>3 DEF PrefixInv, FirstInv, FrontInv, LaterInv
<1>7. CASE Exhaust
  <2>1. pc' = "exhausted" /\ results' = results
    BY <1>7 DEF Exhaust
  <2> QED  BY <1>1, <2>1 DEF PrefixInv, FirstInv, FrontInv, LaterInv, Iterating
<1>8. CASE Return
  <2>1. /\ pc' = "returned" /\ p' = p /\ Iterating /\ pc # "returned"
        /\ pc = "break" \/ pc = "loop"
    BY <1>8 DEF Return, LoopLeft, Iterating
  <2>2. /\ Front = ok_s_p /\ Front' = p
        /\ ok_s_p <= p /\ ok_s_p <= Len(inp)
    <3>1. End <= p /\ p <= Len(inp) + 1
      BY <2>1, EndInBuffer DEF IteratorInv
    <3>2. End <= Len(inp) + 1 /\ ok_char_nb > 0
      BY <1>3, <1>8, <2>1, <3>1 DEF IteratorInv, PlaceInv, Return, End
    <3> QED  BY <1>3, <2>1, <3>1, <3>2 DEF Front, End
  <2>3. PICK r \in Result :
           /\ r.from = ok_s_p
           /\ Len(results') = Len(results) + 1
           /\ \A k \in 1 .. Len(results) : results'[k] = results[k]
           /\ results'[Len(results) + 1] = r
    BY <1>8, ReturnAppends
  <2>4. results' # <<>>
    BY <1>3, <2>3, EmptySeq
  <2>5. CASE results = <<>>
    <3>1. /\ m < p
          /\ require_same_unicode_block \/ m + 1 < p \/ Len(inp) < p
      BY <1>8, <2>5, FirstResultCoversPrefix
    <3>2. \A k : k \notin 2 .. Len(results')
      BY <2>3, <2>5, EmptySeq
    <3> QED  BY <1>1, <2>1, <2>2, <2>4, <3>1, <3>2 DEF PrefixInv, FirstInv, FrontInv, LaterInv
  <2>6. CASE results # <<>>
    <3>1. /\ m < ok_s_p
          /\ require_same_unicode_block \/ m + 1 < ok_s_p \/ Len(inp) < ok_s_p
      BY <2>1, <2>2, <2>6 DEF PrefixInv, FrontInv
    <3>2. require_same_unicode_block \/ m + 1 < ok_s_p
      BY <1>3, <2>2, <3>1
    <3>3. m < p /\ (require_same_unicode_block \/ m + 1 < p \/ Len(inp) < p)
      BY <1>3, <2>2, <3>1, <3>2
    <3>4. ASSUME NEW k \in 2 .. Len(results')
          PROVE  m < results'[k].from /\ (require_same_unicode_block \/ m + 1 < results'[k].from)
      <4>1. k \in 2 .. Len(results) \/ k = Len(results) + 1
        BY <1>3, <2>3, <3>4
      <4>2. CASE k = Len(results) + 1
        BY <2>3, <3>1, <3>2, <4>2
      <4>3. CASE k \in 2 .. Len(results)
        <5>1. results'[k] = results[k]
          BY <1>3, <2>3, <4>3
        <5> QED  BY <4>3, <5>1 DEF PrefixInv, LaterInv
      <4> QED  BY <4>1, <4>2, <4>3
    <3> QED  BY <1>1, <2>1, <2>2, <2>4, <3>3, <3>4 DEF PrefixInv, FirstInv, FrontInv, LaterInv
  <2> QED  BY <2>5, <2>6
<1> QED  BY <1>4, <1>5, <1>6, <1>7, <1>8 DEF NextStep

-----------------------------------------------------------------------------
(* The first line of a string.                                             *)

\* A string of the buffer begins at s.
Begins(s) == s = 1 \/ ~PassesFilter(inp[s - 1])

\* A string goes from s to j at least, and what lies between is not to be lost: it
\* fits into a line, and it has MIN characters or may go on in the next buffer.
FirstLine(s, j) ==
    /\ Begins(s)
    /\ \A k \in s .. j : PassesFilter(inp[k])
    /\ j + 1 - s <= CharMax
    /\ \/ j + 1 - s >= chars_min_nb
       \/ j = Len(inp) /\ ~invalid_bytes_after_inp

\* It is in one result.
InAResult(s, j) ==
    \E k \in 1 .. Len(results) : results[k].from = s /\ results[k].nb >= j + 1 - s

Plain == Lossless /\ ~require_same_unicode_block

FirstLinesInv ==
    Plain =>
        /\ \A s, j \in 1 .. Len(inp) :
              s <= j /\ FirstLine(s, j) /\ (s < Front \/ pc = "exhausted") => InAResult(s, j)
        /\ pc = "break" => ~PassesFilter(inp[End])

\* A string at the end of a buffer that may go on is kept, unless it completes the
\* previous one or fills its line.
TailsInv ==
    Plain => \A k \in 1 .. Len(results) :
        /\ EndOf(results[k]) = Len(inp) + 1
        /\ results[k].nb < CharMax
        /\ ~invalid_bytes_after_inp
        => results[k].s_completes_previous_s \/ results[k].s_is_to_be_filtered_again

LinesInv == FirstLinesInv /\ TailsInv

LEMMA LinesFrame ==
  ASSUME UNCHANGED <<given_vars, results>>
  PROVE  /\ \A s, j : (FirstLine(s, j)' <=> FirstLine(s, j))
                      /\ (InAResult(s, j)' <=> InAResult(s, j))
         /\ Plain' <=> Plain
         /\ inp' = inp
         /\ TailsInv => TailsInv'
<1>1. UNCHANGED <<inp, invalid_bytes_after_inp, chars_min_nb,
                  require_same_unicode_block, grep_char, results>>
  BY DEF given_vars
<1>2. ASSUME NEW s, NEW j
      PROVE  (FirstLine(s, j)' <=> FirstLine(s, j)) /\ (InAResult(s, j)' <=> InAResult(s, j))
  BY <1>1 DEF FirstLine, Begins, InAResult, PassesFilter
<1>3. Plain' <=> Plain
  BY <1>1 DEF Plain, Lossless, NoGrep
<1>4. TailsInv => TailsInv'
  BY <1>1, <1>3 DEF TailsInv, EndOf
<1> QED  BY <1>1, <1>2, <1>3, <1>4

\* No string begins inside of another.
LEMMA NoneBeginsInside ==
  ASSUME IteratorInv, Iterating, pc # "returned",
         NEW s \in 1 .. Len(inp), Begins(s), ok_s_p < s, s <= End
  PROVE  FALSE
<1>1. /\ ok_s_p \in Nat /\ ok_s_p >= 1 /\ End \in Nat /\ s \in Nat
  BY SplitTypes, EndInBuffer DEF IteratorInv, TypeOK
<1>2. s - 1 \in Current
  BY <1>1 DEF Current
<1>3. Homogeneous(Current)
  BY DEF IteratorInv, StringInv, Iterating
<1>4. PassesFilter(inp[s - 1]) /\ s # 1
  BY <1>1, <1>2, <1>3 DEF Homogeneous
<1> QED  BY <1>4 DEF Begins

LEMMA AcceptKeepsLines ==
  ASSUME IteratorInv, LinesInv, Accept
  PROVE  LinesInv'
<1>1. /\ pc = "loop" /\ pc' = pc /\ ok_s_p' = ok_s_p
      /\ UNCHANGED <<given_vars, results>>
  BY DEF Accept, InLoop
<1>2. Front' = Front
  BY <1>1 DEF Front
<1> QED  BY <1>1, <1>2, LinesFrame DEF LinesInv, FirstLinesInv

LEMMA RestartKeepsLines ==
  ASSUME IteratorInv, LinesInv, Restart
  PROVE  LinesInv'
<1>1. /\ pc = "loop" /\ pc' = pc /\ InLoop
      /\ Rejected
      /\ ~Collected(GrepOkWith(inp[p]))
      /\ ok_s_p' = p'
      /\ UNCHANGED <<given_vars, results>>
  BY DEF Restart, InLoop
<1>2. /\ TypeOK /\ Iterating /\ p = End
      /\ p \in Nat /\ p \in 1 .. Len(inp) /\ Len(inp) \in Nat /\ ok_s_p \in Nat
      /\ ok_char_nb \in Nat /\ chars_min_nb \in Nat
      /\ p = ok_s_p + ok_char_nb
  BY <1>1, SplitTypes DEF IteratorInv, PlaceInv, Iterating, InLoop, TypeOK, End
<1>3. p' = IF PassesFilter(inp[p]) THEN p ELSE p + 1
  BY <1>1, <1>2, Skips DEF Restart
<1>4. Front = ok_s_p /\ Front' = p'
  BY <1>1 DEF Front
<1> SUFFICES ASSUME Plain, NEW s \in 1 .. Len(inp), NEW j \in 1 .. Len(inp),
                    s <= j, FirstLine(s, j), s < p'
             PROVE  InAResult(s, j)
  BY <1>1, <1>4, LinesFrame DEF LinesInv, FirstLinesInv
<1>5. ~PassesFilter(inp[p]) /\ p' = p + 1
  BY <1>1, <1>3 DEF Rejected, OtherBlock, Plain
<1>6. ok_char_nb < chars_min_nb
  BY <1>1, <1>2 DEF Collected, GrepOkWith, Plain, Lossless, IteratorInv, GrepInv
<1>7. CASE s < ok_s_p
  BY <1>1, <1>4, <1>7 DEF LinesInv, FirstLinesInv
<1>8. ASSUME s = ok_s_p PROVE FALSE
  <2>1. ~(p \in s .. j)
    BY <1>5 DEF FirstLine
  <2>2. j < p /\ j < Len(inp)
    BY <1>2, <1>8, <2>1
  <2>3. j + 1 - s < chars_min_nb
    BY <1>2, <1>6, <1>8, <2>2
  <2> QED  BY <1>2, <2>2, <2>3 DEF FirstLine
<1>9. ASSUME ok_s_p < s PROVE FALSE
  <2>1. s <= End
    BY <1>2, <1>5
  <2> QED  BY <1>1, <1>2, <1>9, <2>1, NoneBeginsInside DEF FirstLine
<1> QED  BY <1>2, <1>7, <1>8, <1>9

LEMMA BreakKeepsLines ==
  ASSUME IteratorInv, LinesInv, Break
  PROVE  LinesInv'
<1>1. /\ pc = "loop" /\ pc' = "break" /\ InLoop
      /\ Rejected
      /\ UNCHANGED <<given_vars, inp, results, ok_s_p, ok_char_nb>>
  BY DEF Break, InLoop, given_vars
<1>2. p = End /\ End' = End
  BY <1>1 DEF IteratorInv, PlaceInv, End
<1>3. Front' = Front
  BY <1>1 DEF Front
<1>4. Plain => ~PassesFilter(inp[End])
  BY <1>1, <1>2 DEF Rejected, OtherBlock, Plain
<1>5. Plain' => ~PassesFilter(inp'[End'])
  BY <1>1, <1>2, <1>4, LinesFrame
<1> QED  BY <1>1, <1>3, <1>5, LinesFrame DEF LinesInv, FirstLinesInv, PassesFilter

LEMMA ExhaustKeepsLines ==
  ASSUME IteratorInv, LinesInv, Exhaust
  PROVE  LinesInv'
<1>1. /\ pc' = "exhausted"
      /\ pc = "break" \/ (pc = "loop" /\ ~InLoop)
      /\ ok_char_nb = 0 \/ IsDismissed
      /\ UNCHANGED <<given_vars, results>>
  BY DEF Exhaust, LoopLeft, iterator_vars
<1>2. /\ TypeOK /\ PlaceInv /\ Iterating
      /\ p \in Nat /\ p <= Len(inp) + 1 /\ Len(inp) \in Nat
      /\ ok_s_p \in Nat /\ ok_s_p >= 1
      /\ ok_char_nb \in Nat /\ ok_char_nb <= CharMax /\ CharMax \in Nat /\ CharMax > 0
      /\ chars_min_nb \in Nat
      /\ End = ok_s_p + ok_char_nb
      /\ pc = "loop" => p = End
  BY <1>1, SplitTypes, FilterIsTyped DEF IteratorInv, Iterating, TypeOK, PlaceInv, End
<1>3. Front = ok_s_p
  BY <1>1 DEF Front
<1> SUFFICES ASSUME Plain, NEW s \in 1 .. Len(inp), NEW j \in 1 .. Len(inp),
                    s <= j, FirstLine(s, j)
             PROVE  InAResult(s, j)
  BY <1>1, LinesFrame DEF LinesInv, FirstLinesInv
<1>4. CASE s < ok_s_p
  BY <1>1, <1>3, <1>4 DEF LinesInv, FirstLinesInv
<1>5. chars_min_nb >= 1 /\ chars_min_nb <= CharMax /\ NoGrep /\ grep_char_ok
  BY <1>1 DEF Plain, Lossless, IteratorInv, GrepInv
<1>6. pc = "loop" /\ End = Len(inp) + 1 /\ ok_char_nb < chars_min_nb
  <2>1. ASSUME pc = "break" PROVE FALSE
    <3>1. Collected(grep_char_ok)
      BY <1>2, <2>1 DEF PlaceInv
    <3>2. ok_char_nb > 0
      BY <1>2, <1>5, <3>1 DEF Collected
    <3>3. IsDismissed
      BY <1>1, <1>2, <3>2
    <3> QED  BY <1>2, <1>5, <3>1, <3>3 DEF Collected, IsDismissed, CompletesPrevious, TouchesLeft
  <2>2. pc = "loop" /\ ~InLoop /\ p = End
    BY <1>1, <1>2, <2>1
  <2>3. ok_char_nb < chars_min_nb
    BY <1>1, <1>2, <1>5 DEF IsDismissed
  <2>4. ~(p <= Len(inp))
    BY <1>2, <1>5, <2>2, <2>3 DEF InLoop
  <2> QED  BY <1>2, <2>2, <2>3, <2>4
<1>7. ASSUME s = ok_s_p PROVE FALSE
  <2>1. j + 1 - s < chars_min_nb /\ ok_char_nb > 0
    BY <1>2, <1>6, <1>7
  <2>2. IsDismissed
    BY <1>1, <1>2, <2>1
  <2>3. invalid_bytes_after_inp
    BY <1>2, <1>5, <1>6, <2>2
    DEF IsDismissed, ToBeFilteredAgain, TouchesRight
  <2> QED  BY <1>2, <2>1, <2>3 DEF FirstLine
<1>8. ASSUME ok_s_p < s PROVE FALSE
  BY <1>1, <1>2, <1>6, <1>8, NoneBeginsInside DEF FirstLine
<1> QED  BY <1>2, <1>4, <1>7, <1>8

LEMMA ReturnKeepsLines ==
  ASSUME IteratorInv, LinesInv, Return
  PROVE  LinesInv'
<1> DEFINE n == Len(results)
<1>1. /\ pc' = "returned"
      /\ pc = "break" \/ (pc = "loop" /\ ~InLoop)
      /\ ok_char_nb > 0 /\ ~IsDismissed
      /\ UNCHANGED <<given_vars, inp, p, chars_min_nb, invalid_bytes_after_inp,
                     require_same_unicode_block, grep_char>>
  BY DEF Return, LoopLeft, given_vars, local_vars
<1>2. /\ TypeOK /\ PlaceInv /\ Iterating /\ pc # "returned"
      /\ p \in Nat /\ p <= Len(inp) + 1 /\ Len(inp) \in Nat
      /\ ok_s_p \in Nat /\ ok_s_p >= 1
      /\ ok_char_nb \in Nat /\ ok_char_nb <= CharMax /\ CharMax \in Nat
      /\ End = ok_s_p + ok_char_nb
      /\ pc = "loop" => p = End
      /\ p \in {End, End + 1}
      /\ results \in Seq(Result) /\ n \in Nat
  BY <1>1, SplitTypes, FilterIsTyped DEF IteratorInv, Iterating, TypeOK, PlaceInv, End
<1>3. PICK r \in Result :
        /\ r.from = ok_s_p /\ r.nb = ok_char_nb
        /\ r.s_completes_previous_s = CompletesPrevious
        /\ r.s_is_maybe_cut = IsMaybeCut
        /\ r.s_is_to_be_filtered_again = ToBeFilteredAgain
        /\ Len(results') = n + 1
        /\ \A k \in 1 .. n : results'[k] = results[k]
        /\ results'[n + 1] = r
        /\ results' \in Seq(Result)
        /\ EndOf(r) = End /\ PlacesOf(r) = Current
  BY ReturnAppends
<1> HIDE DEF n
<1>4. Front = ok_s_p /\ Front' = p
  BY <1>1, <1>2 DEF Front
<1>5. /\ Plain' <=> Plain
      /\ \A s, j : FirstLine(s, j)' <=> FirstLine(s, j)
  BY <1>1 DEF Plain, Lossless, NoGrep, FirstLine, Begins, PassesFilter
<1>6. FirstLinesInv'
  <2> SUFFICES ASSUME Plain, NEW s \in 1 .. Len(inp), NEW j \in 1 .. Len(inp),
                      s <= j, FirstLine(s, j), s < p
               PROVE  InAResult(s, j)'
    BY <1>1, <1>4, <1>5 DEF FirstLinesInv
  <2>1. CASE s < ok_s_p
    <3>1. PICK k \in 1 .. n : results[k].from = s /\ results[k].nb >= j + 1 - s
      BY <1>1, <1>4, <2>1 DEF LinesInv, FirstLinesInv, InAResult, n
    <3>2. k \in 1 .. Len(results') /\ results'[k] = results[k]
      BY <1>2, <1>3
    <3> QED  BY <3>1, <3>2 DEF InAResult
  <2>2. CASE s = ok_s_p
    <3>1. ASSUME j >= End PROVE FALSE
      <4>1. End \in s .. j /\ End <= Len(inp)
        BY <1>2, <2>2, <3>1
      <4>2. PassesFilter(inp[End])
        BY <4>1 DEF FirstLine
      <4>3. pc = "loop" /\ ~InLoop
        BY <1>1, <4>2 DEF LinesInv, FirstLinesInv
      <4>4. ok_char_nb >= CharMax
        BY <1>2, <4>1, <4>3 DEF InLoop
      <4>5. j + 1 - s > CharMax
        BY <1>2, <2>2, <3>1, <4>4
      <4> QED  BY <1>2, <4>5 DEF FirstLine
    <3>2. ok_char_nb >= j + 1 - s
      BY <1>2, <2>2, <3>1
    <3>3. n + 1 \in 1 .. Len(results')
      BY <1>2, <1>3
    <3> QED  BY <1>3, <2>2, <3>2, <3>3 DEF InAResult
  <2>3. ASSUME ok_s_p < s PROVE FALSE
    <3>1. s <= End
      BY <1>2
    <3> QED  BY <1>2, <2>3, <3>1, NoneBeginsInside DEF FirstLine
  <2> QED  BY <1>2, <2>1, <2>2, <2>3
<1>7. TailsInv'
  <2> SUFFICES ASSUME Plain, NEW k \in 1 .. Len(results'),
                      EndOf(results'[k]) = Len(inp) + 1, results'[k].nb < CharMax,
                      ~invalid_bytes_after_inp
               PROVE  \/ results'[k].s_completes_previous_s
                      \/ results'[k].s_is_to_be_filtered_again
    BY <1>1, <1>5 DEF TailsInv, EndOf
  <2>1. CASE k = n + 1
    <3>1. results'[k] = r
      BY <1>3, <2>1
    <3>2. End = Len(inp) + 1 /\ ok_char_nb < CharMax
      BY <1>3, <3>1
    <3>3. CompletesPrevious \/ ToBeFilteredAgain
      BY <1>2, <3>2 DEF ToBeFilteredAgain, TouchesRight
    <3> QED  BY <1>3, <3>1, <3>3
  <2>2. CASE k # n + 1
    <3>1. k \in 1 .. n /\ results'[k] = results[k]
      BY <1>2, <1>3, <2>2
    <3> QED  BY <3>1 DEF LinesInv, TailsInv, n
  <2> QED  BY <2>1, <2>2
<1> QED  BY <1>6, <1>7 DEF LinesInv

\* Every step of the iterator keeps LinesInv, whoever calls it.
LEMMA NextStepKeepsLines ==
  ASSUME IteratorInv, LinesInv, NextStep
  PROVE  LinesInv'
BY AcceptKeepsLines, RestartKeepsLines, BreakKeepsLines, ExhaustKeepsLines,
   ReturnKeepsLines DEF NextStep

LEMMA CallNextKeepsLines ==
  ASSUME IteratorInv, LinesInv, CallNext
  PROVE  LinesInv'
<1>1. /\ pc = "returned" /\ pc' = "loop" /\ ok_s_p' = p
      /\ UNCHANGED <<given_vars, results>>
  BY DEF CallNext, iterator_vars
<1>2. Front' = Front
  BY <1>1 DEF Front
<1> QED  BY <1>1, <1>2, LinesFrame DEF LinesInv, FirstLinesInv

LEMMA UnchangedKeepsLines ==
  ASSUME LinesInv, UNCHANGED split_vars
  PROVE  LinesInv'
<1>1. UNCHANGED <<given_vars, inp, results, pc, p, ok_s_p, ok_char_nb>>
  BY DEF split_vars, iterator_vars, given_vars, local_vars
<1>2. Front' = Front /\ End' = End
  BY <1>1 DEF Front, End
<1> QED  BY <1>1, <1>2, LinesFrame DEF LinesInv, FirstLinesInv, PassesFilter

LEMMA NewEstablishesLines ==
  ASSUME NEW buffer, NEW min, NEW same_block, NEW continue, NEW invalid, NEW grep,
         New(buffer, min, same_block, continue, invalid, grep)
  PROVE  LinesInv'
<1>1. pc' = "loop" /\ ok_s_p' = 1 /\ results' = <<>>
  BY DEF New
<1>2. Front' = 1 /\ Len(results') = 0
  BY <1>1 DEF Front
<1> QED  BY <1>1, <1>2 DEF LinesInv, FirstLinesInv, TailsInv

LEMMA NoIteratorHasLines ==
  ASSUME NoIterator
  PROVE  LinesInv
<1>1. pc = "none" /\ ok_s_p = 1 /\ results = <<>>
  BY DEF NoIterator
<1>2. Front = 1 /\ Len(results) = 0
  BY <1>1 DEF Front
<1> QED  BY <1>1, <1>2 DEF LinesInv, FirstLinesInv, TailsInv

-----------------------------------------------------------------------------
(* No string is lost.                                                      *)

LEMMA AcceptKeepsRuns ==
  ASSUME IteratorInv, NEW continue \in BOOLEAN, ContinueInv(continue), Accept
  PROVE  ContinueInv(continue)'
<1>1. /\ pc = "loop" /\ pc' = pc
      /\ UNCHANGED <<given_vars, inp, results, inp_start_p, ok_s_p, last_s_was_maybe_cut>>
  BY DEF Accept, InLoop, given_vars
<1>2. /\ \A i, j, k : /\ Covered(k)' <=> Covered(k)
                      /\ Qualifies(i, j, continue)' <=> Qualifies(i, j, continue)
      /\ Lossless' <=> Lossless
  BY <1>1, RunsFrame
<1>3. Front' = Front /\ Iterating
  BY <1>1 DEF Front, Iterating
<1>4. FlagInv(continue)'
  BY <1>1, <1>3 DEF ContinueInv, FlagInv
<1>5. RunsInv(continue)'
  BY <1>1, <1>2, <1>3 DEF ContinueInv, RunsInv
<1> QED  BY <1>1, <1>4, <1>5, EndsFrame DEF ContinueInv

\* A run at the start of the buffer, in a string that starts there, is continued if
\* the caller says so.
LEMMA RunAtTheStart ==
  ASSUME IteratorInv, NEW continue \in BOOLEAN, FlagInv(continue), continue,
         Iterating, pc # "returned", ok_s_p = 1
  PROVE  CompletesPrevious
<1>1. results \in Seq(Result) /\ Len(results) \in Nat
  BY SplitTypes DEF IteratorInv, TypeOK
<1>2. ASSUME results # <<>> PROVE FALSE
  <2>1. EndOf(LastResult) <= 1
    BY <1>2 DEF IteratorInv, BehindInv, Front
  <2>2. Len(results) \in 1 .. Len(results)
    BY <1>1, <1>2, EmptySeq
  <2>3. LastResult \in Result
    BY <1>1, <2>2 DEF LastResult
  <2>4. LastResult.from \in Nat \ {0} /\ LastResult.nb \in Nat \ {0}
    BY <2>3 DEF Result
  <2> QED  BY <2>1, <2>4 DEF EndOf
<1>3. inp_start_p = 1 /\ last_s_was_maybe_cut
  BY <1>2 DEF IteratorInv, CutInv, FlagInv
<1> QED  BY <1>3 DEF CompletesPrevious, TouchesLeft

\* The current string is given up: it is too short, and it does not belong to a
\* run that had to be returned.
LEMMA RestartKeepsRuns ==
  ASSUME IteratorInv, NEW continue \in BOOLEAN, ContinueInv(continue), Restart
  PROVE  ContinueInv(continue)'
<1>1. /\ pc = "loop" /\ pc' = pc /\ InLoop
      /\ Rejected
      /\ ~Collected(GrepOkWith(inp[p]))
      /\ ok_char_nb' = 0 /\ ok_s_p' = p'
      /\ UNCHANGED <<given_vars, inp, grep_char, results, inp_start_p,
                     last_s_was_maybe_cut, require_same_unicode_block>>
  BY DEF Restart, InLoop, given_vars
<1>2. /\ TypeOK /\ PlaceInv /\ Iterating /\ p = End
      /\ p \in Nat /\ p \in 1 .. Len(inp) /\ Len(inp) \in Nat /\ ok_s_p \in Nat
      /\ ok_s_p >= 1 /\ ok_char_nb \in Nat /\ chars_min_nb \in Nat
      /\ p = ok_s_p + ok_char_nb
  BY <1>1, SplitTypes DEF IteratorInv, PlaceInv, Iterating, InLoop, TypeOK, End
<1>3. /\ p' = IF PassesFilter(inp[p]) THEN p ELSE p + 1
      /\ p' \in 1 .. Len(inp) + 1
  BY <1>1, <1>2, Skips DEF Restart
<1>4. /\ \A i, j, k : /\ Covered(k)' <=> Covered(k)
                      /\ Qualifies(i, j, continue)' <=> Qualifies(i, j, continue)
      /\ Lossless' <=> Lossless
  BY <1>1, RunsFrame
<1>5. Front = ok_s_p /\ Front' = p' /\ p <= p'
  BY <1>1, <1>2, <1>3 DEF Front
<1>6. RunsInv(continue)'
  <2> SUFFICES ASSUME Lossless, NEW i \in 1 .. Len(inp), NEW j \in 1 .. Len(inp),
                      Qualifies(i, j, continue)
               PROVE  /\ \A k \in i .. j : k < p' => Covered(k)
                      /\ i < p' /\ p' <= j =>
                            p' = inp_start_p /\ last_s_was_maybe_cut
    BY <1>1, <1>4, <1>5 DEF RunsInv
  <2>1. /\ \A k \in i .. j : k < ok_s_p => Covered(k)
        /\ i < ok_s_p /\ ok_s_p <= j => CompletesPrevious
    BY <1>1, <1>2, <1>5 DEF ContinueInv, RunsInv, CompletesPrevious, TouchesLeft
  <2>2. i \in Nat /\ j \in Nat /\ IsRun(i, j)
    BY DEF Qualifies
  <2>3. p \in i .. j => PassesFilter(inp[p]) /\ (ok_char_nb > 0 => i = p)
    BY <1>1, <2>2, NoRunCrosses
  <2>4. ok_char_nb < chars_min_nb
    BY <1>1, <1>2 DEF Collected, GrepOkWith, Lossless, IteratorInv, GrepInv
  <2>5. ok_char_nb > 0 => ~CompletesPrevious
    BY <1>1 DEF Collected, CompletesPrevious, TouchesLeft
  <2>6. ASSUME NEW k \in i .. j, ok_s_p <= k, k < p PROVE FALSE
    <3>1. ok_char_nb > 0 /\ k \in Nat
      BY <1>2, <2>2, <2>6
    <3>2. j < p
      BY <1>2, <2>2, <2>3, <2>6, <3>1
    <3>3. CASE i < ok_s_p
      BY <1>2, <2>1, <2>2, <2>5, <2>6, <3>1, <3>3
    <3>4. CASE i >= ok_s_p
      <4>1. ~(j + 1 - i >= chars_min_nb)
        BY <1>2, <2>2, <2>4, <3>2, <3>4
      <4>2. j # Len(inp)
        BY <1>2, <2>2, <3>2
      <4>3. i = 1 /\ continue
        BY <4>1, <4>2 DEF Qualifies
      <4>4. ok_s_p = 1
        BY <1>2, <3>4, <4>3
      <4> QED  BY <1>1, <1>2, <2>5, <3>1, <4>3, <4>4, RunAtTheStart DEF ContinueInv
    <3> QED  BY <1>2, <2>2, <3>3, <3>4
  <2>7. ASSUME NEW k \in i .. j, k < p' PROVE Covered(k)
    <3>1. k # p \/ p' = p
      BY <1>3, <2>3, <2>7
    <3>2. k < p
      BY <1>2, <1>3, <2>2, <2>7, <3>1
    <3>3. k < ok_s_p
      BY <1>2, <2>2, <2>6, <3>2
    <3> QED  BY <2>1, <3>3
  <2>8. ASSUME i < p', p' <= j PROVE p' = inp_start_p /\ last_s_was_maybe_cut
    <3>1. p \in i .. j
      BY <1>2, <1>3, <2>2, <2>8
    <3>2. p' = p /\ i # p
      BY <1>2, <1>3, <2>2, <2>3, <2>8, <3>1
    <3>3. ok_char_nb = 0
      BY <1>2, <2>3, <3>1, <3>2
    <3>4. p = ok_s_p /\ i < ok_s_p /\ ok_s_p <= j
      BY <1>2, <2>8, <3>2, <3>3
    <3> QED  BY <2>1, <3>2, <3>4 DEF CompletesPrevious, TouchesLeft
  <2> QED  BY <2>7, <2>8
<1>7. FlagInv(continue)'
  BY <1>1, <1>2 DEF ContinueInv, FlagInv
<1> QED  BY <1>1, <1>6, <1>7, EndsFrame DEF ContinueInv

LEMMA BreakKeepsRuns ==
  ASSUME IteratorInv, NEW continue \in BOOLEAN, ContinueInv(continue), Break
  PROVE  ContinueInv(continue)'
<1>1. /\ pc = "loop" /\ pc' = "break" /\ InLoop
      /\ p <= Len(inp) /\ ok_char_nb < CharMax
      /\ Rejected
      /\ Collected(GrepOkWith(inp[p]))
      /\ UNCHANGED <<given_vars, inp, grep_char, results, inp_start_p, ok_s_p,
                     ok_char_nb, chars_min_nb, last_s_was_maybe_cut,
                     require_same_unicode_block>>
  BY DEF Break, InLoop, given_vars
<1>2. /\ TypeOK /\ PlaceInv /\ Iterating /\ p = End
      /\ p \in Nat /\ p \in 1 .. Len(inp) /\ Len(inp) \in Nat /\ ok_s_p \in Nat
      /\ ok_char_nb \in Nat /\ chars_min_nb \in Nat
      /\ p = ok_s_p + ok_char_nb
  BY <1>1, SplitTypes DEF IteratorInv, PlaceInv, Iterating, InLoop, TypeOK, End
<1>3. /\ p' = IF PassesFilter(inp[p]) THEN p ELSE p + 1
      /\ p' \in 1 .. Len(inp) + 1
  BY <1>1, <1>2, Skips DEF Break
<1>4. End' = End
  BY <1>1 DEF End
<1>5. /\ \A i, j, k : /\ Covered(k)' <=> Covered(k)
                      /\ Qualifies(i, j, continue)' <=> Qualifies(i, j, continue)
      /\ Lossless' <=> Lossless
  BY <1>1, RunsFrame
<1>6. Front = ok_s_p /\ Front' = ok_s_p
  BY <1>1 DEF Front
<1>7. RunsInv(continue)'
  <2> SUFFICES ASSUME Lossless, NEW i \in 1 .. Len(inp), NEW j \in 1 .. Len(inp),
                      Qualifies(i, j, continue)
               PROVE  /\ \A k \in i .. j : k < ok_s_p => Covered(k)
                      /\ End \in i .. j => i = p'
    BY <1>1, <1>4, <1>5, <1>6 DEF RunsInv
  <2>1. \A k \in i .. j : k < ok_s_p => Covered(k)
    BY <1>1, <1>2, <1>6 DEF ContinueInv, RunsInv
  <2>2. ok_char_nb > 0
    BY <1>1, <1>2 DEF Collected, Lossless
  <2>3. IsRun(i, j)
    BY DEF Qualifies
  <2>4. p \in i .. j => PassesFilter(inp[p]) /\ i = p
    BY <1>1, <2>2, <2>3, NoRunCrosses
  <2> QED  BY <1>2, <1>3, <2>1, <2>4
<1>8. FlagInv(continue)'
  BY <1>1, <1>2 DEF ContinueInv, FlagInv, Iterating
<1> QED  BY <1>1, <1>7, <1>8, EndsFrame DEF ContinueInv

\* No string is left that should have been returned.
LEMMA ExhaustKeepsRuns ==
  ASSUME IteratorInv, NEW continue \in BOOLEAN, ContinueInv(continue), Exhaust
  PROVE  ContinueInv(continue)'
<1>1. /\ pc' = "exhausted"
      /\ pc = "break" \/ (pc = "loop" /\ ~InLoop)
      /\ ok_char_nb = 0 \/ IsDismissed
      /\ UNCHANGED <<given_vars, inp, inp_start_p, p, last_s_was_maybe_cut, ok_s_p,
                     ok_char_nb, results>>
  BY DEF Exhaust, LoopLeft, iterator_vars, given_vars, local_vars
<1>2. /\ TypeOK /\ PlaceInv /\ Iterating
      /\ p \in Nat /\ p <= Len(inp) + 1 /\ Len(inp) \in Nat
      /\ ok_s_p \in Nat /\ ok_s_p >= 1
      /\ ok_char_nb \in Nat /\ ok_char_nb <= CharMax /\ CharMax \in Nat
      /\ chars_min_nb \in Nat
  BY <1>1, SplitTypes, FilterIsTyped DEF IteratorInv, Iterating, TypeOK
<1>3. FlagInv(continue)'
  BY <1>1 DEF ContinueInv, FlagInv, Iterating
<1>4. /\ \A i, j, k : /\ Covered(k)' <=> Covered(k)
                      /\ Qualifies(i, j, continue)' <=> Qualifies(i, j, continue)
      /\ Lossless' <=> Lossless
  BY <1>1, RunsFrame
<1>5. RunsInv(continue)'
  <2> SUFFICES ASSUME Lossless, NEW i \in 1 .. Len(inp), NEW j \in 1 .. Len(inp),
                      Qualifies(i, j, continue), NEW k \in i .. j
               PROVE  Covered(k)
    BY <1>1, <1>4 DEF RunsInv, Iterating
  <2>1. /\ \A n \in i .. j : n < ok_s_p => Covered(n)
        /\ pc # "break" /\ i < ok_s_p /\ ok_s_p <= j => CompletesPrevious
    BY <1>1, <1>2 DEF ContinueInv, RunsInv, Front, CompletesPrevious, TouchesLeft
  <2>2. i \in Nat /\ j \in Nat /\ k \in Nat /\ j <= Len(inp) /\ i <= k /\ k <= j
    BY <1>2
  <2>3. grep_char_ok
    BY <1>1 DEF IteratorInv, GrepInv, Lossless
  <2>4. pc = "loop" /\ ~InLoop
    <3>1. ASSUME pc = "break" PROVE FALSE
      <4>1. Collected(TRUE)
        BY <1>2, <2>3, <3>1 DEF PlaceInv, Collected
      <4>2. ok_char_nb > 0 /\ (CompletesPrevious \/ ok_char_nb >= chars_min_nb)
        BY <1>2, <4>1 DEF Collected, CompletesPrevious, TouchesLeft, Lossless
      <4> QED  BY <1>1, <1>2, <2>3, <4>2 DEF IsDismissed
    <3> QED  BY <1>1, <3>1
  <2>5. p = ok_s_p + ok_char_nb
    BY <1>2, <2>4 DEF PlaceInv, End
  <2>6. p = Len(inp) + 1 /\ ok_char_nb < CharMax
    <3>1. ok_char_nb # CharMax
      BY <1>1, <1>2, <2>3, FilterIsTyped DEF IsDismissed, Lossless
    <3> QED  BY <1>2, <2>4, <3>1 DEF InLoop
  <2>7. CASE k < ok_s_p
    BY <2>1, <2>7
  <2>8. CASE k >= ok_s_p
    <3>1. ok_char_nb > 0 /\ IsDismissed
      BY <1>1, <1>2, <2>2, <2>5, <2>6, <2>8
    <3>2. /\ ~CompletesPrevious /\ ~ToBeFilteredAgain
          /\ ok_char_nb < chars_min_nb
      BY <1>2, <2>3, <3>1 DEF IsDismissed
    <3>3. TouchesRight
      BY <1>2, <2>5, <2>6 DEF TouchesRight
    <3>4. invalid_bytes_after_inp
      BY <2>6, <3>2, <3>3 DEF ToBeFilteredAgain
    <3>5. ~(i < ok_s_p)
      BY <1>2, <2>1, <2>2, <2>4, <2>8, <3>2
    <3>6. ~(j + 1 - i >= chars_min_nb)
      BY <1>2, <2>2, <2>5, <2>6, <3>2, <3>5
    <3>7. i = 1 /\ continue
      BY <3>4, <3>6 DEF Qualifies
    <3>8. ok_s_p = 1
      BY <1>2, <3>5, <3>7
    <3> QED  BY <1>2, <2>4, <3>2, <3>7, <3>8, RunAtTheStart DEF ContinueInv
  <2> QED  BY <1>2, <2>2, <2>7, <2>8
<1> QED  BY <1>1, <1>3, <1>5, EndsFrame DEF ContinueInv

LEMMA ReturnKeepsRuns ==
  ASSUME IteratorInv, NEW continue \in BOOLEAN, ContinueInv(continue), Return
  PROVE  ContinueInv(continue)'
<1> DEFINE n == Len(results)
<1>1. /\ pc' = "returned"
      /\ pc = "break" \/ (pc = "loop" /\ ~InLoop)
      /\ ok_char_nb > 0 /\ ~IsDismissed
      /\ inp_start_p' = IF ok_char_nb >= CharMax THEN p ELSE inp_start_p
      /\ last_s_was_maybe_cut' = IsMaybeCut
      /\ UNCHANGED <<given_vars, inp, p, ok_s_p, ok_char_nb, grep_char, chars_min_nb,
                     invalid_bytes_after_inp, require_same_unicode_block>>
  BY DEF Return, LoopLeft, given_vars, local_vars
<1>2. /\ TypeOK /\ PlaceInv /\ Iterating
      /\ p \in Nat /\ p <= Len(inp) + 1 /\ Len(inp) \in Nat
      /\ ok_s_p \in Nat /\ ok_s_p >= 1
      /\ ok_char_nb \in Nat /\ ok_char_nb <= CharMax /\ CharMax \in Nat
      /\ chars_min_nb \in Nat
      /\ n \in Nat
  BY <1>1, SplitTypes, FilterIsTyped DEF IteratorInv, Iterating, TypeOK
<1>3. /\ End \in Nat /\ End = ok_s_p + ok_char_nb
      /\ End <= p /\ End <= Len(inp) + 1
      /\ pc = "loop" => p = End
      /\ pc = "break" => ok_char_nb < CharMax /\ p \in {End, End + 1}
  BY <1>2, EndInBuffer DEF PlaceInv
<1>4. PICK r \in Result :
        /\ r.from = ok_s_p /\ r.nb = ok_char_nb
        /\ r.s_completes_previous_s = CompletesPrevious
        /\ Len(results') = n + 1
        /\ \A k \in 1 .. n : results'[k] = results[k]
        /\ results'[n + 1] = r
        /\ results' \in Seq(Result)
        /\ EndOf(r) = End /\ PlacesOf(r) = Current
        /\ r.s_is_maybe_cut = IsMaybeCut
        /\ r.s_is_to_be_filtered_again = ToBeFilteredAgain
  BY ReturnAppends
<1> HIDE DEF n
<1>5. FlagInv(continue)'
  <2>1. results' # <<>> /\ results'[1] = IF n = 0 THEN r ELSE results[1]
    BY <1>2, <1>4, EmptySeq
  <2>2. CASE n = 0
    <3>1. results = <<>>
      BY <1>2, <2>2, SplitTypes, EmptySeq DEF n
    <3>2. CompletesPrevious <=> continue /\ r.from = 1
      BY <1>2, <1>4, <3>1
      DEF IteratorInv, CutInv, ContinueInv, FlagInv, CompletesPrevious, TouchesLeft
    <3> QED  BY <1>1, <1>4, <2>1, <2>2, <3>2 DEF FlagInv
  <2>3. CASE n # 0
    BY <1>1, <1>2, <2>1, <2>3, EmptySeq DEF ContinueInv, FlagInv, n
  <2> QED  BY <2>2, <2>3
<1>6. RunsInv(continue)'
  <2> SUFFICES ASSUME Lossless, NEW i \in 1 .. Len(inp), NEW j \in 1 .. Len(inp),
                      Qualifies(i, j, continue)
               PROVE  /\ \A k \in i .. j : k < p => Covered(k)'
                      /\ i < p /\ p <= j => p = inp_start_p' /\ last_s_was_maybe_cut'
    <3>1. \A a, b : Qualifies(a, b, continue)' <=> Qualifies(a, b, continue)
      BY <1>1 DEF Qualifies, IsRun
    <3>2. Lossless' <=> Lossless
      BY <1>1 DEF Lossless, NoGrep
    <3> QED  BY <1>1, <3>1, <3>2 DEF RunsInv, Front
  <2>1. /\ \A k \in i .. j : k < ok_s_p => Covered(k)
        /\ pc = "break" /\ End \in i .. j => i = p
    BY <1>1, <1>2 DEF ContinueInv, RunsInv, Front
  <2>2. i \in Nat /\ j \in Nat /\ j <= Len(inp)
    BY <1>2
  <2>3. ASSUME NEW k \in i .. j, k < p PROVE Covered(k)'
    <3>1. k \in Nat /\ i <= k /\ k <= j
      BY <2>2
    <3>2. CASE k < ok_s_p
      <4>1. PICK q \in 1 .. n : k \in PlacesOf(results[q])
        BY <2>1, <3>2 DEF Covered, n
      <4>2. q \in 1 .. Len(results') /\ results'[q] = results[q]
        BY <1>2, <1>4
      <4> QED  BY <4>1, <4>2 DEF Covered, PlacesOf
    <3>3. CASE ok_s_p <= k /\ k < End
      <4>1. k \in PlacesOf(r)
        BY <1>2, <1>3, <1>4, <3>1, <3>3 DEF Current
      <4>2. n + 1 \in 1 .. Len(results') /\ results'[n + 1] = r
        BY <1>2, <1>4
      <4> QED  BY <4>1, <4>2 DEF Covered, PlacesOf
    <3>4. CASE k >= End
      <4>1. pc = "break" /\ p = End + 1 /\ k = End
        BY <1>1, <1>2, <1>3, <2>3, <3>1, <3>4
      <4>2. i = p
        BY <2>1, <4>1
      <4> QED  BY <1>2, <2>2, <2>3, <3>1, <4>2
    <3> QED  BY <1>2, <1>3, <3>1, <3>2, <3>3, <3>4
  <2>4. ASSUME i < p, p <= j PROVE p = inp_start_p' /\ last_s_was_maybe_cut'
    <3>1. pc # "break"
      <4>1. ASSUME pc = "break" PROVE FALSE
        <5>1. End \in i .. j
          BY <1>2, <1>3, <2>2, <2>4, <4>1
        <5> QED  BY <1>2, <2>1, <2>2, <2>4, <4>1, <5>1
      <4> QED  BY <4>1
    <3>2. pc = "loop" /\ ~InLoop /\ p <= Len(inp)
      BY <1>1, <1>2, <2>2, <2>4, <3>1
    <3>3. ok_char_nb >= CharMax
      BY <1>2, <3>2 DEF InLoop
    <3> QED  BY <1>1, <3>3 DEF IsMaybeCut
  <2> QED  BY <2>3, <2>4
<1>7. EndsInv'
  <2>1. /\ \A a, b : IsRun(a, b)' <=> IsRun(a, b)
        /\ Lossless' <=> Lossless
        /\ inp' = inp
    BY <1>1 DEF IsRun, Lossless, NoGrep
  <2>2. ASSUME End = Len(inp) + 1, ~invalid_bytes_after_inp PROVE r.s_is_maybe_cut
    BY <1>2, <1>3, <1>4, <2>2 DEF IsMaybeCut, TouchesRight
  <2>3. ASSUME Lossless, r.s_is_to_be_filtered_again, NEW i \in 1 .. r.from - 1,
               IsRun(i, Len(inp))
        PROVE  FALSE
    <3>1. ~CompletesPrevious /\ End = Len(inp) + 1 /\ ~invalid_bytes_after_inp
      <4>1. ToBeFilteredAgain
        BY <1>4, <2>3
      <4>2. ~CompletesPrevious /\ TouchesRight /\ ~invalid_bytes_after_inp
        BY <4>1 DEF ToBeFilteredAgain
      <4> QED  BY <1>2, <1>3, <4>2 DEF TouchesRight
    <3>2. pc = "loop"
      BY <1>1, <1>2, <3>1 DEF PlaceInv
    <3>3. /\ i \in 1 .. Len(inp) /\ Len(inp) \in 1 .. Len(inp) /\ i <= Len(inp)
          /\ i < ok_s_p /\ ok_s_p <= Len(inp)
      BY <1>1, <1>2, <1>3, <1>4, <3>1
    <3>4. Qualifies(i, Len(inp), continue)
      BY <2>3, <3>1, <3>3 DEF Qualifies
    <3>5. ok_s_p = inp_start_p /\ last_s_was_maybe_cut
      BY <1>2, <2>3, <3>2, <3>3, <3>4 DEF ContinueInv, RunsInv, Front
    <3> QED  BY <3>1, <3>5 DEF CompletesPrevious, TouchesLeft
  <2> SUFFICES ASSUME NEW k \in 1 .. n + 1
               PROVE  /\ EndOf(results'[k]) = Len(inp) + 1 /\ ~invalid_bytes_after_inp =>
                            results'[k].s_is_maybe_cut
                      /\ Lossless /\ results'[k].s_is_to_be_filtered_again =>
                            \A i \in 1 .. results'[k].from - 1 : ~IsRun(i, Len(inp))
    BY <1>1, <1>4, <2>1 DEF EndsInv, EndOf
  <2>4. CASE k = n + 1
    <3>1. results'[k] = r
      BY <1>4, <2>4
    <3> QED  BY <1>4, <2>2, <2>3, <3>1
  <2>5. CASE k # n + 1
    <3>1. k \in 1 .. n /\ results'[k] = results[k]
      BY <1>2, <1>4, <2>5
    <3> QED  BY <3>1 DEF ContinueInv, EndsInv, n
  <2> QED  BY <2>4, <2>5
<1> QED  BY <1>5, <1>6, <1>7 DEF ContinueInv

\* Every step of the iterator keeps ContinueInv, whoever calls it.
LEMMA NextStepKeepsRuns ==
  ASSUME IteratorInv, NEW continue \in BOOLEAN, ContinueInv(continue), NextStep
  PROVE  ContinueInv(continue)'
BY AcceptKeepsRuns, RestartKeepsRuns, BreakKeepsRuns, ExhaustKeepsRuns,
   ReturnKeepsRuns DEF NextStep

LEMMA CallNextKeepsRuns ==
  ASSUME IteratorInv, NEW continue \in BOOLEAN, ContinueInv(continue), CallNext
  PROVE  ContinueInv(continue)'
<1>1. /\ pc = "returned" /\ pc' = "loop" /\ ok_s_p' = p
      /\ UNCHANGED <<given_vars, results, inp, inp_start_p, last_s_was_maybe_cut>>
  BY DEF CallNext, iterator_vars, given_vars
<1>2. Front' = Front /\ Iterating /\ pc # "break"
  BY <1>1 DEF Front, Iterating
<1>3. /\ \A i, j, k : /\ Covered(k)' <=> Covered(k)
                      /\ Qualifies(i, j, continue)' <=> Qualifies(i, j, continue)
      /\ Lossless' <=> Lossless
  BY <1>1, RunsFrame
<1>4. FlagInv(continue)'
  BY <1>1, <1>2 DEF ContinueInv, FlagInv
<1>5. RunsInv(continue)'
  BY <1>1, <1>2, <1>3 DEF ContinueInv, RunsInv
<1> QED  BY <1>1, <1>4, <1>5, EndsFrame DEF ContinueInv

LEMMA UnchangedKeepsRuns ==
  ASSUME NEW continue, ContinueInv(continue), UNCHANGED split_vars
  PROVE  ContinueInv(continue)'
<1>1. UNCHANGED <<given_vars, inp, pc, p, ok_s_p, ok_char_nb, inp_start_p,
                  last_s_was_maybe_cut, results>>
  BY DEF split_vars, iterator_vars, given_vars, local_vars
<1>2. /\ \A i, j, k : /\ Covered(k)' <=> Covered(k)
                      /\ Qualifies(i, j, continue)' <=> Qualifies(i, j, continue)
      /\ Lossless' <=> Lossless
  BY <1>1, RunsFrame
<1>3. FlagInv(continue)'
  BY <1>1 DEF ContinueInv, FlagInv, Iterating
<1>4. RunsInv(continue)'
  BY <1>1, <1>2 DEF ContinueInv, RunsInv, Front, Iterating, End
<1> QED  BY <1>1, <1>3, <1>4, EndsFrame DEF ContinueInv

LEMMA NewEstablishesRuns ==
  ASSUME NEW buffer, NEW min, NEW same_block, NEW continue, NEW invalid, NEW grep,
         New(buffer, min, same_block, continue, invalid, grep)
  PROVE  ContinueInv(continue)'
<1>1. /\ pc' = "loop" /\ ok_s_p' = 1 /\ results' = <<>>
      /\ last_s_was_maybe_cut' = continue
  BY DEF New
<1>2. Front' = 1 /\ Len(results') = 0
  BY <1>1 DEF Front
<1> QED  BY <1>1, <1>2 DEF ContinueInv, FlagInv, RunsInv, EndsInv

LEMMA NoIteratorHasRuns ==
  ASSUME NoIterator, NEW continue
  PROVE  ContinueInv(continue)
<1>1. pc = "none" /\ results = <<>> /\ Len(results) = 0
  BY DEF NoIterator
<1> QED  BY <1>1 DEF ContinueInv, FlagInv, RunsInv, EndsInv, Iterating

-----------------------------------------------------------------------------
(* The caller in Splitting.                                                *)

\* The buffer and the settings are the caller's.
LEMMA CallIsTyped ==
  ASSUME CallInv
  PROVE  /\ call.buffer \in Seq(LeadingBytes)
         /\ call.min \in 0 .. 255
         /\ call.same_block \in BOOLEAN /\ call.continue \in BOOLEAN
         /\ call.invalid \in BOOLEAN
         /\ call.grep \in GrepChars /\ GrepCharOK(call.grep)
<1>1. call.buffer \in Seq(LeadingBytes)
  <2>1. call.buffer \in Buffers
    BY DEF CallInv
  <2>2. PICK n \in 0 .. MaxLen : call.buffer \in [1 .. n -> Alphabet]
    BY <2>1 DEF Buffers
  <2>3. n \in Nat
    BY SplittingAssumption
  <2>4. call.buffer \in [1 .. n -> LeadingBytes]
    BY <2>2, SplittingAssumption
  <2> QED  BY <2>3, <2>4
<1> QED  BY <1>1, SplittingAssumption DEF CallInv

LEMMA StartStep ==
  ASSUME IInv, Start
  PROVE  IInv'
<1>1. /\ call' = call
      /\ New(call.buffer, call.min, call.same_block, call.continue, call.invalid,
             call.grep)
  BY DEF Start
<1>2. CallInv' /\ CallInv
  BY <1>1 DEF IInv, CallInv
<1>3. IteratorInv'
  <2>1. /\ call.buffer \in Seq(LeadingBytes) /\ call.min \in 0 .. 255
        /\ call.same_block \in BOOLEAN /\ call.continue \in BOOLEAN
        /\ call.invalid \in BOOLEAN /\ call.grep \in GrepChars /\ GrepCharOK(call.grep)
    BY <1>2, CallIsTyped
  <2> QED  BY <1>1, <2>1, NewEstablishes, ZenonT(60)
<1>4. ContinueInv(call.continue)'
  <2>1. /\ pc' = "loop" /\ ok_s_p' = 1 /\ results' = <<>>
        /\ last_s_was_maybe_cut' = call'.continue
    BY <1>1 DEF New
  <2>2. Front' = 1 /\ Len(results') = 0
    BY <2>1 DEF Front
  <2> QED  BY <2>1, <2>2 DEF ContinueInv, FlagInv, RunsInv, EndsInv
<1> QED  BY <1>2, <1>3, <1>4 DEF IInv

\* What the buffer may continue is what the caller said once.
LEMMA CallStays ==
  ASSUME IInv, UNCHANGED call, IteratorInv',
         \A continue \in BOOLEAN : ContinueInv(continue) => ContinueInv(continue)'
  PROVE  IInv'
<1>1. PICK continue \in BOOLEAN : continue = call.continue
  BY CallIsTyped DEF IInv
<1>2. ContinueInv(continue)
  BY <1>1 DEF IInv, ContinueInv, FlagInv, RunsInv, Qualifies
<1>3. ContinueInv(continue)' /\ call'.continue = continue
  BY <1>1, <1>2
<1>4. ContinueInv(call.continue)'
  BY <1>3 DEF ContinueInv, FlagInv, RunsInv, Qualifies
<1>5. CallInv'
  BY DEF IInv, CallInv
<1> QED  BY <1>4, <1>5 DEF IInv

LEMMA InitIInv == Init => IInv
<1> SUFFICES ASSUME Init PROVE IInv
  OBVIOUS
<1>1. IteratorInv
  BY NoIteratorHasIt DEF Init
<1>2. pc = "none" /\ results = <<>> /\ Len(results) = 0
  BY DEF Init, NoIterator
<1>3. CallInv
  BY DEF Init, CallInv
<1>4. ContinueInv(call.continue)
  BY <1>2 DEF ContinueInv, FlagInv, RunsInv, EndsInv, Iterating
<1> QED  BY <1>1, <1>3, <1>4 DEF IInv

LEMMA NextKeepsIInv == IInv /\ [Next]_vars => IInv'
<1> SUFFICES ASSUME IInv, [Next]_vars PROVE IInv'
  OBVIOUS
<1>1. IteratorInv
  BY DEF IInv
<1>2. CASE Start
  BY <1>2, StartStep
<1>3. CASE Again
  <2>1. CallNext /\ UNCHANGED call
    BY <1>3 DEF Again
  <2> QED  BY <1>1, <2>1, CallNextKeeps, CallNextKeepsRuns, CallStays
<1>4. CASE Step
  <2>1. NextStep /\ UNCHANGED call
    BY <1>4 DEF Step
  <2> QED  BY <1>1, <2>1, NextStepKeeps, NextStepKeepsRuns, CallStays
<1>5. CASE Exhausted \/ UNCHANGED vars
  <2>1. UNCHANGED split_vars /\ UNCHANGED call
    BY <1>5 DEF Exhausted, vars
  <2> QED  BY <1>1, <2>1, UnchangedKeeps, UnchangedKeepsRuns, CallStays
<1> QED  BY <1>2, <1>3, <1>4, <1>5 DEF Next

LEMMA InductiveInvariant == Spec => []IInv
BY InitIInv, NextKeepsIInv, PTL DEF Spec

-----------------------------------------------------------------------------

\* The pointers of the iterator stay inside the buffer, however often p stands still
\* on a rejected character, and no string grows beyond s_char_nb_max.  (next()
\* dereferences p and takes ok_s_p for the start of a slice, unchecked.)
THEOREM SplittingTypes == Spec => []TypeOK
<1>1. IInv => TypeOK
  BY DEF IInv, IteratorInv
<1> QED  BY <1>1, InductiveInvariant, PTL

\* Results are substrings in the buffer's order and without overlap, of characters
\* that pass the filter and the rule of one Unicode block, and no longer than a
\* line -- for every buffer, filter and line length.
THEOREM ResultsAreSubstrings == Spec => []ResultsAreStrings
<1>1. IInv => ResultsAreStrings
  BY DEF IInv, IteratorInv, ResultsInv
<1> QED  BY <1>1, InductiveInvariant, PTL

\* s_completes_previous_s is true exactly of a result that goes on where a cut
\* string ended.
THEOREM ContinuationsContinue == Spec => []ContinuationsAreAdjacent
<1>1. IInv => ContinuationsAreAdjacent
  <2> SUFFICES ASSUME IInv, NEW k \in 1 .. Len(results)
               PROVE  results[k].s_completes_previous_s <=>
                        IF k = 1 THEN call.continue /\ results[k].from = 1
                        ELSE /\ results[k - 1].s_is_maybe_cut
                             /\ results[k].from = EndOf(results[k - 1])
    BY DEF ContinuationsAreAdjacent
  <2>1. results # <<>>
    BY EmptySeq
  <2> QED  BY <2>1 DEF IInv, ContinueInv, FlagInv, IteratorInv, ResultsInv, ContinuesInv
<1> QED  BY <1>1, InductiveInvariant, PTL

\* A result with s_is_to_be_filtered_again is the last one and ends with the
\* buffer, so that FindingCollection::from can find it again by its length.
THEOREM KeptStringEndsBuffer == Spec => []KeptStringIsLast
<1>1. IInv => KeptStringIsLast
  BY DEF IInv, IteratorInv, ResultsInv
<1> QED  BY <1>1, InductiveInvariant, PTL

\* With a grep character that passes the ASCII filter (or none), a result that is
\* printed on its own has MIN characters and the grep character.  The hypothesis
\* is needed: next() looks for the grep character before it applies the filter.
THEOREM MinAndGrepAreObserved ==
  ASSUME GrepPasses
  PROVE  Spec => []MinAndGrepObserved
<1>1. IInv => MinAndGrepObserved
  BY DEF IInv, IteratorInv, ResultsInv
<1> QED  BY <1>1, InductiveInvariant, PTL

\* When the iterator is exhausted, every run of MIN good characters, and every one
\* that touches the end of the buffer or continues a cut string, has been returned,
\* in however many pieces (MIN between one and a line, no grep character).
THEOREM NoRunIsLost == Spec => []NoStringLost
<1>1. IInv => NoStringLost
  BY DEF IInv, ContinueInv, RunsInv, Qualifies, Lossless, NoStringLost
<1> QED  BY <1>1, InductiveInvariant, PTL

=============================================================================
