---------------------------- MODULE ScannerProofs ----------------------------
(***************************************************************************)
(* Proofs about FindingCollection::from, for every behaviour of the        *)
(* modelled decoder, every division of the stream into slices and every    *)
(* size.                                                                   *)
(*                                                                         *)
(* IInv bounds what is kept from one window and one slice to the next and  *)
(* what the output buffer holds; with it from() keeps its promise to the   *)
(* caller (ScanContract) and the overflow cannot be reached in a buffer of *)
(* RoomEnough.                                                             *)
(***************************************************************************)
EXTENDS Scanner, SequenceTheorems, WellFoundedInduction, TLAPS

\* What is proved of the iterator holds of the one that from() makes.  (The lemmas
\* cited are about steps of the iterator; they do not speak of the caller that
\* Splitting has for it.)
Iter == INSTANCE SplittingProofs WITH
            Alphabet   <- SP!LeadingBytes,
            CharsMins  <- {CharsMin},
            SameBlocks <- {SameBlock},
            MaxLen     <- 0,
            call       <- <<>>

\* from() is running, and has opened a window.
Running == step \in {"window", "decode", "decoded", "split"}
InWindow == step \in {"decode", "decoded", "split"}

DecoderInv == decoder = NoBytes \/ decoder.left >= 1

\* The iterator is the one made for this call of the decoder.
SplitInv ==
    /\ Iter!IteratorInv
    /\ step = "split" =>
          /\ pc # "none"
          /\ inp = Leads(text)
          /\ chars_min_nb = CharsMin
          /\ grep_char = filter_grep_char
          /\ invalid_bytes_after_inp = InvalidBytesAfter

WindowInv ==
    /\ step # "idle" => consumed_bytes + slice_len <= MaxBytes
    /\ Running => decoder_input_start <= decoder_read
    /\ step = "window" => decoder_read = decoder_input_start
    /\ InWindow => decoder_input_end \in decoder_read .. slice_len
    /\ step \in {"decoded", "split"} /\ decoder_result = "OutputFull" =>
          decoder_read < decoder_input_end

\* What the iterator keeps is the end of its text, and may go on.
LeftoverInv ==
    /\ step \in {"idle", "window"} => text = <<>>
    /\ step = "split" /\ last_window_leftover # <<>> =>
          /\ ~InvalidBytesAfter
          /\ Len(last_window_leftover) <= Len(text)
          /\ last_window_leftover =
                SubSeq(text, Len(text) + 1 - Len(last_window_leftover), Len(text))
    /\ InWindow /\ decoder_input_start = slice_len =>
          text = <<>> /\ last_window_leftover = <<>>

\* The leftovers are at most a line.
LineInv ==
    /\ Len(last_window_leftover) <= LeftoverMax
    /\ Len(last_scan_run_leftover) <= LeftoverMax

\* All text is in the output buffer.
RoomInv ==
    /\ Utf8Len(last_scan_run_leftover) <= output_buf_len
    /\ Utf8Len(last_window_leftover) <= output_buf_len
    /\ Utf8Len(text) <= decoder_output_start

\* The positions of a collection.
CollectionInv ==
    /\ step = "idle" => v = <<>>
    /\ \A i \in 1 .. Len(v) :
          /\ consumed_bytes <= v[i].position
          /\ v[i].position <= consumed_bytes + decoder_input_start
          /\ v[i].position < consumed_bytes + slice_len
    /\ \A i \in 1 .. Len(v) - 1 : v[i].position <= v[i + 1].position

\* How much of the output buffer may be in use.
OverflowInv ==
    RoomEnough =>
        /\ step # "panicked" /\ decoder_result # "OutputFull"
        /\ step \in {"window", "decode", "decoded"} =>
              Utf8Len(last_window_leftover) + Utf8Len(text) <= decoder_output_start
        /\ Running =>
              /\ decoder_output_start <= 4 * LeftoverMax + 3 * decoder_read + 1
              /\ decoder # NoBytes =>
                    decoder_output_start + CharLen(decoder.lead)
                       <= 4 * LeftoverMax + 3 * (decoder_read + decoder.left) + 1

IInv == /\ TypeOK /\ DecoderInv /\ SplitInv /\ WindowInv /\ LeftoverInv /\ LineInv
        /\ RoomInv /\ CollectionInv /\ OverflowInv


-----------------------------------------------------------------------------
(* The length of a text in UTF-8, and the induction it takes.              *)

\* A set of numbers has a least element, and so there is induction.
LEMMA NatLeast ==
  ASSUME NEW S \in SUBSET Nat, S # {}
  PROVE  \E m \in S : \A k \in S : m <= k
<1> DEFINE R == OpToRel(<, Nat)
<1>1. IsWellFoundedOn(R, Nat)
  BY NatLessThanWellFounded
<1>2. \A x, y \in Nat : <<y, x>> \in R <=> y < x
  BY DEF OpToRel
<1> HIDE DEF R
<1>3. PICK x \in S : \A y \in S : <<y, x>> \notin R
  BY <1>1, WFMin
<1>4. \A y \in S : ~(y < x)
  BY <1>2, <1>3
<1> QED  BY <1>4

LEMMA SetInduction ==
  ASSUME NEW T, 0 \in T, \A n \in Nat : n \in T => n + 1 \in T
  PROVE  Nat \subseteq T
<1> SUFFICES ASSUME Nat \ T # {} PROVE FALSE
  OBVIOUS
<1>1. PICK m \in Nat \ T : \A k \in Nat \ T : m <= k
  BY NatLeast
<1>2. m # 0 /\ m - 1 \in Nat /\ m = (m - 1) + 1
  BY <1>1
<1>3. m - 1 \in T
  BY <1>1, <1>2
<1> QED  BY <1>1, <1>2, <1>3

\* The lengths of the prefixes of a text.
LenFcn(t, f) ==
    f = [i \in 0 .. Len(t) |-> IF i = 0 THEN 0 ELSE f[i - 1] + CharLen(t[i].lead)]

PrefixLens(t) == CHOOSE f : LenFcn(t, f)

LEMMA CharLenRange == \A lead : CharLen(lead) \in 1 .. 4
BY DEF CharLen

LEMMA LenFcnExists ==
  ASSUME NEW S, NEW t \in Seq(S)
  PROVE  \E f : LenFcn(t, f)
<1> DEFINE Upto(n, f) == f = [i \in 0 .. n |-> IF i = 0 THEN 0 ELSE f[i - 1] + CharLen(t[i].lead)]
           T == {n \in Nat : \E f : Upto(n, f)}
<1>1. 0 \in T
  <2>1. Upto(0, [i \in 0 .. 0 |-> 0])
    OBVIOUS
  <2> QED  BY <2>1
<1>2. ASSUME NEW n \in Nat, n \in T PROVE n + 1 \in T
  <2>1. PICK f : Upto(n, f)
    BY <1>2
  <2> DEFINE g == [i \in 0 .. n + 1 |-> IF i = n + 1 THEN f[n] + CharLen(t[n + 1].lead)
                                                   ELSE f[i]]
  <2>2. ASSUME NEW i \in 0 .. n + 1
        PROVE  g[i] = IF i = 0 THEN 0 ELSE g[i - 1] + CharLen(t[i].lead)
    <3>1. CASE i = n + 1
      <4>1. i # 0 /\ i - 1 = n /\ n \in 0 .. n + 1 /\ n # n + 1
        BY <3>1
      <4> QED  BY <3>1, <4>1
    <3>2. CASE i # n + 1
      <4>1. i \in 0 .. n /\ (i # 0 => i - 1 \in 0 .. n /\ i - 1 \in 0 .. n + 1 /\ i - 1 # n + 1)
        BY <3>2
      <4>2. f[i] = IF i = 0 THEN 0 ELSE f[i - 1] + CharLen(t[i].lead)
        BY <2>1, <4>1
      <4> QED  BY <3>2, <4>1, <4>2
    <3> QED  BY <3>1, <3>2
  <2>3. g = [i \in 0 .. n + 1 |-> g[i]]
    OBVIOUS
  <2>4. Upto(n + 1, g)
    <3> HIDE DEF g
    <3> QED  BY <2>2, <2>3
  <2>5. \E h : Upto(n + 1, h)
    <3> HIDE DEF g, Upto
    <3> QED  BY <2>4
  <2> HIDE DEF g, Upto
  <2>6. n + 1 \in Nat
    OBVIOUS
  <2> QED  BY <2>5, <2>6
<1>3. Len(t) \in Nat
  OBVIOUS
<1>4. Len(t) \in T
  <2> HIDE DEF T
  <2> QED  BY <1>1, <1>2, <1>3, SetInduction
<1> QED  BY <1>4 DEF LenFcn

LEMMA PrefixLensDef ==
  ASSUME NEW S, NEW t \in Seq(S)
  PROVE  /\ Utf8Len(t) = PrefixLens(t)[Len(t)]
         /\ PrefixLens(t)[0] = 0
         /\ \A i \in 1 .. Len(t) :
               PrefixLens(t)[i] = PrefixLens(t)[i - 1] + CharLen(t[i].lead)
<1>1. LenFcn(t, PrefixLens(t))
  BY LenFcnExists DEF PrefixLens
<1>2. Utf8Len(t) = PrefixLens(t)[Len(t)]
  BY DEF Utf8Len, PrefixLens, LenFcn
<1> DEFINE f == PrefixLens(t)
<1> HIDE DEF f
<1>3. f = [i \in 0 .. Len(t) |-> IF i = 0 THEN 0 ELSE f[i - 1] + CharLen(t[i].lead)]
  BY <1>1 DEF LenFcn, f
<1>4. Len(t) \in Nat
  OBVIOUS
<1>5. f[0] = 0 /\ \A i \in 1 .. Len(t) : f[i] = f[i - 1] + CharLen(t[i].lead)
  BY <1>3, <1>4
<1> QED  BY <1>2, <1>5 DEF f

LEMMA Utf8LenEmpty == Utf8Len(<<>>) = 0
<1>1. <<>> \in Seq(Nat) /\ Len(<<>>) = 0
  OBVIOUS
<1> QED  BY <1>1, PrefixLensDef

\* Lengths of prefixes are numbers, and grow with the prefix.
LEMMA PrefixLensBounds ==
  ASSUME NEW S, NEW t \in Seq(S), NEW n \in 0 .. Len(t)
  PROVE  /\ PrefixLens(t)[n] \in Nat
         /\ PrefixLens(t)[n] <= 4 * n
         /\ PrefixLens(t)[n] >= n
<1> DEFINE f == PrefixLens(t)
           T == {k \in Nat : k <= Len(t) => f[k] \in Nat /\ f[k] <= 4 * k /\ f[k] >= k}
<1> HIDE DEF f
<1>1. f[0] = 0 /\ \A i \in 1 .. Len(t) : f[i] = f[i - 1] + CharLen(t[i].lead)
  BY PrefixLensDef DEF f
<1>2. 0 \in T
  BY <1>1
<1>3. ASSUME NEW k \in Nat, k \in T PROVE k + 1 \in T
  <2>1. CASE k + 1 <= Len(t)
    <3>1. k + 1 \in 1 .. Len(t) /\ (k + 1) - 1 = k /\ k <= Len(t) /\ Len(t) \in Nat
      BY <2>1
    <3>2. f[k + 1] = f[k] + CharLen(t[k + 1].lead)
      BY <1>1, <3>1
    <3>3. f[k] \in Nat /\ f[k] <= 4 * k /\ f[k] >= k
      BY <1>3, <3>1
    <3> DEFINE c == CharLen(t[k + 1].lead)
    <3>4. c \in 1 .. 4
      BY CharLenRange
    <3> HIDE DEF c
    <3> QED  BY <3>2, <3>3, <3>4 DEF c
  <2> QED  BY <2>1
<1>4. Nat \subseteq T
  <2> HIDE DEF T
  <2> QED  BY <1>2, <1>3, SetInduction
<1>5. n \in Nat /\ n <= Len(t)
  OBVIOUS
<1> QED  BY <1>4, <1>5 DEF T, f

LEMMA Utf8LenBounds ==
  ASSUME NEW S, NEW t \in Seq(S)
  PROVE  /\ Utf8Len(t) \in Nat
         /\ Utf8Len(t) <= 4 * Len(t)
<1>1. Len(t) \in 0 .. Len(t) /\ Utf8Len(t) = PrefixLens(t)[Len(t)]
  BY PrefixLensDef
<1> QED  BY <1>1, PrefixLensBounds

\* A text is as long as its two parts.
LEMMA Utf8LenConcat ==
  ASSUME NEW S, NEW s \in Seq(S), NEW t \in Seq(S)
  PROVE  Utf8Len(s \o t) = Utf8Len(s) + Utf8Len(t)
<1> DEFINE st == s \o t
           m == Len(s)
           f == PrefixLens(s)
           g == PrefixLens(t)
           h == PrefixLens(st)
           T == {k \in Nat : k <= m => h[k] = f[k]}
           U == {k \in Nat : k <= Len(t) => h[m + k] = f[m] + g[k]}
<1> HIDE DEF f, g, h
<1>1. /\ st \in Seq(S) /\ Len(st) = m + Len(t) /\ m \in Nat /\ Len(t) \in Nat
      /\ \A i \in 1 .. m : st[i] = s[i]
      /\ \A i \in 1 .. Len(t) : st[m + i] = t[i]
  OBVIOUS
<1> HIDE DEF st, m
<1>2. f[0] = 0 /\ \A i \in 1 .. m : f[i] = f[i - 1] + CharLen(s[i].lead)
  BY PrefixLensDef DEF f, m
<1>3. g[0] = 0 /\ \A i \in 1 .. Len(t) : g[i] = g[i - 1] + CharLen(t[i].lead)
  BY PrefixLensDef DEF g
<1>4. h[0] = 0 /\ \A i \in 1 .. Len(st) : h[i] = h[i - 1] + CharLen(st[i].lead)
  BY <1>1, PrefixLensDef DEF h
<1>5. 0 \in T
  BY <1>2, <1>4
<1>6. ASSUME NEW k \in Nat, k \in T PROVE k + 1 \in T
  <2>1. CASE k + 1 <= m
    <3>1. k + 1 \in 1 .. m /\ k + 1 \in 1 .. Len(st) /\ (k + 1) - 1 = k /\ k <= m
      BY <1>1, <2>1
    <3>2. f[k + 1] = f[k] + CharLen(s[k + 1].lead) /\ h[k + 1] = h[k] + CharLen(st[k + 1].lead)
      BY <1>2, <1>4, <3>1
    <3> QED  BY <1>1, <1>6, <3>1, <3>2
  <2> QED  BY <1>1, <2>1
<1>7. Nat \subseteq T
  <2> HIDE DEF T
  <2> QED  BY <1>5, <1>6, SetInduction
<1>8. h[m] = f[m]
  BY <1>1, <1>7 DEF T
<1>9. f[m] \in Nat
  BY <1>1, PrefixLensBounds DEF f, m
<1>10. 0 \in U
  BY <1>1, <1>3, <1>8, <1>9
<1>11. ASSUME NEW k \in Nat, k \in U PROVE k + 1 \in U
  <2>1. CASE k + 1 <= Len(t)
    <3>1. /\ k + 1 \in 1 .. Len(t) /\ (k + 1) - 1 = k /\ k <= Len(t)
          /\ m + (k + 1) \in 1 .. Len(st) /\ (m + (k + 1)) - 1 = m + k
      BY <1>1, <2>1
    <3>2. g[k + 1] = g[k] + CharLen(t[k + 1].lead)
      BY <1>3, <3>1
    <3>3. h[m + (k + 1)] = h[m + k] + CharLen(st[m + (k + 1)].lead)
      BY <1>4, <3>1
    <3>4. st[m + (k + 1)] = t[k + 1]
      BY <1>1, <3>1
    <3>5. h[m + k] = f[m] + g[k] /\ g[k] \in Nat
      BY <1>11, <3>1, PrefixLensBounds DEF g
    <3> DEFINE c == CharLen(t[k + 1].lead)
    <3>6. c \in 1 .. 4
      BY CharLenRange
    <3> HIDE DEF c
    <3>7. h[m + (k + 1)] = (f[m] + g[k]) + c /\ g[k + 1] = g[k] + c
      BY <3>2, <3>3, <3>4, <3>5 DEF c
    <3> QED  BY <1>9, <3>5, <3>6, <3>7
  <2> QED  BY <1>1, <2>1
<1>12. Nat \subseteq U
  <2> HIDE DEF U
  <2> QED  BY <1>10, <1>11, SetInduction
<1>13. h[m + Len(t)] = f[m] + g[Len(t)]
  BY <1>1, <1>12 DEF U
<1>14. /\ Utf8Len(s \o t) = h[Len(st)] /\ Utf8Len(s) = f[m] /\ Utf8Len(t) = g[Len(t)]
  BY <1>1, PrefixLensDef DEF f, g, h, st, m
<1> QED  BY <1>1, <1>13, <1>14

LEMMA Utf8LenAppend ==
  ASSUME NEW S, NEW t \in Seq(S), NEW c \in S
  PROVE  Utf8Len(Append(t, c)) = Utf8Len(t) + CharLen(c.lead)
<1> DEFINE u == <<c>>
<1>1. u \in Seq(S) /\ Len(u) = 1 /\ u[1] = c /\ Append(t, c) = t \o u
  OBVIOUS
<1> HIDE DEF u
<1>2. PrefixLens(u)[1] = PrefixLens(u)[0] + CharLen(u[1].lead) /\ PrefixLens(u)[0] = 0
  BY <1>1, PrefixLensDef, 1 \in 1 .. Len(u), 1 - 1 = 0
<1>3. Utf8Len(u) = PrefixLens(u)[1]
  BY <1>1, PrefixLensDef
<1>4. CharLen(c.lead) \in Nat
  BY CharLenRange
<1>5. Utf8Len(u) = CharLen(c.lead)
  BY <1>1, <1>2, <1>3, <1>4
<1>6. Utf8Len(t \o u) = Utf8Len(t) + Utf8Len(u)
  BY <1>1, Utf8LenConcat
<1> QED  BY <1>1, <1>5, <1>6

\* The end of a text is not longer than the text.
LEMMA Utf8LenSuffix ==
  ASSUME NEW S, NEW t \in Seq(S), NEW n \in 1 .. Len(t) + 1
  PROVE  Utf8Len(SubSeq(t, n, Len(t))) <= Utf8Len(t)
<1>1. n - 1 \in Nat /\ Len(t) \in Nat /\ n \in Nat
  OBVIOUS
<1>2. SubSeq(t, 1, n - 1) \in Seq(S) /\ SubSeq(t, n, Len(t)) \in Seq(S)
  OBVIOUS
<1>3. t = SubSeq(t, 1, n - 1) \o SubSeq(t, n, Len(t))
  <2>1. n - 1 \in 0 .. Len(t) /\ (n - 1) + 1 = n /\ 1 \in 1 .. Len(t) + 1
        /\ n - 1 \in 1 - 1 .. Len(t) /\ Len(t) \in n - 1 .. Len(t)
    BY <1>1
  <2>2. SubSeq(t, 1, n - 1) \o SubSeq(t, (n - 1) + 1, Len(t)) = SubSeq(t, 1, Len(t))
    BY <2>1, ConcatAdjacentSubSeq
  <2> QED  BY <2>1, <2>2, SubSeqFull
<1> DEFINE a == SubSeq(t, 1, n - 1)
           b == SubSeq(t, n, Len(t))
<1> HIDE DEF a, b
<1>4. Utf8Len(t) = Utf8Len(a) + Utf8Len(b)
  BY <1>2, <1>3, Utf8LenConcat DEF a, b
<1>5. Utf8Len(a) \in Nat /\ Utf8Len(b) \in Nat
  BY <1>2, Utf8LenBounds DEF a, b
<1> QED  BY <1>4, <1>5 DEF b

-----------------------------------------------------------------------------
(* The iterator.                                                           *)

LEMMA IterAssumptions == Iter!SplitStrAssumption /\ Iter!SplittingAssumption
BY ScannerAssumption
   DEF Iter!SplitStrAssumption, Iter!SplittingAssumption, SP!Ascii, Iter!Ascii,
       SP!LeadingBytes, Iter!LeadingBytes, CharMax, SP!GrepCharOK, Iter!GrepCharOK

\* What the iterator does in from() are the steps whose lemmas are cited.
LEMMA SameIterator ==
  /\ SP!NoIterator => Iter!NoIterator
  /\ SP!NextStep => Iter!NextStep
  /\ SP!CallNext => Iter!CallNext
  /\ UNCHANGED split_vars => UNCHANGED Iter!split_vars
<1> USE DEF SP!LeadingBytes, Iter!LeadingBytes, SP!Ascii, Iter!Ascii,
            SP!PassesFilter, Iter!PassesFilter, SP!IsMultibyte, Iter!IsMultibyte,
            SP!NoGrep, Iter!NoGrep, SP!given_vars, Iter!given_vars,
            SP!iterator_vars, Iter!iterator_vars, SP!local_vars, Iter!local_vars
<1>1. SP!NoIterator => Iter!NoIterator
  BY DEF SP!NoIterator, Iter!NoIterator
<1>2. SP!CallNext => Iter!CallNext
  BY DEF SP!CallNext, Iter!CallNext
<1>3. UNCHANGED split_vars => UNCHANGED Iter!split_vars
  BY DEF split_vars, Iter!split_vars
<1>4. SP!NextStep => Iter!NextStep
  <2> USE DEF SP!InLoop, Iter!InLoop, SP!OtherBlock, Iter!OtherBlock,
              SP!GrepOkWith, Iter!GrepOkWith, SP!SkipRejected, Iter!SkipRejected,
              SP!Collected, Iter!Collected, SP!Rejected, Iter!Rejected,
              SP!LoopLeft, Iter!LoopLeft, SP!TouchesLeft, Iter!TouchesLeft,
              SP!TouchesRight, Iter!TouchesRight, SP!IsMaybeCut, Iter!IsMaybeCut,
              SP!CompletesPrevious, Iter!CompletesPrevious,
              SP!ToBeFilteredAgain, Iter!ToBeFilteredAgain,
              SP!IsDismissed, Iter!IsDismissed
  <2>1. SP!Accept => Iter!Accept
    BY DEF SP!Accept, Iter!Accept
  <2>2. SP!Restart => Iter!Restart
    BY DEF SP!Restart, Iter!Restart
  <2>3. SP!Break => Iter!Break
    BY DEF SP!Break, Iter!Break
  <2>4. SP!Exhaust => Iter!Exhaust
    BY DEF SP!Exhaust, Iter!Exhaust
  <2>5. SP!Return => Iter!Return
    BY DEF SP!Return, Iter!Return
  <2> QED  BY <2>1, <2>2, <2>3, <2>4, <2>5 DEF SP!NextStep, Iter!NextStep
<1> QED  BY <1>1, <1>2, <1>3, <1>4

LEMMA IteratorKept ==
  ASSUME Iter!IteratorInv, SP!NextStep \/ SP!CallNext \/ UNCHANGED split_vars
  PROVE  Iter!IteratorInv'
BY SameIterator, IterAssumptions, Iter!NextStepKeeps, Iter!CallNextKeeps,
   Iter!UnchangedKeeps

LEMMA NoIteratorYet ==
  ASSUME SP!NoIterator
  PROVE  Iter!IteratorInv
BY SameIterator, IterAssumptions, Iter!NoIteratorHasIt

LEMMA IteratorMade ==
  ASSUME NEW buffer \in Seq(SP!LeadingBytes), NEW continue \in BOOLEAN,
         NEW invalid \in BOOLEAN, NEW grep \in GrepChars,
         SP!New(buffer, CharsMin, SameBlock, continue, invalid, grep)
  PROVE  Iter!IteratorInv'
<1>1. Iter!New(buffer, CharsMin, SameBlock, continue, invalid, grep)
  BY DEF SP!New, Iter!New
<1>2. buffer \in Seq(Iter!LeadingBytes)
  BY DEF SP!LeadingBytes, Iter!LeadingBytes, SP!Ascii, Iter!Ascii
<1>3. Iter!GrepCharOK(grep) /\ CharsMin \in 0 .. 255 /\ SameBlock \in BOOLEAN
  BY ScannerAssumption DEF SP!GrepCharOK, Iter!GrepCharOK, SP!Ascii, Iter!Ascii
<1>4. invalid \in BOOLEAN /\ continue \in BOOLEAN /\ grep \in GrepChars
  OBVIOUS
<1> QED  BY <1>1, <1>2, <1>3, <1>4, IterAssumptions, Iter!NewEstablishes, ZenonT(60)

-----------------------------------------------------------------------------
(* Facts about the types.                                                  *)

Char == [lead : SP!LeadingBytes, at : Nat, end : Nat]

LEMMA ConstantTypes ==
  /\ LineLen \in Nat /\ LineLen >= 1 /\ CharsMin \in 0 .. 255 /\ MaxSlice \in Nat
  /\ MaxBytes \in Nat /\ \A len \in OutputBufLens : len \in Nat
  /\ \A grep \in GrepChars : SP!GrepCharOK(grep)
  /\ LeftoverMax \in Nat /\ (NoGrep => LeftoverMax = LineLen - 1)
  /\ (~NoGrep => LeftoverMax = LineLen)
  /\ \A c \in Chars : /\ c.lead \in SP!LeadingBytes /\ c.width \in Nat /\ c.width >= 1
                      /\ CharLen(c.lead) <= 3 * c.width
BY ScannerAssumption DEF LeftoverMax

LEMMA TextTypes ==
  ASSUME NEW t \in Text
  PROVE  /\ t \in Seq(Char) /\ Len(t) \in Nat
         /\ Utf8Len(t) \in Nat /\ Utf8Len(t) <= 4 * Len(t)
         /\ \A i \in 1 .. Len(t) : t[i] \in Char /\ t[i].lead \in SP!LeadingBytes
         /\ Leads(t) \in Seq(SP!LeadingBytes) /\ Len(Leads(t)) = Len(t)
         /\ \A i \in 1 .. Len(t) : Leads(t)[i] = t[i].lead
<1>1. t \in Seq(Char)
  BY DEF Text, Char
<1>2. Len(t) \in Nat /\ \A i \in 1 .. Len(t) : t[i] \in Char
  BY <1>1
<1>3. \A i \in 1 .. Len(t) : t[i].lead \in SP!LeadingBytes
  BY <1>2 DEF Char
<1>4. Leads(t) \in Seq(SP!LeadingBytes) /\ Len(Leads(t)) = Len(t)
  <2>1. Leads(t) \in [1 .. Len(t) -> SP!LeadingBytes]
    BY <1>3 DEF Leads
  <2> QED  BY <1>2, <2>1 DEF Leads
<1>5. \A i \in 1 .. Len(t) : Leads(t)[i] = t[i].lead
  BY DEF Leads
<1> QED  BY <1>1, <1>2, <1>3, <1>4, <1>5, Utf8LenBounds

LEMMA TextConcat ==
  ASSUME NEW s \in Text, NEW t \in Text
  PROVE  s \o t \in Text /\ Utf8Len(s \o t) = Utf8Len(s) + Utf8Len(t)
<1>1. s \in Seq(Char) /\ t \in Seq(Char)
  BY DEF Text, Char
<1>2. s \o t \in Seq(Char)
  BY <1>1
<1> QED  BY <1>1, <1>2, Utf8LenConcat DEF Text, Char

LEMMA EmptyText == <<>> \in Text /\ Utf8Len(<<>>) = 0 /\ Len(<<>>) = 0
BY Utf8LenEmpty DEF Text

\* What the invariants say when the iterator has returned a chunk.
LEMMA ChunkFacts ==
  ASSUME TypeOK, SplitInv, step = "split", pc = "returned"
  PROVE  /\ results # <<>> /\ Len(text) \in Nat
         /\ Chunk.from \in Nat /\ Chunk.from >= 1
         /\ Chunk.nb \in Nat /\ Chunk.nb >= 1 /\ Chunk.nb <= LineLen
         /\ Chunk.from + Chunk.nb <= Len(text) + 1
         /\ Chunk.s_completes_previous_s \in BOOLEAN
         /\ Chunk.s_is_maybe_cut \in BOOLEAN
         /\ Chunk.s_is_to_be_filtered_again \in BOOLEAN
         /\ \A k \in Chunk.from .. Chunk.from + Chunk.nb - 1 : SP!PassesFilter(text[k].lead)
         /\ Chunk.s_is_to_be_filtered_again =>
               /\ ~InvalidBytesAfter
               /\ Chunk.from + Chunk.nb = Len(text) + 1
               /\ Chunk.nb <= LeftoverMax
<1> DEFINE n == Len(results)
<1>1. /\ Iter!IteratorInv /\ inp = Leads(text) /\ grep_char = filter_grep_char
      /\ invalid_bytes_after_inp = InvalidBytesAfter
  BY DEF SplitInv
<1>2. /\ Iter!TypeOK /\ Iter!PlaceInv /\ Iter!ResultsAreStrings
      /\ Iter!KeptStringIsLast /\ Iter!KeptInv
  BY <1>1 DEF Iter!IteratorInv, Iter!ResultsInv
<1>3. results \in Seq(Iter!Result) /\ results # <<>> /\ n \in Nat /\ n >= 1
  BY <1>2 DEF Iter!TypeOK, Iter!PlaceInv
<1>4. Chunk = results[n] /\ n \in 1 .. Len(results) /\ Chunk \in Iter!Result
  BY <1>3 DEF Chunk
<1>5. text \in Text /\ Len(inp) = Len(text) /\ Len(text) \in Nat
      /\ \A k \in 1 .. Len(text) : inp[k] = text[k].lead
  BY <1>1, TextTypes DEF TypeOK
<1>6. /\ Chunk.from \in Nat /\ Chunk.from >= 1
      /\ Chunk.nb \in Nat /\ Chunk.nb >= 1
      /\ Chunk.s_completes_previous_s \in BOOLEAN
      /\ Chunk.s_is_maybe_cut \in BOOLEAN
      /\ Chunk.s_is_to_be_filtered_again \in BOOLEAN
  BY <1>4 DEF Iter!Result
<1>7. Chunk.from + Chunk.nb <= Len(text) + 1 /\ Chunk.nb <= LineLen
  BY <1>2, <1>4, <1>5 DEF Iter!ResultsAreStrings, Iter!EndOf, CharMax
<1>8. ASSUME NEW k \in Chunk.from .. Chunk.from + Chunk.nb - 1
      PROVE  SP!PassesFilter(text[k].lead)
  <2>1. Iter!PassesFilter(inp[k])
    BY <1>2, <1>4, <1>8 DEF Iter!ResultsAreStrings, Iter!Homogeneous, Iter!PlacesOf
  <2>2. k \in 1 .. Len(text)
    BY <1>5, <1>6, <1>7, <1>8
  <2> QED  BY <1>5, <2>1, <2>2 DEF Iter!PassesFilter, SP!PassesFilter
<1>9. ASSUME Chunk.s_is_to_be_filtered_again
      PROVE  /\ ~InvalidBytesAfter
             /\ Chunk.from + Chunk.nb = Len(text) + 1
             /\ Chunk.nb <= LeftoverMax
  <2>1. Chunk.from + Chunk.nb = Len(text) + 1
    BY <1>2, <1>4, <1>5, <1>9 DEF Iter!KeptStringIsLast, Iter!EndOf
  <2>2. ~InvalidBytesAfter /\ (NoGrep => Chunk.nb < LineLen)
    BY <1>1, <1>2, <1>4, <1>9 DEF Iter!KeptInv, Iter!NoGrep, NoGrep, CharMax
  <2> QED  BY <1>6, <1>7, <2>1, <2>2, ConstantTypes
<1> QED  BY <1>3, <1>5, <1>6, <1>7, <1>8, <1>9

-----------------------------------------------------------------------------
(* Every step keeps the inductive invariant.                               *)

LEMMA InitIInv == Init => IInv
<1> SUFFICES ASSUME Init PROVE IInv
  OBVIOUS
<1>1. /\ decoder = NoBytes /\ last_scan_run_leftover = <<>>
      /\ last_run_str_was_printed_and_is_maybe_cut_str = FALSE
      /\ consumed_bytes = 0 /\ slice_len = 0 /\ is_last_input_buffer = FALSE
      /\ input_file_id = 0 /\ output_buf_len \in OutputBufLens
      /\ filter_grep_char \in GrepChars /\ step = "idle"
      /\ decoder_input_start = 0 /\ decoder_input_end = 0 /\ is_last_window = FALSE
      /\ extra_round = FALSE /\ decoder_output_start = 0 /\ last_window_leftover = <<>>
      /\ cut_flag = FALSE /\ position_precision = "Exact"
      /\ decoder_result = "InputEmpty" /\ decoder_read = 0 /\ text = <<>> /\ v = <<>>
      /\ str_buf_overflow = FALSE /\ printed = <<>> /\ incomplete = FALSE
  BY DEF Init
<1>2. output_buf_len \in Nat
  BY <1>1, ConstantTypes
<1>3. TypeOK
  <2>1. NoBytes \in [lead : SP!LeadingBytes, at : Nat, left : Nat]
    BY DEF NoBytes, SP!LeadingBytes, SP!Ascii
  <2>2. <<>> \in Seq(FindingType)
    OBVIOUS
  <2>3. /\ consumed_bytes \in 0 .. MaxBytes /\ slice_len \in 0 .. MaxSlice
        /\ input_file_id \in 0 .. 255 /\ decoder_input_start \in 0 .. slice_len
        /\ decoder_read \in 0 .. slice_len
        /\ decoder_output_start \in 0 .. output_buf_len
    BY <1>1, <1>2, ConstantTypes
  <2> QED  BY <1>1, <2>1, <2>2, <2>3, EmptyText DEF TypeOK
<1>4. DecoderInv /\ WindowInv /\ LeftoverInv
  BY <1>1 DEF DecoderInv, WindowInv, LeftoverInv, Running, InWindow
<1>5. SplitInv
  <2>1. SP!NoIterator
    BY DEF Init
  <2> QED  BY <1>1, <2>1, NoIteratorYet DEF SplitInv
<1>6. LineInv /\ RoomInv
  BY <1>1, <1>2, EmptyText, ConstantTypes DEF LineInv, RoomInv
<1>7. CollectionInv
  BY <1>1 DEF CollectionInv
<1>8. OverflowInv
  BY <1>1 DEF OverflowInv, Running
<1> QED  BY <1>3, <1>4, <1>5, <1>6, <1>7, <1>8 DEF IInv

\* A character that is still to be written has at least one byte left to read.
LEMMA RoomForOneMore ==
  ASSUME NEW out \in Nat, NEW leftover \in Nat, NEW read \in Nat,
         NEW left \in Nat, left >= 1, NEW len \in 1 .. 4,
         out <= 4 * leftover + 3 * read
  PROVE  out + len <= 4 * leftover + 3 * (read + left) + 1
OBVIOUS

LEMMA BeginKeeps ==
  ASSUME IInv, Begin
  PROVE  IInv'
<1>1. /\ step = "idle" /\ step' \in {"window", "panicked"}
      /\ step' = "panicked" => ~(Utf8Len(last_scan_run_leftover) <= output_buf_len)
      /\ slice_len' \in 0 .. MaxSlice /\ is_last_input_buffer' \in LastFlags
      /\ input_file_id' \in FileIds /\ consumed_bytes + slice_len' <= MaxBytes
      /\ str_buf_overflow' = FALSE
      /\ decoder_input_start' = 0 /\ decoder_read' = 0
      /\ is_last_window' = FALSE /\ extra_round' = FALSE
      /\ last_window_leftover' = last_scan_run_leftover
      /\ decoder_output_start' = Utf8Len(last_scan_run_leftover)
      /\ last_scan_run_leftover' = <<>>
      /\ cut_flag' = last_run_str_was_printed_and_is_maybe_cut_str
      /\ UNCHANGED <<split_vars, decoder, consumed_bytes, decoder_input_end,
                     last_run_str_was_printed_and_is_maybe_cut_str,
                     position_precision, decoder_result, text, v, printed, incomplete,
                     output_buf_len, filter_grep_char>>
  BY DEF Begin, Called, returned_vars
<1>2. /\ TypeOK /\ output_buf_len \in Nat /\ consumed_bytes \in Nat
      /\ Utf8Len(last_scan_run_leftover) \in Nat
      /\ Utf8Len(last_scan_run_leftover) <= 4 * Len(last_scan_run_leftover)
      /\ Len(last_scan_run_leftover) \in Nat /\ Len(last_scan_run_leftover) <= LeftoverMax
      /\ Utf8Len(last_scan_run_leftover) <= output_buf_len
  BY TextTypes, ConstantTypes DEF IInv, TypeOK, RoomInv, LineInv
<1>3. TypeOK'
  <2>1. is_last_input_buffer' \in BOOLEAN /\ input_file_id' \in 0 .. 255
    BY <1>1, ScannerAssumption
  <2>2. decoder_output_start' \in 0 .. output_buf_len'
    BY <1>1, <1>2
  <2>3. /\ consumed_bytes' \in 0 .. MaxBytes /\ slice_len' \in 0 .. MaxSlice
        /\ decoder_input_start' \in 0 .. slice_len' /\ decoder_read' \in 0 .. slice_len'
    BY <1>1 DEF IInv, TypeOK
  <2> QED  BY <1>1, <1>2, <2>1, <2>2, <2>3, EmptyText DEF TypeOK
<1>4. text' = <<>> /\ v' = <<>>
  BY <1>1 DEF IInv, LeftoverInv, CollectionInv
<1>5. DecoderInv' /\ WindowInv' /\ LeftoverInv'
  BY <1>1, <1>4 DEF IInv, DecoderInv, WindowInv, LeftoverInv, Running, InWindow, NoBytes
<1>6. SplitInv'
  BY <1>1, IteratorKept DEF IInv, SplitInv
<1>7. LineInv' /\ RoomInv'
  BY <1>1, <1>2, <1>4, EmptyText, ConstantTypes
     DEF LineInv, RoomInv, LeftoverMax, NoGrep
<1>8. CollectionInv'
  BY <1>1, <1>4 DEF CollectionInv
<1>9. OverflowInv'
  <2> SUFFICES ASSUME RoomEnough' PROVE OverflowInv!2'
    BY DEF OverflowInv
  <2>1. RoomEnough /\ LeftoverMax' = LeftoverMax /\ LeftoverMax \in Nat
    BY <1>1, ConstantTypes DEF RoomEnough, LeftoverMax, NoGrep
  <2>2. step' = "window" /\ decoder_result' # "OutputFull"
    BY <1>1, <1>2, <2>1 DEF IInv, OverflowInv
  <2>3. Utf8Len(last_window_leftover)' + Utf8Len(text)' <= decoder_output_start'
    BY <1>1, <1>2, <1>4, EmptyText
  <2>4. decoder_output_start' <= 4 * LeftoverMax' + 3 * decoder_read' + 1
    BY <1>1, <1>2, <2>1
  <2>5. ASSUME decoder' # NoBytes'
        PROVE  decoder_output_start' + CharLen(decoder.lead)'
                  <= 4 * LeftoverMax' + 3 * (decoder_read' + decoder.left') + 1
    <3>1. decoder' = decoder /\ decoder # NoBytes
      BY <1>1, <2>5 DEF NoBytes
    <3>2. decoder.left \in Nat /\ decoder.left >= 1
      BY <1>2, <3>1 DEF IInv, DecoderInv, TypeOK
    <3>3. CharLen(decoder.lead) \in 1 .. 4 
      BY CharLenRange
    <3>4. decoder.left' = decoder.left /\ CharLen(decoder.lead)' = CharLen(decoder.lead)
      BY <3>1
    <3> HIDE DEF CharLen
    <3>5. /\ decoder_output_start' <= 4 * LeftoverMax' + 3 * decoder_read'
          /\ decoder_output_start' \in Nat /\ decoder_read' \in Nat /\ LeftoverMax' \in Nat
      BY <1>1, <1>2, <2>1
    <3> QED  BY <3>2, <3>3, <3>4, <3>5, RoomForOneMore
  <2> QED  BY <2>2, <2>3, <2>4, <2>5 DEF Running
<1> QED  BY <1>3, <1>5, <1>6, <1>7, <1>8, <1>9 DEF IInv

LEMMA OpenWindowKeeps ==
  ASSUME IInv, OpenWindow
  PROVE  IInv'
<1>1. /\ step = "window" /\ step' = "decode"
      /\ decoder_input_start < slice_len
      /\ is_last_window' \in {is_last_window, TRUE}
      /\ decoder_input_end' = IF decoder_input_start + 2 * LineLen < slice_len
                              THEN decoder_input_start + 2 * LineLen ELSE slice_len
      /\ UNCHANGED <<split_vars, decoder, last_scan_run_leftover,
                     last_run_str_was_printed_and_is_maybe_cut_str, consumed_bytes,
                     output_buf_len, filter_grep_char, slice_len, is_last_input_buffer,
                     input_file_id, decoder_input_start, extra_round, decoder_output_start,
                     last_window_leftover, cut_flag, position_precision, decoder_result,
                     decoder_read, text, v, str_buf_overflow, printed, incomplete>>
  BY DEF OpenWindow, ss_vars, param_vars, call_vars, collection_vars, returned_vars
<1>2. /\ TypeOK /\ decoder_input_start \in Nat /\ slice_len \in Nat /\ decoder_read \in Nat
      /\ LineLen \in Nat
  BY ConstantTypes DEF IInv, TypeOK
<1>3. TypeOK'
  <2>1. is_last_window' \in BOOLEAN
    BY <1>1 DEF IInv, TypeOK
  <2>2. step' \in {"idle", "window", "decode", "decoded", "split", "panicked"}
    BY <1>1
  <2> QED  BY <1>1, <1>2, <2>1, <2>2 DEF TypeOK
<1>4. DecoderInv' /\ WindowInv' /\ LeftoverInv'
  BY <1>1, <1>2 DEF IInv, DecoderInv, WindowInv, LeftoverInv, Running, InWindow, NoBytes
<1>5. SplitInv'
  BY <1>1, IteratorKept DEF IInv, SplitInv
<1>6. LineInv' /\ RoomInv' /\ CollectionInv'
  BY <1>1 DEF IInv, LineInv, RoomInv, CollectionInv, LeftoverMax, NoGrep
<1>7. OverflowInv'
  BY <1>1 DEF IInv, OverflowInv, RoomEnough, LeftoverMax, NoGrep, Running, NoBytes
<1> QED  BY <1>3, <1>4, <1>5, <1>6, <1>7 DEF IInv

LEMMA EndSliceKeeps ==
  ASSUME IInv, EndSlice
  PROVE  IInv'
<1>1. /\ step = "window" /\ step' = "idle"
      /\ decoder_input_start >= slice_len
      /\ last_scan_run_leftover' = last_window_leftover
      /\ last_run_str_was_printed_and_is_maybe_cut_str' = cut_flag
      /\ consumed_bytes' = consumed_bytes + decoder_input_start
      /\ printed' = printed \o v /\ v' = <<>>
      /\ incomplete' = (incomplete \/ str_buf_overflow)
      /\ UNCHANGED <<split_vars, decoder, output_buf_len, filter_grep_char, slice_len,
                     is_last_input_buffer, input_file_id, decoder_input_start,
                     decoder_input_end, is_last_window, extra_round, decoder_output_start,
                     last_window_leftover, cut_flag, position_precision, decoder_result,
                     decoder_read, text, str_buf_overflow>>
  BY DEF EndSlice, param_vars, window_vars, call_vars
<1>2. /\ TypeOK /\ decoder_input_start = slice_len /\ slice_len \in Nat
      /\ consumed_bytes \in Nat /\ consumed_bytes + slice_len <= MaxBytes /\ MaxBytes \in Nat
  BY <1>1, ConstantTypes DEF IInv, TypeOK, WindowInv
<1>3. TypeOK'
  <2>1. consumed_bytes' \in 0 .. MaxBytes
    BY <1>1, <1>2
  <2>2. printed' \in Seq(FindingType) /\ v' \in Seq(FindingType)
    BY <1>1, <1>2 DEF TypeOK
  <2>3. incomplete' \in BOOLEAN
    BY <1>1, <1>2 DEF TypeOK
  <2> QED  BY <1>1, <1>2, <2>1, <2>2, <2>3 DEF TypeOK
<1>4. DecoderInv' /\ WindowInv' /\ LeftoverInv'
  BY <1>1, <1>2 DEF IInv, DecoderInv, WindowInv, LeftoverInv, Running, InWindow, NoBytes
<1>5. SplitInv'
  BY <1>1, IteratorKept DEF IInv, SplitInv
<1>6. LineInv' /\ RoomInv' /\ CollectionInv'
  BY <1>1 DEF IInv, LineInv, RoomInv, CollectionInv, LeftoverMax, NoGrep
<1>7. OverflowInv'
  BY <1>1 DEF IInv, OverflowInv, RoomEnough, LeftoverMax, NoGrep, Running, NoBytes
<1> QED  BY <1>3, <1>4, <1>5, <1>6, <1>7 DEF IInv

\* What is left alone by the decoder.
LEMMA DecodingFrame ==
  ASSUME IInv, Decoding
  PROVE  /\ step = "decode"
         /\ UNCHANGED <<split_vars, last_scan_run_leftover,
                        last_run_str_was_printed_and_is_maybe_cut_str, consumed_bytes,
                        output_buf_len, filter_grep_char, slice_len, is_last_input_buffer,
                        input_file_id, decoder_input_start, decoder_input_end,
                        is_last_window, extra_round, last_window_leftover, cut_flag,
                        position_precision, v, str_buf_overflow, printed, incomplete>>
         /\ decoder_input_start \in Nat /\ decoder_read \in Nat /\ slice_len \in Nat
         /\ decoder_input_start <= decoder_read /\ decoder_read <= decoder_input_end
         /\ decoder_input_end \in Nat /\ decoder_input_end <= slice_len
         /\ slice_len <= MaxSlice /\ MaxSlice \in Nat
         /\ output_buf_len \in Nat /\ decoder_output_start \in Nat
         /\ decoder_output_start <= output_buf_len
<1>1. step = "decode"
  BY DEF Decoding
<1>2. UNCHANGED <<split_vars, last_scan_run_leftover,
                  last_run_str_was_printed_and_is_maybe_cut_str, consumed_bytes,
                  output_buf_len, filter_grep_char, slice_len, is_last_input_buffer,
                  input_file_id, decoder_input_start, decoder_input_end,
                  is_last_window, extra_round, last_window_leftover, cut_flag,
                  position_precision, v, str_buf_overflow, printed, incomplete>>
  BY DEF Decoding, param_vars, window_vars, collection_vars, returned_vars
<1>3. TypeOK /\ WindowInv
  BY DEF IInv
<1>4. /\ decoder_input_start \in Nat /\ decoder_read \in Nat /\ slice_len \in Nat
      /\ slice_len <= MaxSlice /\ MaxSlice \in Nat
      /\ output_buf_len \in Nat /\ decoder_output_start \in Nat
      /\ decoder_output_start <= output_buf_len
  BY <1>3, ConstantTypes DEF TypeOK
<1> QED  BY <1>1, <1>2, <1>3, <1>4 DEF WindowInv, Running, InWindow

\* A character of one byte or more is decoded.
LEMMA WriteKeeps ==
  ASSUME IInv, Decoding, NEW char \in Char, Write(char),
         NEW bytes \in Nat, bytes >= 1, decoder_read + bytes <= decoder_input_end,
         decoder_read' = decoder_read + bytes, decoder' = NoBytes,
         RoomEnough => decoder_output_start + CharLen(char.lead)
                          <= 4 * LeftoverMax + 3 * (decoder_read + bytes) + 1
  PROVE  IInv'
<1> DEFINE len == CharLen(char.lead)
<1>1. /\ len <= output_buf_len - decoder_output_start
      /\ decoder_output_start' = decoder_output_start + len
      /\ text' = Append(text, char)
      /\ UNCHANGED <<decoder_result, step>>
  BY DEF Write, Free
<1>2. len \in Nat /\ len >= 1
  BY CharLenRange
<1> HIDE DEF len
<1>3. /\ TypeOK /\ step = "decode"
      /\ UNCHANGED <<split_vars, last_scan_run_leftover,
                     last_run_str_was_printed_and_is_maybe_cut_str, consumed_bytes,
                     output_buf_len, filter_grep_char, slice_len, is_last_input_buffer,
                     input_file_id, decoder_input_start, decoder_input_end,
                     is_last_window, extra_round, last_window_leftover, cut_flag,
                     position_precision, v, str_buf_overflow, printed, incomplete>>
  BY DecodingFrame DEF IInv
<1>4. /\ decoder_input_start \in Nat /\ decoder_read \in Nat /\ slice_len \in Nat
      /\ decoder_input_start <= decoder_read /\ decoder_read + bytes <= slice_len
      /\ output_buf_len \in Nat /\ decoder_output_start \in Nat
      /\ decoder_input_start < slice_len
  BY DecodingFrame
<1>5. text \in Text /\ text' \in Text /\ Utf8Len(text)' = Utf8Len(text) + len
      /\ Utf8Len(text) \in Nat
  <2>1. text \in Text
    BY <1>3 DEF TypeOK
  <2>2. text \in Seq(Char) /\ Utf8Len(text) \in Nat
    BY <2>1, TextTypes
  <2>3. text' \in Seq(Char)
    BY <1>1, <2>2
  <2>4. Utf8Len(Append(text, char)) = Utf8Len(text) + len
    BY <2>2, Utf8LenAppend DEF len
  <2> QED  BY <1>1, <2>1, <2>2, <2>3, <2>4 DEF Text, Char
<1>6. TypeOK'
  <2>1. NoBytes \in [lead : SP!LeadingBytes, at : Nat, left : Nat]
    BY DEF NoBytes, SP!LeadingBytes, SP!Ascii
  <2>2. decoder_read' \in 0 .. slice_len' /\ decoder_output_start' \in 0 .. output_buf_len'
    BY <1>1, <1>2, <1>3, <1>4
  <2> QED  BY <1>1, <1>3, <1>5, <2>1, <2>2 DEF TypeOK
<1>7. DecoderInv' /\ WindowInv' /\ LeftoverInv'
  BY <1>1, <1>3, <1>4 DEF IInv, DecoderInv, WindowInv, LeftoverInv, Running, InWindow, NoBytes
<1>8. SplitInv'
  BY <1>1, <1>3, IteratorKept DEF IInv, SplitInv
<1>9. LineInv' /\ CollectionInv'
  BY <1>1, <1>3 DEF IInv, LineInv, CollectionInv, LeftoverMax, NoGrep
<1>10. RoomInv'
  BY <1>1, <1>2, <1>3, <1>4, <1>5 DEF IInv, RoomInv
<1>11. OverflowInv'
  <2> SUFFICES ASSUME RoomEnough' PROVE OverflowInv!2'
    BY DEF OverflowInv
  <2>1. RoomEnough /\ LeftoverMax' = LeftoverMax
    BY <1>3 DEF RoomEnough, LeftoverMax, NoGrep
  <2>2. step' = "decode" /\ decoder_result' # "OutputFull"
    BY <1>1, <1>3, <2>1 DEF IInv, OverflowInv
  <2>3. Utf8Len(last_window_leftover)' + Utf8Len(text)' <= decoder_output_start'
    <3>1. Utf8Len(last_window_leftover) + Utf8Len(text) <= decoder_output_start
      BY <1>3, <2>1 DEF IInv, OverflowInv
    <3>2. Utf8Len(last_window_leftover) \in Nat
      BY <1>3, TextTypes DEF TypeOK
    <3>3. Utf8Len(last_window_leftover)' = Utf8Len(last_window_leftover)
      BY <1>3
    <3> HIDE DEF Utf8Len
    <3> QED  BY <1>1, <1>2, <1>4, <1>5, <3>1, <3>2, <3>3
  <2>4. decoder_output_start' <= 4 * LeftoverMax' + 3 * decoder_read' + 1
    BY <1>1, <2>1 DEF len
  <2>5. decoder' = NoBytes'
    BY DEF NoBytes
  <2> QED  BY <2>2, <2>3, <2>4, <2>5 DEF Running
<1> QED  BY <1>6, <1>7, <1>8, <1>9, <1>10, <1>11 DEF IInv

LEMMA RoomGrows ==
  \A room, m, a, b \in Nat : room <= 4 * m + 3 * a + 1 /\ a <= b => room <= 4 * m + 3 * b + 1
OBVIOUS

\* A call of the decoder ends.
LEMMA EndCallKeeps ==
  ASSUME IInv, Decoding,
         NEW result \in {"InputEmpty", "OutputFull", "Malformed"}, EndCall(result),
         decoder_read' \in Nat, decoder_read <= decoder_read',
         decoder_read' <= decoder_input_end,
         result = "OutputFull" => decoder_read' < decoder_input_end /\ ~RoomEnough,
         decoder' \in [lead : SP!LeadingBytes, at : Nat, left : Nat],
         decoder' # NoBytes =>
            /\ decoder'.left >= 1
            /\ RoomEnough => decoder_output_start + CharLen(decoder'.lead)
                  <= 4 * LeftoverMax + 3 * (decoder_read' + decoder'.left) + 1
  PROVE  IInv'
<1>1. /\ decoder_result' = result /\ step' = "decoded"
      /\ UNCHANGED <<decoder_output_start, text>>
  BY DEF EndCall
<1>2. /\ TypeOK /\ step = "decode"
      /\ UNCHANGED <<split_vars, last_scan_run_leftover,
                     last_run_str_was_printed_and_is_maybe_cut_str, consumed_bytes,
                     output_buf_len, filter_grep_char, slice_len, is_last_input_buffer,
                     input_file_id, decoder_input_start, decoder_input_end,
                     is_last_window, extra_round, last_window_leftover, cut_flag,
                     position_precision, v, str_buf_overflow, printed, incomplete>>
  BY DecodingFrame DEF IInv
<1>3. /\ decoder_input_start \in Nat /\ decoder_read \in Nat /\ slice_len \in Nat
      /\ decoder_input_start <= decoder_read /\ decoder_input_end \in Nat
      /\ decoder_input_end <= slice_len /\ decoder_output_start \in Nat
  BY DecodingFrame
<1>4. TypeOK'
  <2>1. decoder_read' \in 0 .. slice_len'
    BY <1>2, <1>3
  <2> QED  BY <1>1, <1>2, <2>1 DEF TypeOK
<1>5. DecoderInv' /\ WindowInv' /\ LeftoverInv'
  <2>1. NoBytes' = NoBytes
    BY DEF NoBytes
  <2>2. DecoderInv'
    BY <2>1 DEF DecoderInv
  <2>3. WindowInv'
    BY <1>1, <1>2, <1>3 DEF IInv, WindowInv, Running, InWindow
  <2>4. LeftoverInv'
    BY <1>1, <1>2 DEF IInv, LeftoverInv, InWindow
  <2> QED  BY <2>2, <2>3, <2>4
<1>6. SplitInv'
  BY <1>1, <1>2, IteratorKept DEF IInv, SplitInv
<1>7. LineInv' /\ CollectionInv' /\ RoomInv'
  BY <1>1, <1>2 DEF IInv, LineInv, CollectionInv, RoomInv, LeftoverMax, NoGrep
<1>8. OverflowInv'
  <2> SUFFICES ASSUME RoomEnough' PROVE OverflowInv!2'
    BY DEF OverflowInv
  <2>1. RoomEnough /\ LeftoverMax' = LeftoverMax /\ LeftoverMax \in Nat
    BY <1>2, ConstantTypes DEF RoomEnough, LeftoverMax, NoGrep
  <2>2. step' = "decoded" /\ decoder_result' # "OutputFull"
    BY <1>1, <2>1
  <2>3. Utf8Len(last_window_leftover)' + Utf8Len(text)' <= decoder_output_start'
    BY <1>1, <1>2, <2>1 DEF IInv, OverflowInv
  <2>4. decoder_output_start' <= 4 * LeftoverMax' + 3 * decoder_read' + 1
    <3>1. decoder_output_start <= 4 * LeftoverMax + 3 * decoder_read + 1
      BY <1>2, <2>1 DEF IInv, OverflowInv, Running
    <3> QED  BY <1>1, <1>3, <2>1, <3>1, RoomGrows
  <2>5. decoder' # NoBytes' =>
           decoder_output_start' + CharLen(decoder.lead)'
              <= 4 * LeftoverMax' + 3 * (decoder_read' + decoder.left') + 1
    BY <1>1, <2>1 DEF NoBytes
  <2> QED  BY <2>2, <2>3, <2>4, <2>5 DEF Running
<1> QED  BY <1>4, <1>5, <1>6, <1>7, <1>8 DEF IInv

LEMMA DecodeCharKeeps ==
  ASSUME IInv, DecodeChar
  PROVE  IInv'
<1>1. Decoding /\ decoder = NoBytes /\ decoder' = decoder
  BY DEF DecodeChar
<1>2. PICK c \in Chars :
         /\ c.width <= Available
         /\ Write([lead |-> c.lead, at |-> StreamPos, end |-> StreamPos + c.width])
         /\ decoder_read' = decoder_read + c.width
  BY DEF DecodeChar
<1> DEFINE char == [lead |-> c.lead, at |-> StreamPos, end |-> StreamPos + c.width]
<1>3. /\ decoder_read \in Nat /\ decoder_input_end \in Nat /\ consumed_bytes \in Nat
      /\ decoder_output_start \in Nat
      /\ decoder_output_start \in Nat
  BY <1>1, DecodingFrame DEF IInv, TypeOK
<1>4. c.lead \in SP!LeadingBytes /\ c.width \in Nat /\ c.width >= 1
      /\ CharLen(c.lead) <= 3 * c.width
  BY ConstantTypes
<1>5. char \in Char /\ char.lead = c.lead
  BY <1>3, <1>4 DEF Char, StreamPos
<1>6. decoder_read + c.width <= decoder_input_end
  BY <1>2, <1>3, <1>4 DEF Available
<1>7. ASSUME RoomEnough
      PROVE  decoder_output_start + CharLen(c.lead)
                <= 4 * LeftoverMax + 3 * (decoder_read + c.width) + 1
  <2>1. decoder_output_start <= 4 * LeftoverMax + 3 * decoder_read + 1
    BY <1>1, <1>7, DecodingFrame DEF IInv, OverflowInv, Running
  <2>2. CharLen(c.lead) \in Nat /\ LeftoverMax \in Nat
    BY CharLenRange, ConstantTypes
  <2> HIDE DEF char
  <2> QED  BY <1>3, <1>4, <2>1, <2>2
<1> HIDE DEF char
<1> QED  BY <1>1, <1>2, <1>4, <1>5, <1>6, <1>7, WriteKeeps DEF char

LEMMA CompleteCharKeeps ==
  ASSUME IInv, CompleteChar
  PROVE  IInv'
<1> DEFINE char == [lead |-> decoder.lead, at |-> decoder.at, end |-> StreamPos + decoder.left]
<1>1. /\ Decoding /\ decoder' = NoBytes /\ decoder.left \in 1 .. Available
      /\ Write(char) /\ decoder_read' = decoder_read + decoder.left
  BY DEF CompleteChar
<1>2. /\ decoder_read \in Nat /\ decoder_input_end \in Nat /\ consumed_bytes \in Nat
      /\ decoder_output_start \in Nat
      /\ decoder.lead \in SP!LeadingBytes /\ decoder.at \in Nat /\ decoder.left \in Nat
  BY <1>1, DecodingFrame DEF IInv, TypeOK
<1>3. char \in Char /\ char.lead = decoder.lead
  BY <1>2 DEF Char, StreamPos
<1>4. decoder.left >= 1 /\ decoder_read + decoder.left <= decoder_input_end
  BY <1>1, <1>2 DEF Available
<1>5. decoder # NoBytes
  BY <1>4 DEF NoBytes
<1>6. RoomEnough => decoder_output_start + CharLen(decoder.lead)
                       <= 4 * LeftoverMax + 3 * (decoder_read + decoder.left) + 1
  BY <1>1, <1>5, DecodingFrame DEF IInv, OverflowInv, Running
<1> HIDE DEF char
<1> QED  BY <1>1, <1>2, <1>3, <1>4, <1>6, WriteKeeps

LEMMA StartCharKeeps ==
  ASSUME IInv, StartChar
  PROVE  IInv'
<1>1. /\ Decoding /\ decoder = NoBytes /\ Available > 0
      /\ decoder_read' = decoder_input_end /\ EndCall("InputEmpty")
  BY DEF StartChar
<1>2. PICK c \in Chars :
         /\ c.width > Available
         /\ decoder' = [lead |-> c.lead, at |-> StreamPos, left |-> c.width - Available]
  BY DEF StartChar
<1>3. /\ decoder_read \in Nat /\ decoder_input_end \in Nat /\ consumed_bytes \in Nat
      /\ decoder_output_start \in Nat /\ decoder_read <= decoder_input_end
  BY <1>1, DecodingFrame DEF IInv, TypeOK
<1>4. c.lead \in SP!LeadingBytes /\ c.width \in Nat /\ CharLen(c.lead) <= 3 * c.width
  BY ConstantTypes
<1> DEFINE left == c.width - Available
<1>5. left \in Nat /\ left >= 1 /\ decoder_input_end + left = decoder_read + c.width
  BY <1>1, <1>2, <1>3, <1>4 DEF Available
<1> HIDE DEF left
<1>6. decoder' = [lead |-> c.lead, at |-> StreamPos, left |-> left]
  BY <1>2 DEF left
<1>7. decoder' \in [lead : SP!LeadingBytes, at : Nat, left : Nat]
      /\ decoder'.left = left /\ decoder'.lead = c.lead
  BY <1>3, <1>4, <1>5, <1>6 DEF StreamPos
<1>8. ASSUME RoomEnough
      PROVE  decoder_output_start + CharLen(c.lead)
                <= 4 * LeftoverMax + 3 * (decoder_input_end + left) + 1
  <2>1. decoder_output_start <= 4 * LeftoverMax + 3 * decoder_read + 1
    BY <1>1, <1>8, DecodingFrame DEF IInv, OverflowInv, Running
  <2>2. CharLen(c.lead) \in Nat /\ LeftoverMax \in Nat
    BY CharLenRange, ConstantTypes
  <2>3. decoder_output_start + CharLen(c.lead)
           <= 4 * LeftoverMax + 3 * (decoder_read + c.width) + 1
    BY <1>3, <1>4, <2>1, <2>2
  <2> QED  BY <1>5, <2>3
<1> QED  BY <1>1, <1>3, <1>5, <1>7, <1>8, EndCallKeeps

LEMMA ContinueCharKeeps ==
  ASSUME IInv, ContinueChar
  PROVE  IInv'
<1>1. /\ Decoding /\ Available > 0 /\ decoder.left > Available
      /\ decoder' = [decoder EXCEPT !.left = @ - Available]
      /\ decoder_read' = decoder_input_end /\ EndCall("InputEmpty")
  BY DEF ContinueChar
<1>2. /\ decoder_read \in Nat /\ decoder_input_end \in Nat
      /\ decoder_output_start \in Nat /\ decoder_read <= decoder_input_end
      /\ decoder \in [lead : SP!LeadingBytes, at : Nat, left : Nat]
  BY <1>1, DecodingFrame DEF IInv, TypeOK
<1>3. decoder.left \in Nat
  BY <1>2
<1> DEFINE left == decoder.left - Available
<1>4. left \in Nat /\ left >= 1 /\ decoder_input_end + left = decoder_read + decoder.left
  BY <1>1, <1>2, <1>3 DEF Available
<1>5. decoder' = [decoder EXCEPT !.left = left]
  BY <1>1
<1> HIDE DEF left
<1>6. decoder' \in [lead : SP!LeadingBytes, at : Nat, left : Nat]
      /\ decoder'.left = left /\ decoder'.lead = decoder.lead
  BY <1>2, <1>4, <1>5
<1>7. decoder # NoBytes
  BY <1>1, <1>2, <1>3 DEF NoBytes, Available
<1>8. RoomEnough => decoder_output_start + CharLen(decoder.lead)
                       <= 4 * LeftoverMax + 3 * (decoder_read + decoder.left) + 1
  BY <1>1, <1>7, DecodingFrame DEF IInv, OverflowInv, Running
<1> QED  BY <1>1, <1>2, <1>4, <1>6, <1>8, EndCallKeeps

LEMMA InputEmptyKeeps ==
  ASSUME IInv, InputEmpty
  PROVE  IInv'
<1>1. Decoding /\ EndCall("InputEmpty") /\ decoder' = decoder /\ decoder_read' = decoder_read
  BY DEF InputEmpty
<1>2. /\ decoder_read \in Nat /\ decoder_read <= decoder_input_end /\ step = "decode"
      /\ decoder \in [lead : SP!LeadingBytes, at : Nat, left : Nat]
      /\ decoder # NoBytes => decoder.left >= 1
  BY <1>1, DecodingFrame DEF IInv, TypeOK, DecoderInv
<1>3. decoder # NoBytes /\ RoomEnough =>
         decoder_output_start + CharLen(decoder.lead)
            <= 4 * LeftoverMax + 3 * (decoder_read + decoder.left) + 1
  BY <1>2 DEF IInv, OverflowInv, Running
<1> QED  BY <1>1, <1>2, <1>3, EndCallKeeps

LEMMA MalformedKeeps ==
  ASSUME IInv, Malformed
  PROVE  IInv'
<1>1. /\ Decoding /\ EndCall("Malformed") /\ decoder' = NoBytes
      /\ \/ decoder_read' = decoder_read + 1 /\ Available > 0
         \/ decoder_read' = decoder_read
  BY DEF Malformed
<1>2. decoder_read \in Nat /\ decoder_read <= decoder_input_end /\ decoder_input_end \in Nat
  BY <1>1, DecodingFrame
<1>3. decoder_read' \in Nat /\ decoder_read <= decoder_read' /\ decoder_read' <= decoder_input_end
  BY <1>1, <1>2 DEF Available
<1>4. NoBytes \in [lead : SP!LeadingBytes, at : Nat, left : Nat]
  BY DEF NoBytes, SP!LeadingBytes, SP!Ascii
<1> QED  BY <1>1, <1>3, <1>4, EndCallKeeps

\* There is room for one more character as long as a byte is left to be read.
LEMMA OutputFullKeeps ==
  ASSUME IInv, OutputFull
  PROVE  IInv'
<1>1. /\ Decoding /\ EndCall("OutputFull") /\ decoder' = decoder
      /\ decoder_read' = decoder_read /\ Available > 0 /\ Free < 4
  BY DEF OutputFull
<1>2. /\ decoder_read \in Nat /\ decoder_input_end \in Nat /\ decoder_input_end <= slice_len
      /\ slice_len \in Nat /\ slice_len <= MaxSlice /\ MaxSlice \in Nat
      /\ decoder_output_start \in Nat /\ output_buf_len \in Nat /\ step = "decode"
  BY <1>1, DecodingFrame
<1>3. decoder_read < decoder_input_end
  BY <1>1, <1>2 DEF Available
<1>4. ASSUME RoomEnough PROVE FALSE
  <2>1. decoder_output_start <= 4 * LeftoverMax + 3 * decoder_read + 1
    BY <1>2, <1>4 DEF IInv, OverflowInv, Running
  <2>2. output_buf_len >= 4 * LeftoverMax + 3 * MaxSlice + 2
    BY <1>4 DEF RoomEnough
  <2>3. decoder_output_start + 4 > output_buf_len
    BY <1>1, <1>2 DEF Free
  <2>4. LeftoverMax \in Nat /\ decoder_read + 1 <= MaxSlice
    BY <1>2, <1>3, ConstantTypes
  <2> QED  BY <1>2, <2>1, <2>2, <2>3, <2>4
<1>5. /\ decoder \in [lead : SP!LeadingBytes, at : Nat, left : Nat]
      /\ decoder # NoBytes => decoder.left >= 1
  BY DEF IInv, TypeOK, DecoderInv
<1> QED  BY <1>1, <1>2, <1>3, <1>4, <1>5, EndCallKeeps

\* The iterator gets the leftover and what was decoded.
LEMMA StartSplitKeeps ==
  ASSUME IInv, StartSplit
  PROVE  IInv'
<1> DEFINE whole == last_window_leftover \o text
<1>1. /\ step = "decoded"
      /\ UNCHANGED <<decoder, last_scan_run_leftover,
                     last_run_str_was_printed_and_is_maybe_cut_str, consumed_bytes,
                     output_buf_len, filter_grep_char, slice_len, is_last_input_buffer,
                     input_file_id, decoder_input_start, decoder_input_end,
                     is_last_window, extra_round, decoder_output_start, decoder_result,
                     decoder_read, v, str_buf_overflow, printed, incomplete>>
  BY DEF StartSplit, ss_vars, param_vars, window_vars, call_vars, collection_vars,
         returned_vars
<1>2. TypeOK /\ last_window_leftover \in Text /\ text \in Text
  BY DEF IInv, TypeOK
<1>3. /\ Utf8Len(text) \in Nat /\ Utf8Len(last_window_leftover) \in Nat
      /\ decoder_output_start \in Nat /\ output_buf_len \in Nat
  BY <1>2, TextTypes, ConstantTypes DEF TypeOK
<1>4. DecoderInv'
  BY <1>1 DEF IInv, DecoderInv, NoBytes
<1>5. CASE SplitStartUnderflows
  <2>1. /\ step' = "panicked"
        /\ UNCHANGED <<split_vars, text, last_window_leftover, cut_flag,
                       position_precision>>
    BY <1>5 DEF StartSplit
  <2>2. TypeOK'
    BY <1>1, <1>2, <2>1 DEF TypeOK
  <2>3. WindowInv' /\ LeftoverInv'
    BY <1>1, <2>1 DEF IInv, WindowInv, LeftoverInv, Running, InWindow
  <2>4. SplitInv'
    BY <2>1, IteratorKept DEF IInv, SplitInv
  <2>5. LineInv' /\ RoomInv' /\ CollectionInv'
    BY <1>1, <2>1 DEF IInv, LineInv, RoomInv, CollectionInv, LeftoverMax, NoGrep
  <2>6. OverflowInv'
    <3>1. ASSUME RoomEnough PROVE FALSE
      <4>1. Utf8Len(last_window_leftover) + Utf8Len(text) <= decoder_output_start
        BY <1>1, <3>1 DEF IInv, OverflowInv
      <4> QED  BY <1>3, <1>5, <4>1 DEF SplitStartUnderflows
    <3> QED  BY <1>1, <3>1 DEF OverflowInv, RoomEnough, LeftoverMax, NoGrep
  <2> QED  BY <1>4, <2>2, <2>3, <2>4, <2>5, <2>6 DEF IInv
<1>6. CASE ~SplitStartUnderflows
  <2>1. /\ step' = "split"
        /\ SP!New(Leads(whole), CharsMin, SameBlock, cut_flag, InvalidBytesAfter,
                  filter_grep_char)
        /\ text' = whole /\ last_window_leftover' = <<>> /\ cut_flag' = FALSE
        /\ position_precision' \in {"Before", "Exact"}
    BY <1>6 DEF StartSplit, Precision
  <2>2. whole \in Text /\ Utf8Len(whole) = Utf8Len(last_window_leftover) + Utf8Len(text)
    BY <1>2, TextConcat
  <2>3. Utf8Len(whole) <= decoder_output_start
    BY <1>3, <1>6, <2>2 DEF SplitStartUnderflows
  <2> HIDE DEF whole
  <2>4. TypeOK'
    BY <1>1, <1>2, <2>1, <2>2, EmptyText DEF TypeOK
  <2>5. WindowInv' /\ LeftoverInv'
    <3>1. WindowInv'
      BY <1>1, <2>1 DEF IInv, WindowInv, Running, InWindow
    <3>2. InWindow /\ decoder_input_start = slice_len => whole = <<>>
      BY <1>1, <1>2 DEF IInv, LeftoverInv, InWindow, whole
    <3> QED  BY <1>1, <2>1, <3>1, <3>2 DEF IInv, LeftoverInv, InWindow
  <2>6. SplitInv'
    <3>1. Iter!IteratorInv'
      <4>1. cut_flag \in BOOLEAN /\ filter_grep_char \in GrepChars
        BY <1>2 DEF TypeOK
      <4>2. InvalidBytesAfter \in BOOLEAN
        BY <1>2 DEF InvalidBytesAfter, TypeOK
      <4>3. Leads(whole) \in Seq(SP!LeadingBytes)
        BY <2>2, TextTypes
      <4> QED  BY <2>1, <4>1, <4>2, <4>3, IteratorMade
    <3>2. /\ inp' = Leads(whole) /\ chars_min_nb' = CharsMin /\ pc' = "loop"
          /\ grep_char' = filter_grep_char /\ invalid_bytes_after_inp' = InvalidBytesAfter
      BY <2>1 DEF SP!New
    <3>3. Leads(text)' = Leads(whole) /\ InvalidBytesAfter' = InvalidBytesAfter
      BY <1>1, <2>1 DEF InvalidBytesAfter
    <3> QED  BY <1>1, <3>1, <3>2, <3>3 DEF SplitInv
  <2>7. LineInv' /\ RoomInv'
    <3>1. Utf8Len(text)' = Utf8Len(whole) /\ Utf8Len(last_window_leftover)' = 0
          /\ Utf8Len(last_scan_run_leftover)' = Utf8Len(last_scan_run_leftover)
          /\ Len(last_window_leftover)' = 0
      BY <1>1, <2>1, EmptyText
    <3> QED  BY <1>1, <1>3, <2>3, <3>1, ConstantTypes
             DEF IInv, LineInv, RoomInv, LeftoverMax, NoGrep
  <2>8. CollectionInv'
    BY <1>1, <2>1 DEF IInv, CollectionInv
  <2>9. OverflowInv'
    BY <1>1, <2>1 DEF IInv, OverflowInv, RoomEnough, LeftoverMax, NoGrep, Running, NoBytes
  <2> QED  BY <1>4, <2>4, <2>5, <2>6, <2>7, <2>8, <2>9 DEF IInv
<1> QED  BY <1>5, <1>6

\* A step of next() leaves the rest of from() as it is.
LEMMA SplitKeeps ==
  ASSUME IInv, Split
  PROVE  IInv'
<1>1. /\ step = "split" /\ SP!NextStep
      /\ UNCHANGED <<decoder, last_scan_run_leftover,
                     last_run_str_was_printed_and_is_maybe_cut_str, consumed_bytes,
                     output_buf_len, filter_grep_char, slice_len, is_last_input_buffer,
                     input_file_id, step, decoder_input_start, decoder_input_end,
                     is_last_window, extra_round, decoder_output_start,
                     last_window_leftover, cut_flag, position_precision, decoder_result,
                     decoder_read, text, v, str_buf_overflow, printed, incomplete>>
  BY DEF Split, ss_vars, param_vars, window_vars, call_vars, collection_vars,
         returned_vars
<1>2. TypeOK'
  BY <1>1 DEF IInv, TypeOK
<1>3. DecoderInv' /\ WindowInv'
  BY <1>1 DEF IInv, DecoderInv, WindowInv, Running, InWindow, NoBytes
<1>4. LeftoverInv'
  BY <1>1 DEF IInv, LeftoverInv, InWindow, InvalidBytesAfter
<1>5. SplitInv'
  <2>1. UNCHANGED <<inp, chars_min_nb, grep_char, invalid_bytes_after_inp>> /\ pc' # "none"
    BY <1>1 DEF SP!NextStep, SP!Accept, SP!Restart, SP!Break, SP!Exhaust, SP!Return,
                SP!given_vars, SP!iterator_vars, SP!InLoop, IInv, SplitInv
  <2> QED  BY <1>1, <2>1, IteratorKept DEF IInv, SplitInv, InvalidBytesAfter
<1>6. LineInv' /\ RoomInv' /\ CollectionInv'
  BY <1>1 DEF IInv, LineInv, RoomInv, CollectionInv, LeftoverMax, NoGrep
<1>7. OverflowInv'
  BY <1>1 DEF IInv, OverflowInv, RoomEnough, LeftoverMax, NoGrep, Running, NoBytes
<1> QED  BY <1>2, <1>3, <1>4, <1>5, <1>6, <1>7 DEF IInv

\* The leftover that a chunk becomes.
LEMMA NewLeftover ==
  ASSUME TypeOK, SplitInv, step = "split", pc = "returned",
         Chunk.s_is_to_be_filtered_again
  PROVE  LET kept == SubSeq(text, Len(text) + 1 - Chunk.nb, Len(text))
         IN  /\ kept \in Text /\ Len(kept) = Chunk.nb /\ kept # <<>>
             /\ kept = SubSeq(text, Chunk.from, Len(text))
             /\ Utf8Len(kept) <= Utf8Len(text)
<1>1. /\ Len(text) \in Nat /\ Chunk.from \in Nat /\ Chunk.from >= 1
      /\ Chunk.nb \in Nat /\ Chunk.nb >= 1 /\ Chunk.from + Chunk.nb = Len(text) + 1
  BY ChunkFacts
<1>2. Len(text) + 1 - Chunk.nb = Chunk.from /\ Chunk.from \in 1 .. Len(text) + 1
  BY <1>1
<1> DEFINE kept == SubSeq(text, Chunk.from, Len(text))
<1>3. text \in Seq(Char)
  BY TextTypes DEF TypeOK
<1>4. kept \in Seq(Char) /\ Len(kept) = Chunk.nb
  BY <1>1, <1>2, <1>3
<1>5. kept # <<>>
  BY <1>1, <1>4
<1>6. Utf8Len(kept) <= Utf8Len(text)
  BY <1>2, <1>3, Utf8LenSuffix
<1> HIDE DEF kept
<1> QED  BY <1>2, <1>4, <1>5, <1>6 DEF kept, Text, Char

\* The finding that a chunk becomes.
LEMMA NewFindingFacts ==
  ASSUME TypeOK, SplitInv, step = "split", pc = "returned"
  PROVE  /\ NewFinding \in FindingType
         /\ NewFinding.position = consumed_bytes + decoder_input_start
         /\ NewFinding.s = SubSeq(text, Chunk.from, Chunk.from + Chunk.nb - 1)
         /\ Len(NewFinding.s) = Chunk.nb
         /\ \A k \in 1 .. Chunk.nb : NewFinding.s[k] = text[Chunk.from + k - 1]
         /\ NewFinding.s_completes_previous_s = Chunk.s_completes_previous_s
<1> DEFINE s == SubSeq(text, Chunk.from, Chunk.from + Chunk.nb - 1)
<1>1. /\ Len(text) \in Nat /\ Chunk.from \in Nat /\ Chunk.from >= 1
      /\ Chunk.nb \in Nat /\ Chunk.nb >= 1 /\ Chunk.from + Chunk.nb <= Len(text) + 1
      /\ Chunk.s_completes_previous_s \in BOOLEAN
  BY ChunkFacts
<1>2. text \in Seq(Char)
  BY TextTypes DEF TypeOK
<1>3. /\ s \in Seq(Char) /\ Len(s) = Chunk.nb
      /\ \A k \in 1 .. Chunk.nb : s[k] = text[Chunk.from + k - 1]
  <2>1. /\ Chunk.from + Chunk.nb - 1 \in Chunk.from .. Len(text)
        /\ Chunk.from \in 1 .. Len(text)
    BY <1>1
  <2>2. s \in Seq(Char)
    BY <1>2, <2>1
  <2>3. Len(s) = Chunk.nb
    BY <1>1, <2>1, <1>2
  <2>4. \A k \in 1 .. Chunk.nb : s[k] = text[Chunk.from + k - 1]
    BY <1>1, <1>2, <2>1
  <2> QED  BY <2>2, <2>3, <2>4
<1>4. s \in Text
  BY <1>3 DEF Text, Char
<1> HIDE DEF s
<1>5. NewFinding = [ input_file_id          |-> input_file_id,
                     position               |-> consumed_bytes + decoder_input_start,
                     position_precision     |-> position_precision,
                     s                      |-> s,
                     s_completes_previous_s |-> Chunk.s_completes_previous_s ]
  BY DEF NewFinding, s
<1>6. consumed_bytes + decoder_input_start \in Nat
  BY DEF TypeOK
<1>7. NewFinding \in FindingType
  BY <1>1, <1>4, <1>5, <1>6 DEF FindingType, TypeOK
<1> QED  BY <1>3, <1>5, <1>7 DEF s

LEMMA TakeChunkKeeps ==
  ASSUME IInv, TakeChunk
  PROVE  IInv'
<1> DEFINE kept == SubSeq(text, Len(text) + 1 - Chunk.nb, Len(text))
<1>1. /\ step = "split" /\ pc = "returned" /\ SP!CallNext
      /\ position_precision' = "After"
      /\ IF ~Chunk.s_is_to_be_filtered_again
         THEN /\ v' = Append(v, NewFinding)
              /\ last_window_leftover' = <<>>
              /\ cut_flag' = Chunk.s_is_maybe_cut
         ELSE /\ last_window_leftover' = kept
              /\ cut_flag' = FALSE
              /\ v' = v
      /\ UNCHANGED <<decoder, last_scan_run_leftover,
                     last_run_str_was_printed_and_is_maybe_cut_str, consumed_bytes,
                     output_buf_len, filter_grep_char, slice_len, is_last_input_buffer,
                     input_file_id, step, decoder_input_start, decoder_input_end,
                     is_last_window, extra_round, decoder_output_start, decoder_result,
                     decoder_read, text, str_buf_overflow, printed, incomplete>>
  BY DEF TakeChunk, ss_vars, param_vars, window_vars, call_vars, returned_vars
<1>2. TypeOK /\ SplitInv /\ text \in Text /\ Utf8Len(text) \in Nat
      /\ decoder_output_start \in Nat /\ output_buf_len \in Nat
      /\ decoder_output_start <= output_buf_len /\ Utf8Len(text) <= decoder_output_start
      /\ consumed_bytes \in Nat /\ decoder_input_start \in Nat /\ slice_len \in Nat
  BY TextTypes, ConstantTypes DEF IInv, TypeOK, RoomInv
<1>3. /\ Len(text) \in Nat /\ Chunk.from \in Nat /\ Chunk.from >= 1
      /\ Chunk.nb \in Nat /\ Chunk.nb >= 1
      /\ Chunk.from + Chunk.nb <= Len(text) + 1
      /\ Chunk.s_is_maybe_cut \in BOOLEAN
      /\ Chunk.s_is_to_be_filtered_again => ~InvalidBytesAfter /\ Chunk.nb <= LeftoverMax
  BY <1>1, <1>2, ChunkFacts
<1>4. Chunk.s_is_to_be_filtered_again =>
         /\ kept \in Text /\ Len(kept) = Chunk.nb /\ kept # <<>>
         /\ Utf8Len(kept) <= Utf8Len(text) /\ Utf8Len(kept) \in Nat
  BY <1>1, <1>2, NewLeftover, TextTypes
<1>5. NewFinding \in FindingType /\ NewFinding.position = consumed_bytes + decoder_input_start
  BY <1>1, <1>2, NewFindingFacts
<1>6. v \in Seq(FindingType)
  BY <1>2 DEF TypeOK
<1> HIDE DEF kept
<1>7. TypeOK'
  <2>1. v' \in Seq(FindingType)
    BY <1>1, <1>5, <1>6
  <2>2. last_window_leftover' \in Text /\ cut_flag' \in BOOLEAN
    BY <1>1, <1>3, <1>4, EmptyText
  <2> QED  BY <1>1, <1>2, <2>1, <2>2 DEF TypeOK
<1>8. DecoderInv' /\ WindowInv'
  BY <1>1 DEF IInv, DecoderInv, WindowInv, Running, InWindow, NoBytes
<1>9. decoder_input_start < slice_len
  <2>1. text # <<>>
    BY <1>3
  <2>2. decoder_input_start # slice_len /\ decoder_input_start <= slice_len
    BY <1>1, <1>2, <2>1 DEF IInv, LeftoverInv, InWindow, TypeOK
  <2> QED  BY <1>2, <2>2
<1>10. LeftoverInv'
  <2>1. last_window_leftover' # <<>> =>
           /\ ~InvalidBytesAfter
           /\ Len(last_window_leftover') <= Len(text)
           /\ last_window_leftover' =
                 SubSeq(text, Len(text) + 1 - Len(last_window_leftover'), Len(text))
    <3> SUFFICES ASSUME last_window_leftover' # <<>>
                 PROVE  /\ ~InvalidBytesAfter
                        /\ Len(last_window_leftover') <= Len(text)
                        /\ last_window_leftover' =
                              SubSeq(text, Len(text) + 1 - Len(last_window_leftover'), Len(text))
      OBVIOUS
    <3>1. Chunk.s_is_to_be_filtered_again /\ last_window_leftover' = kept
      BY <1>1
    <3>2. ~InvalidBytesAfter /\ Len(last_window_leftover') = Chunk.nb
      BY <1>3, <1>4, <3>1
    <3>3. Chunk.nb <= Len(text)
      BY <1>3
    <3> QED  BY <3>1, <3>2, <3>3 DEF kept
  <2>2. InvalidBytesAfter' = InvalidBytesAfter
    BY <1>1 DEF InvalidBytesAfter
  <2>3. step' = "split" /\ decoder_input_start' # slice_len' /\ text' = text
    BY <1>1, <1>2, <1>9
  <2> QED  BY <2>1, <2>2, <2>3 DEF LeftoverInv
<1>11. SplitInv'
  <2>1. UNCHANGED <<inp, chars_min_nb, grep_char, invalid_bytes_after_inp>> /\ pc' = "loop"
    BY <1>1 DEF SP!CallNext, SP!iterator_vars, SP!given_vars
  <2> QED  BY <1>1, <1>2, <2>1, IteratorKept DEF SplitInv, InvalidBytesAfter
<1>12. LineInv' /\ RoomInv'
  <2>1. Len(last_window_leftover') <= LeftoverMax /\ LeftoverMax' = LeftoverMax
    BY <1>1, <1>3, <1>4, EmptyText, ConstantTypes DEF LeftoverMax, NoGrep
  <2>2. Utf8Len(last_window_leftover') <= output_buf_len
    BY <1>1, <1>2, <1>4, EmptyText
  <2>3. Utf8Len(text)' = Utf8Len(text)
        /\ Utf8Len(last_scan_run_leftover)' = Utf8Len(last_scan_run_leftover)
    BY <1>1
  <2> QED  BY <1>1, <2>1, <2>2, <2>3 DEF IInv, LineInv, RoomInv
<1>13. CollectionInv'
  <2>1. CASE v' = v
    BY <1>1, <2>1 DEF IInv, CollectionInv
  <2>2. CASE v' = Append(v, NewFinding)
    <3> DEFINE n == Len(v)
    <3>1. n \in Nat /\ Len(v') = n + 1 /\ v'[n + 1] = NewFinding
          /\ \A i \in 1 .. n : v'[i] = v[i]
      BY <1>5, <1>6, <2>2
    <3>2. \A i \in 1 .. n : v[i] \in FindingType
      BY <1>6
    <3>3. \A i \in 1 .. n : /\ consumed_bytes <= v[i].position
                            /\ v[i].position <= consumed_bytes + decoder_input_start
                            /\ v[i].position < consumed_bytes + slice_len
      BY DEF IInv, CollectionInv
    <3>4. \A i \in 1 .. n - 1 : v[i].position <= v[i + 1].position
      BY DEF IInv, CollectionInv
    <3> DEFINE w == v'
    <3> HIDE DEF w, n
    <3>5. ASSUME NEW i \in 1 .. n + 1
          PROVE  /\ consumed_bytes <= w[i].position
                 /\ w[i].position <= consumed_bytes + decoder_input_start
                 /\ w[i].position < consumed_bytes + slice_len
      <4>1. CASE i = n + 1
        BY <1>2, <1>5, <1>9, <3>1, <4>1 DEF w
      <4>2. CASE i \in 1 .. n
        BY <3>1, <3>3, <4>2 DEF w
      <4> QED  BY <3>1, <4>1, <4>2
    <3>6. ASSUME NEW i \in 1 .. n PROVE w[i].position <= w[i + 1].position
      <4>1. CASE i = n
        BY <1>5, <3>1, <3>3, <4>1 DEF w
      <4>2. CASE i \in 1 .. n - 1
        <5>1. i + 1 \in 1 .. n
          BY <3>1, <4>2
        <5> QED  BY <3>1, <3>4, <4>2, <5>1 DEF w
      <4> QED  BY <3>1, <4>1, <4>2
    <3>7. Len(w) = n + 1 /\ (n + 1) - 1 = n
      BY <3>1 DEF w
    <3> QED  BY <1>1, <3>5, <3>6, <3>7 DEF CollectionInv, w
  <2> QED  BY <1>1, <2>1, <2>2
<1>14. OverflowInv'
  BY <1>1 DEF IInv, OverflowInv, RoomEnough, LeftoverMax, NoGrep, Running, NoBytes
<1> QED  BY <1>7, <1>8, <1>10, <1>11, <1>12, <1>13, <1>14 DEF IInv

LEMMA AfterChunksKeeps ==
  ASSUME IInv, AfterChunks
  PROVE  IInv'
<1>1. /\ step = "split" /\ pc = "exhausted"
      /\ decoder_input_start' = decoder_read /\ text' = <<>>
      /\ UNCHANGED <<split_vars, decoder, last_scan_run_leftover,
                     last_run_str_was_printed_and_is_maybe_cut_str, consumed_bytes,
                     output_buf_len, filter_grep_char, slice_len, is_last_input_buffer,
                     input_file_id, decoder_input_end, is_last_window,
                     last_window_leftover, cut_flag, position_precision, decoder_result,
                     decoder_read, printed, incomplete>>
  BY DEF AfterChunks, ss_vars, param_vars, call_vars, returned_vars
<1>2. TypeOK /\ decoder_result \in {"InputEmpty", "OutputFull", "Malformed"}
  BY DEF IInv, TypeOK
<1>3. \/ /\ decoder_result = "InputEmpty"
         /\ extra_round' = (extra_round \/ (is_last_window /\ is_last_input_buffer))
         /\ step' = IF extra_round' # extra_round THEN "decode" ELSE "window"
         /\ UNCHANGED <<v, str_buf_overflow, decoder_output_start>>
      \/ /\ decoder_result = "OutputFull" /\ v' = <<>> /\ str_buf_overflow' = TRUE
         /\ decoder_output_start' = 0 /\ step' = "decode" /\ extra_round' = extra_round
      \/ /\ decoder_result = "Malformed" /\ step' = "decode"
         /\ UNCHANGED <<v, str_buf_overflow, decoder_output_start, extra_round>>
  BY <1>2 DEF AfterChunks, collection_vars
<1>4. /\ consumed_bytes \in Nat /\ decoder_input_start \in Nat /\ slice_len \in Nat
      /\ decoder_read \in Nat /\ decoder_output_start \in Nat /\ output_buf_len \in Nat
      /\ decoder_output_start <= output_buf_len
      /\ Utf8Len(text) \in Nat /\ Utf8Len(last_window_leftover) \in Nat
      /\ decoder_input_start <= decoder_read
      /\ decoder_input_end \in decoder_read .. slice_len
  BY <1>1, <1>2, TextTypes, ConstantTypes DEF TypeOK, IInv, WindowInv, Running, InWindow
<1>5. step' \in {"decode", "window"} /\ extra_round' \in BOOLEAN
      /\ str_buf_overflow' \in BOOLEAN /\ v' \in {v, <<>>}
  BY <1>2, <1>3 DEF TypeOK
<1>6. decoder_output_start' \in {decoder_output_start, 0}
      /\ (decoder_output_start' # decoder_output_start => decoder_result = "OutputFull")
  BY <1>3
<1>7. TypeOK'
  <2>1. v' \in Seq(FindingType)
    <3>1. v \in Seq(FindingType) /\ <<>> \in Seq(FindingType)
      BY <1>2 DEF TypeOK
    <3> QED  BY <1>5, <3>1
  <2>2. /\ decoder_input_start' \in 0 .. slice_len'
        /\ decoder_output_start' \in 0 .. output_buf_len'
    BY <1>1, <1>2, <1>4, <1>6 DEF TypeOK
  <2>3. step' \in {"idle", "window", "decode", "decoded", "split", "panicked"}
    BY <1>5
  <2> QED  BY <1>1, <1>2, <1>5, <2>1, <2>2, <2>3, EmptyText DEF TypeOK
<1>8. DecoderInv'
  BY <1>1 DEF IInv, DecoderInv, NoBytes
<1>9. WindowInv'
  BY <1>1, <1>4, <1>5 DEF IInv, WindowInv, Running, InWindow
<1>10. SplitInv'
  BY <1>1, <1>5, IteratorKept DEF IInv, SplitInv
<1>11. LeftoverInv'
  <2>1. ASSUME step' = "decode", decoder_read = slice_len
        PROVE  last_window_leftover = <<>>
    <3>1. decoder_result # "OutputFull"
      BY <1>1, <1>4, <2>1 DEF IInv, WindowInv
    <3>2. InvalidBytesAfter
      BY <1>2, <1>3, <2>1, <3>1 DEF InvalidBytesAfter, TypeOK
    <3> QED  BY <1>1, <3>2 DEF IInv, LeftoverInv
  <2> QED  BY <1>1, <1>5, <2>1 DEF LeftoverInv, InWindow
<1>12. Utf8Len(last_window_leftover) <= Utf8Len(text)
  <2>1. CASE last_window_leftover = <<>>
    BY <1>4, <2>1, EmptyText
  <2>2. CASE last_window_leftover # <<>>
    <3> DEFINE m == Len(text) + 1 - Len(last_window_leftover)
    <3>1. /\ Len(last_window_leftover) <= Len(text)
          /\ last_window_leftover = SubSeq(text, m, Len(text))
      BY <1>1, <2>2 DEF IInv, LeftoverInv
    <3>2. text \in Seq(Char) /\ Len(text) \in Nat /\ Len(last_window_leftover) \in Nat
      BY <1>2, TextTypes DEF TypeOK
    <3>3. m \in 1 .. Len(text) + 1
      BY <3>1, <3>2
    <3> HIDE DEF m
    <3> QED  BY <3>1, <3>2, <3>3, Utf8LenSuffix
  <2> QED  BY <2>1, <2>2
<1>13. LineInv' /\ RoomInv'
  <2>1. /\ Utf8Len(text)' = 0
        /\ Utf8Len(last_window_leftover)' = Utf8Len(last_window_leftover)
        /\ Utf8Len(last_scan_run_leftover)' = Utf8Len(last_scan_run_leftover)
    BY <1>1, EmptyText
  <2>2. 0 <= decoder_output_start'
    BY <1>4, <1>6
  <2> QED  BY <1>1, <2>1, <2>2 DEF IInv, LineInv, RoomInv, LeftoverMax, NoGrep
<1>14. CollectionInv'
  <2>1. CASE v' = <<>>
    BY <1>1, <1>5, <2>1 DEF CollectionInv
  <2>2. CASE v' = v
    <3>1. \A i \in 1 .. Len(v) : v[i].position \in Nat
      <4>1. \A i \in 1 .. Len(v) : v[i] \in FindingType
        BY <1>2 DEF TypeOK
      <4> QED  BY <4>1 DEF FindingType
    <3>2. \A i \in 1 .. Len(v) : v[i].position <= consumed_bytes + decoder_read
      BY <1>4, <3>1 DEF IInv, CollectionInv
    <3> QED  BY <1>1, <1>5, <2>2, <3>2 DEF IInv, CollectionInv
  <2> QED  BY <1>5, <2>1, <2>2
<1>15. OverflowInv'
  <2> SUFFICES ASSUME RoomEnough' PROVE OverflowInv!2'
    BY DEF OverflowInv
  <2>1. RoomEnough /\ LeftoverMax' = LeftoverMax /\ NoBytes' = NoBytes
    BY <1>1 DEF RoomEnough, LeftoverMax, NoGrep, NoBytes
  <2>2. decoder_result # "OutputFull" /\ decoder_output_start' = decoder_output_start
    BY <1>6, <2>1 DEF IInv, OverflowInv
  <2>3. Utf8Len(last_window_leftover)' + Utf8Len(text)' <= decoder_output_start'
    <3>1. /\ Utf8Len(text)' = 0
          /\ Utf8Len(last_window_leftover)' = Utf8Len(last_window_leftover)
      BY <1>1, EmptyText
    <3>2. Utf8Len(text) <= decoder_output_start
      BY DEF IInv, RoomInv
    <3> QED  BY <1>4, <1>12, <2>2, <3>1, <3>2
  <2>4. /\ decoder_output_start <= 4 * LeftoverMax + 3 * decoder_read + 1
        /\ decoder # NoBytes =>
              decoder_output_start + CharLen(decoder.lead)
                 <= 4 * LeftoverMax + 3 * (decoder_read + decoder.left) + 1
    BY <1>1, <2>1 DEF IInv, OverflowInv, Running
  <2> QED  BY <1>1, <1>5, <2>1, <2>2, <2>3, <2>4
<1> QED  BY <1>7, <1>8, <1>9, <1>10, <1>11, <1>13, <1>14, <1>15 DEF IInv

LEMMA StutterKeeps ==
  ASSUME IInv, UNCHANGED vars
  PROVE  IInv'
<1>1. UNCHANGED <<split_vars, decoder, last_scan_run_leftover,
                  last_run_str_was_printed_and_is_maybe_cut_str, consumed_bytes,
                  output_buf_len, filter_grep_char, slice_len, is_last_input_buffer,
                  input_file_id, step, decoder_input_start, decoder_input_end,
                  is_last_window, extra_round, decoder_output_start,
                  last_window_leftover, cut_flag, position_precision, decoder_result,
                  decoder_read, text, v, str_buf_overflow, printed, incomplete>>
  BY DEF vars, ss_vars, param_vars, window_vars, call_vars, collection_vars,
         returned_vars
<1>2. UNCHANGED <<inp, chars_min_nb, grep_char, invalid_bytes_after_inp, pc>>
  BY <1>1 DEF split_vars
<1>3. TypeOK' /\ DecoderInv' /\ WindowInv'
  BY <1>1 DEF IInv, TypeOK, DecoderInv, WindowInv, Running, InWindow, NoBytes
<1>4. LeftoverInv'
  BY <1>1 DEF IInv, LeftoverInv, InWindow, InvalidBytesAfter
<1>5. SplitInv'
  BY <1>1, <1>2, IteratorKept DEF IInv, SplitInv, InvalidBytesAfter
<1>6. LineInv' /\ RoomInv' /\ CollectionInv'
  BY <1>1 DEF IInv, LineInv, RoomInv, CollectionInv, LeftoverMax, NoGrep
<1>7. OverflowInv'
  BY <1>1 DEF IInv, OverflowInv, RoomEnough, LeftoverMax, NoGrep, Running, NoBytes
<1> QED  BY <1>3, <1>4, <1>5, <1>6, <1>7 DEF IInv

LEMMA DecodeKeeps ==
  ASSUME IInv, Decode
  PROVE  IInv'
BY DecodeCharKeeps, CompleteCharKeeps, StartCharKeeps, ContinueCharKeeps,
   InputEmptyKeeps, MalformedKeeps, OutputFullKeeps DEF Decode

LEMMA NextKeepsIInv ==
  ASSUME IInv, [Next]_vars
  PROVE  IInv'
<1>1. CASE Begin
  BY <1>1, BeginKeeps
<1>2. CASE OpenWindow
  BY <1>2, OpenWindowKeeps
<1>3. CASE EndSlice
  BY <1>3, EndSliceKeeps
<1>4. CASE Decode
  BY <1>4, DecodeKeeps
<1>5. CASE StartSplit
  BY <1>5, StartSplitKeeps
<1>6. CASE Split
  BY <1>6, SplitKeeps
<1>7. CASE TakeChunk
  BY <1>7, TakeChunkKeeps
<1>8. CASE AfterChunks
  BY <1>8, AfterChunksKeeps
<1>9. CASE Stopped \/ UNCHANGED vars
  BY <1>9, StutterKeeps DEF Stopped
<1> QED  BY <1>1, <1>2, <1>3, <1>4, <1>5, <1>6, <1>7, <1>8, <1>9 DEF Next, ScanStep

LEMMA InductiveInvariant == Spec => []IInv
<1>1. Init => IInv
  BY InitIInv
<1>2. IInv /\ [Next]_vars => IInv'
  BY NextKeepsIInv
<1> QED  BY <1>1, <1>2, PTL DEF Spec

-----------------------------------------------------------------------------
(* What follows.                                                           *)

\* Every variable of from() and of ScannerState has its type: positions stay in
\* the slice, and the output buffer is not written past its end.
THEOREM ScannerTypes == Spec => []TypeOK
<1>1. IInv => TypeOK
  BY DEF IInv
<1> QED  BY <1>1, InductiveInvariant, PTL

\* With the room of RoomEnough, from() never meets OutputFull and never panics,
\* whatever the stream, the slices and the line length: the leftover is at most a
\* line, three bytes are written for a byte that is read, and one character more
\* is paid for by an earlier slice.
THEOREM BufferSuffices == Spec => []BufferNeverOverflows
<1>1. IInv => BufferNeverOverflows
  BY DEF IInv, OverflowInv, BufferNeverOverflows
<1> QED  BY <1>1, InductiveInvariant, PTL

\* A string is kept or marked as printed, not both.
KeptOrCutInv ==
    /\ last_window_leftover # <<>> => ~cut_flag
    /\ last_scan_run_leftover # <<>> => ~last_run_str_was_printed_and_is_maybe_cut_str

LEMMA NextKeepsKeptOrCut ==
  ASSUME KeptOrCutInv, [Next]_vars
  PROVE  KeptOrCutInv'
<1> USE DEF ss_vars
<1>1. CASE Begin
  BY <1>1 DEF Begin, KeptOrCutInv
<1>2. CASE OpenWindow
  BY <1>2 DEF OpenWindow, KeptOrCutInv
<1>3. CASE EndSlice
  BY <1>3 DEF EndSlice, KeptOrCutInv
<1>4. CASE Decode
  <2>1. Decoding
    BY <1>4 DEF Decode, DecodeChar, CompleteChar, StartChar, ContinueChar, InputEmpty,
                Malformed, OutputFull
  <2> QED  BY <2>1 DEF Decoding, KeptOrCutInv
<1>5. CASE StartSplit
  BY <1>5 DEF StartSplit, KeptOrCutInv
<1>6. CASE Split
  BY <1>6 DEF Split, KeptOrCutInv
<1>7. CASE TakeChunk
  BY <1>7 DEF TakeChunk, KeptOrCutInv
<1>8. CASE AfterChunks
  BY <1>8 DEF AfterChunks, KeptOrCutInv
<1>9. CASE Stopped \/ UNCHANGED vars
  BY <1>9 DEF Stopped, vars, KeptOrCutInv
<1> QED  BY <1>1, <1>2, <1>3, <1>4, <1>5, <1>6, <1>7, <1>8, <1>9 DEF Next, ScanStep

LEMMA KeptOrCutInvariant == Spec => []KeptOrCutInv
<1>1. Init => KeptOrCutInv
  BY DEF Init, KeptOrCutInv
<1>2. KeptOrCutInv /\ [Next]_vars => KeptOrCutInv'
  BY NextKeepsKeptOrCut
<1> QED  BY <1>1, <1>2, PTL DEF Spec

\* What is kept for the next slice may be longer than MIN, but never grows beyond a
\* line, and reaches it only for want of the grep character.
LeftoverFitsALine ==
    Len(last_scan_run_leftover) < IF NoGrep THEN LineLen ELSE LineLen + 1

\* The leftover never grows beyond a line, through any number of slices that go on
\* with it (scanner.rs:50 says that it has fewer than MIN characters), and a string
\* is never both kept for the next slice and marked as printed.
THEOREM LeftoverIsBounded == Spec => [](LeftoverFitsALine /\ KeptOrCutInv)
<1>1. IInv => LeftoverFitsALine
  <2> SUFFICES ASSUME IInv PROVE LeftoverFitsALine
    OBVIOUS
  <2>1. Len(last_scan_run_leftover) \in Nat /\ Len(last_scan_run_leftover) <= LeftoverMax
    BY TextTypes DEF IInv, TypeOK, LineInv
  <2> QED  BY <2>1, ConstantTypes DEF LeftoverFitsALine
<1> QED  BY <1>1, InductiveInvariant, KeptOrCutInvariant, PTL

-----------------------------------------------------------------------------
(* The contract of from().                                                 *)

LEMMA InitIsContractInit == Init => Contract!Init
BY DEF Init, Contract!Init

LEMMA BeginIsCall ==
  ASSUME IInv, Begin
  PROVE  Contract!Call
<1>1. /\ step = "idle" /\ step' \in {"window", "panicked"} /\ slice_len' \in 0 .. MaxSlice
      /\ UNCHANGED <<consumed_bytes, printed>>
  BY DEF Begin, Called, returned_vars
<1>2. slice_len' \in Nat
  BY <1>1, ConstantTypes
<1> QED  BY <1>1, <1>2 DEF Contract!Call

LEMMA EndSliceIsReturn ==
  ASSUME IInv, EndSlice
  PROVE  Contract!Return
<1>1. /\ step = "window" /\ step' = "idle" /\ decoder_input_start >= slice_len
      /\ consumed_bytes' = consumed_bytes + decoder_input_start
      /\ printed' = printed \o v /\ slice_len' = slice_len
  BY DEF EndSlice, param_vars
<1>2. /\ printed \in Seq(FindingType) /\ v \in Seq(FindingType)
      /\ decoder_input_start \in 0 .. slice_len /\ slice_len \in Nat
  BY DEF IInv, TypeOK
<1>3. consumed_bytes' = consumed_bytes + slice_len
  BY <1>1, <1>2
<1>4. SubSeq(printed', Len(printed) + 1, Len(printed')) = v
  <2>1. printed' \in Seq(FindingType) /\ Len(printed') = Len(printed) + Len(v)
        /\ Len(printed) \in Nat /\ Len(v) \in Nat
    BY <1>1, <1>2
  <2>2. SubSeq(printed \o v, Len(printed) + 1, Len(printed) + Len(v)) = v
    BY <1>2, SubSeqOfConcat2
  <2> QED  BY <1>1, <2>1, <2>2
<1>5. Contract!InSlice(v) /\ Contract!Sorted(v)
  BY DEF IInv, CollectionInv, Contract!InSlice, Contract!Sorted
<1> QED  BY <1>1, <1>3, <1>4, <1>5 DEF Contract!Return

LEMMA StepIsContractStep ==
  ASSUME IInv, [Next]_vars
  PROVE  [Contract!Next]_(Contract!contract_vars)
<1> USE DEF Contract!contract_vars
<1>1. CASE Begin
  BY <1>1, BeginIsCall DEF Contract!Next
<1>2. CASE EndSlice
  BY <1>2, EndSliceIsReturn DEF Contract!Next
<1>3. CASE OpenWindow
  BY <1>3 DEF OpenWindow, param_vars, ss_vars, returned_vars
<1>4. CASE Decode
  <2>1. Decoding /\ step' \in {step, "decoded"}
    BY <1>4 DEF Decode, DecodeChar, CompleteChar, StartChar, ContinueChar, InputEmpty,
                Malformed, OutputFull, Write, EndCall
  <2> QED  BY <2>1 DEF Decoding, param_vars, returned_vars
<1>5. CASE StartSplit
  BY <1>5 DEF StartSplit, param_vars, ss_vars, returned_vars
<1>6. CASE Split
  BY <1>6 DEF Split, param_vars, ss_vars, returned_vars
<1>7. CASE TakeChunk
  BY <1>7 DEF TakeChunk, param_vars, ss_vars, returned_vars
<1>8. CASE AfterChunks
  <2>1. step = "split" /\ step' # "idle" /\ UNCHANGED <<slice_len, consumed_bytes, printed>>
    BY <1>8 DEF AfterChunks, param_vars, ss_vars, returned_vars, IInv, TypeOK
  <2> QED  BY <2>1
<1>9. CASE Stopped \/ UNCHANGED vars
  BY <1>9 DEF Stopped, vars, param_vars, ss_vars, returned_vars
<1> QED  BY <1>1, <1>2, <1>3, <1>4, <1>5, <1>6, <1>7, <1>8, <1>9 DEF Next, ScanStep

\* from() keeps the contract that the merger relies on: the positions of a returned
\* collection lie in its slice and never decrease, and the slice is read to its end.
THEOREM ScannerImplementsScan == Spec => ImplementsScan
<1>1. IInv /\ [Next]_vars => [Contract!Next]_(Contract!contract_vars)
  BY StepIsContractStep
<1> QED  BY <1>1, InductiveInvariant, InitIsContractInit, PTL
         DEF Spec, ImplementsScan, Contract!Spec

=============================================================================
