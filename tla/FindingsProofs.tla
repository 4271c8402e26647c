--------------------------- MODULE FindingsProofs ---------------------------
(***************************************************************************)
(* Proofs about the findings of one scanner and the stream they come from, *)
(* for every behaviour of the modelled decoder, every division of the      *)
(* stream into slices and every size.                                      *)
(*                                                                         *)
(* PendingInv says that the text which is not yet in a finding is one      *)
(* piece, in order, and ends where the decoder stands; BehindFindingsInv   *)
(* says that all findings lie in front of it.  Together they make every    *)
(* new finding follow the ones before it.                                  *)
(*                                                                         *)
(* NearInv tells the two kinds of characters in a text apart: those that   *)
(* it starts with are a leftover, of one string that was not long enough;  *)
(* all others were read since the position that the call writes down.      *)
(* ContInv relates the cut flag to the findings: while it is set, what the *)
(* iterator may continue starts where the last finding stopped.            *)
(*                                                                         *)
(* LostInv says what has become of the strings that start in front of the  *)
(* pending text: their first lines are findings, and one that may still go *)
(* on has a full line already, so that nothing it lacks is pending.        *)
(*                                                                         *)
(* CompletedInv adds, for an encoding with one byte per character, that a  *)
(* string which may go on has set the cut flag, or starts in what is       *)
(* pending: so every next text continues it, and all of it is found.       *)
(***************************************************************************)
EXTENDS ScannerProofs

\* What is pending is read but not yet given to the iterator, or the text that the
\* iterator has.
Pending == CASE step = "idle"  -> last_scan_run_leftover
             [] step = "split" -> text
             [] OTHER          -> last_window_leftover \o text

StreamEnd == IF step = "idle" THEN consumed_bytes ELSE StreamPos

\* Where the next character will start.
NextPos == IF decoder = NoBytes THEN StreamEnd ELSE decoder.at

\* A text as the decoder writes it.
InOrder(t) ==
    /\ \A i \in 1 .. Len(t) : t[i].at <= t[i].end
    /\ \A i, j \in 1 .. Len(t) : i < j => t[i].end <= t[j].at

PendingInv ==
    /\ stream \in Seq(Char)
    /\ decoder # NoBytes => decoder.at <= StreamEnd
    /\ InOrder(Pending) /\ Contiguous(Pending)
    /\ Pending # <<>> => /\ Pending[Len(Pending)] = stream[Len(stream)]
                         /\ Pending[Len(Pending)].end <= NextPos
    /\ Pending # <<>> /\
       ~(step \in {"decoded", "split", "panicked"} /\ decoder_result = "Malformed") =>
          Pending[Len(Pending)].end = NextPos
    /\ Contiguous(last_window_leftover)

IsStreamText(f) ==
    /\ f.s # <<>>
    /\ Contiguous(f.s)
    /\ \A k \in 1 .. Len(f.s) : SP!PassesFilter(f.s[k].lead)

\* The results that have become findings, or the leftover.
Taken == IF pc = "returned" THEN Len(results) - 1 ELSE Len(results)

\* The findings lie before all that may still become one.
BehindFindingsInv ==
    /\ \A i \in 1 .. Len(Findings) : IsStreamText(Findings[i]) /\ StopOf(Findings[i]) <= NextPos
    /\ FindingsInStreamOrder
    /\ step # "split" =>
          \A i \in 1 .. Len(Findings), k \in 1 .. Len(Pending) :
              StopOf(Findings[i]) <= Pending[k].at
    /\ step = "split" =>
          /\ \A i \in 1 .. Len(Findings), k \in 1 .. Len(text) :
                (Taken = 0 \/ results[Taken].from + results[Taken].nb <= k) =>
                    StopOf(Findings[i]) <= text[k].at
          /\ \A i \in 1 .. Len(Findings), k \in 1 .. Len(last_window_leftover) :
                StopOf(Findings[i]) <= last_window_leftover[k].at

LEMMA OrderedAppend ==
  ASSUME NEW t \in Seq(Char), NEW c \in Char, c.at <= c.end, InOrder(t), Contiguous(t),
         t # <<>> => t[Len(t)].end = c.at
  PROVE  InOrder(Append(t, c)) /\ Contiguous(Append(t, c))
<1> DEFINE n == Len(t)
           u == Append(t, c)
<1>1. n \in Nat /\ Len(u) = n + 1 /\ u[n + 1] = c /\ \A i \in 1 .. n : u[i] = t[i]
  OBVIOUS
<1>2. \A i \in 1 .. n : t[i] \in Char /\ t[i].at \in Nat /\ t[i].end \in Nat
  <2>1. \A i \in 1 .. n : t[i] \in Char
    OBVIOUS
  <2> QED  BY <2>1 DEF Char
<1>3. c.at \in Nat /\ c.end \in Nat
  BY DEF Char
<1>4. n > 0 => t[n].end = c.at
  BY <1>1
<1>5. /\ \A i \in 1 .. n : t[i].at <= t[i].end
      /\ \A i, j \in 1 .. n : i < j => t[i].end <= t[j].at
      /\ \A i \in 1 .. n - 1 : t[i].end = t[i + 1].at
  BY DEF InOrder, Contiguous
<1> HIDE DEF n, u
<1>6. \A i \in 1 .. n : t[i].end <= c.at
  <2> SUFFICES ASSUME NEW i \in 1 .. n PROVE t[i].end <= c.at
    OBVIOUS
  <2>1. CASE i = n
    BY <1>1, <1>2, <1>3, <1>4, <2>1
  <2>2. CASE i < n
    <3>1. n \in 1 .. n /\ t[i].end <= t[n].at /\ t[n].at <= t[n].end
      BY <1>1, <1>5, <2>2
    <3> QED  BY <1>1, <1>2, <1>3, <1>4, <3>1
  <2> QED  BY <1>1, <2>1, <2>2
<1>7. InOrder(u)
  <2>1. ASSUME NEW i \in 1 .. n + 1 PROVE u[i].at <= u[i].end
    BY <1>1, <1>5
  <2>2. ASSUME NEW i \in 1 .. n + 1, NEW j \in 1 .. n + 1, i < j
        PROVE  u[i].end <= u[j].at
    <3>1. i \in 1 .. n /\ (j \in 1 .. n \/ j = n + 1)
      BY <1>1, <2>2
    <3> QED  BY <1>1, <1>5, <1>6, <2>2, <3>1
  <2> QED  BY <1>1, <2>1, <2>2 DEF InOrder
<1>8. Contiguous(u)
  <2>1. ASSUME NEW i \in 1 .. n PROVE u[i].end = u[i + 1].at
    <3>1. CASE i = n
      BY <1>1, <1>4, <3>1
    <3>2. CASE i \in 1 .. n - 1
      <4>1. i + 1 \in 1 .. n
        BY <1>1, <3>2
      <4> QED  BY <1>1, <1>5, <3>2, <4>1
    <3> QED  BY <1>1, <3>1, <3>2
  <2> QED  BY <1>1, <2>1 DEF Contiguous
<1> QED  BY <1>7, <1>8 DEF u

LEMMA OrderedPart ==
  ASSUME NEW t \in Seq(Char), NEW m \in 1 .. Len(t), NEW n \in m .. Len(t),
         InOrder(t), Contiguous(t)
  PROVE  LET u == SubSeq(t, m, n)
         IN  /\ InOrder(u) /\ Contiguous(u)
             /\ Len(u) = n + 1 - m /\ u # <<>>
             /\ u[1] = t[m] /\ u[Len(u)] = t[n]
             /\ \A k \in 1 .. Len(u) : u[k] = t[m + k - 1] /\ m + k - 1 \in m .. n
<1> DEFINE u == SubSeq(t, m, n)
           len == n + 1 - m
<1>1. len \in Nat /\ len >= 1 /\ m \in Nat /\ n \in Nat /\ Len(t) \in Nat
      /\ m <= n /\ n <= Len(t) /\ m + len = n + 1
  OBVIOUS
<1>2. u \in Seq(Char) /\ Len(u) = len /\ \A k \in 1 .. len : u[k] = t[m + k - 1]
  OBVIOUS
<1>3. /\ \A i \in 1 .. Len(t) : t[i].at <= t[i].end
      /\ \A i, j \in 1 .. Len(t) : i < j => t[i].end <= t[j].at
      /\ \A i \in 1 .. Len(t) - 1 : t[i].end = t[i + 1].at
  BY DEF InOrder, Contiguous
<1> HIDE DEF u, len
<1>4. \A k \in 1 .. len : m + k - 1 \in m .. n /\ m + k - 1 \in 1 .. Len(t)
  BY <1>1
<1>5. InOrder(u)
  <2>1. ASSUME NEW i \in 1 .. len, NEW j \in 1 .. len, i < j PROVE u[i].end <= u[j].at
    <3>1. m + i - 1 < m + j - 1
      BY <1>1, <2>1
    <3> QED  BY <1>2, <1>3, <1>4, <3>1
  <2> QED  BY <1>2, <1>3, <1>4, <2>1 DEF InOrder
<1>6. Contiguous(u)
  <2>1. ASSUME NEW i \in 1 .. len - 1 PROVE u[i].end = u[i + 1].at
    <3>1. /\ i \in 1 .. len /\ i + 1 \in 1 .. len
          /\ m + (i + 1) - 1 = (m + i - 1) + 1 /\ m + i - 1 \in 1 .. Len(t) - 1
      BY <1>1
    <3> QED  BY <1>2, <1>3, <3>1
  <2> QED  BY <1>2, <2>1 DEF Contiguous
<1>7. u # <<>> /\ u[1] = t[m] /\ u[len] = t[n]
  <2>1. 1 \in 1 .. len /\ len \in 1 .. len /\ m + 1 - 1 = m /\ m + len - 1 = n
    BY <1>1
  <2>2. u # <<>>
    BY <1>1, <1>2
  <2> QED  BY <1>2, <2>1, <2>2
<1> QED  BY <1>2, <1>4, <1>5, <1>6, <1>7 DEF u, len

LEMMA NoText == InOrder(<<>>) /\ Contiguous(<<>>)
BY DEF InOrder, Contiguous

LEMMA PendingTypes ==
  ASSUME IInv, PendingInv
  PROVE  /\ Pending \in Text /\ Pending \in Seq(Char) /\ Len(Pending) \in Nat
         /\ \A k \in 1 .. Len(Pending) :
               Pending[k] \in Char /\ Pending[k].at \in Nat /\ Pending[k].end \in Nat
         /\ StreamEnd \in Nat /\ NextPos \in Nat /\ NextPos <= StreamEnd
         /\ \A k \in 1 .. Len(Pending) : Pending[k].end <= NextPos
<1>1. Pending \in Text
  <2>1. /\ last_scan_run_leftover \in Text /\ text \in Text /\ last_window_leftover \in Text
    BY DEF IInv, TypeOK
  <2> QED  BY <2>1, TextConcat DEF Pending
<1>2. /\ Pending \in Seq(Char) /\ Len(Pending) \in Nat
      /\ \A k \in 1 .. Len(Pending) : Pending[k] \in Char
  BY <1>1, TextTypes
<1>3. \A k \in 1 .. Len(Pending) : Pending[k].at \in Nat /\ Pending[k].end \in Nat
  BY <1>2 DEF Char
<1>4. StreamEnd \in Nat
  BY DEF IInv, TypeOK, StreamEnd, StreamPos
<1>5. NextPos \in Nat /\ NextPos <= StreamEnd
  <2>1. decoder.at \in Nat
    BY DEF IInv, TypeOK
  <2> QED  BY <1>4, <2>1 DEF NextPos, PendingInv
<1>6. \A k \in 1 .. Len(Pending) : Pending[k].end <= NextPos
  <2> DEFINE n == Len(Pending)
  <2> SUFFICES ASSUME NEW k \in 1 .. n PROVE Pending[k].end <= NextPos
    OBVIOUS
  <2>1. Pending # <<>> /\ n \in 1 .. n
    BY <1>2
  <2>2. Pending[n].end <= NextPos
    BY <2>1 DEF PendingInv
  <2>3. /\ Pending[n].at <= Pending[n].end
        /\ k < n => Pending[k].end <= Pending[n].at
    BY <2>1 DEF PendingInv, InOrder
  <2> HIDE DEF n
  <2>4. k \in Nat /\ n \in Nat /\ (k < n \/ k = n)
    BY <1>2 DEF n
  <2>5. /\ Pending[k].end \in Nat /\ Pending[n].at \in Nat /\ Pending[n].end \in Nat
    BY <1>3, <2>1 DEF n
  <2> QED  BY <1>5, <2>2, <2>3, <2>4, <2>5
<1> QED  BY <1>1, <1>2, <1>3, <1>4, <1>5, <1>6

\* In a step that changes neither what is pending nor what was decoded.
LEMMA PendingFrame ==
  ASSUME PendingInv, Pending' = Pending, stream' = stream, decoder' = decoder,
         StreamEnd' = StreamEnd, Contiguous(last_window_leftover)',
         decoder_result' = decoder_result,
         step \in {"decoded", "split", "panicked"} =>
            step' \in {"decoded", "split", "panicked"} \/ Pending = <<>>
  PROVE  PendingInv' /\ NextPos' = NextPos
<1>1. NextPos' = NextPos
  BY DEF NextPos, NoBytes
<1>2. InOrder(Pending)' /\ Contiguous(Pending)'
  BY DEF PendingInv, InOrder, Contiguous
<1>3. stream' \in Seq(Char)
  BY DEF PendingInv
<1>4. decoder' # NoBytes' => decoder'.at <= StreamEnd'
  BY DEF PendingInv, NoBytes
<1>5. Pending' # <<>> => /\ Pending'[Len(Pending')] = stream'[Len(stream')]
                         /\ Pending'[Len(Pending')].end <= NextPos'
  BY <1>1 DEF PendingInv
<1>6. Pending' # <<>> /\
      ~(step' \in {"decoded", "split", "panicked"} /\ decoder_result' = "Malformed") =>
         Pending'[Len(Pending')].end = NextPos'
  BY <1>1 DEF PendingInv
<1> QED  BY <1>1, <1>2, <1>3, <1>4, <1>5, <1>6 DEF PendingInv

LEMMA BeginPending ==
  ASSUME IInv, PendingInv, Begin
  PROVE  PendingInv' /\ Pending' = Pending /\ NextPos' = NextPos
<1>1. /\ step = "idle" /\ step' \in {"window", "panicked"}
      /\ decoder_read' = 0 /\ last_window_leftover' = last_scan_run_leftover
      /\ UNCHANGED <<decoder, consumed_bytes, decoder_result, text, stream>>
  BY DEF Begin
<1>2. text = <<>> /\ last_scan_run_leftover \in Text /\ consumed_bytes \in Nat
  BY <1>1 DEF IInv, LeftoverInv, TypeOK
<1>3. last_scan_run_leftover \in Seq(Char)
  BY <1>2, TextTypes
<1>4. last_scan_run_leftover \o <<>> = last_scan_run_leftover
  BY <1>3
<1>5. Pending = last_scan_run_leftover /\ Pending' = last_scan_run_leftover
  BY <1>1, <1>2, <1>4 DEF Pending
<1>6. StreamEnd' = StreamEnd
  BY <1>1, <1>2 DEF StreamEnd, StreamPos
<1>7. Contiguous(last_window_leftover)'
  BY <1>1, <1>5 DEF PendingInv, Contiguous
<1> QED  BY <1>1, <1>5, <1>6, <1>7, PendingFrame

LEMMA OpenWindowPending ==
  ASSUME IInv, PendingInv, OpenWindow
  PROVE  PendingInv' /\ Pending' = Pending /\ NextPos' = NextPos
<1>1. /\ step = "window" /\ step' = "decode"
      /\ UNCHANGED <<decoder, consumed_bytes, decoder_result, decoder_read, text, stream,
                     last_window_leftover>>
  BY DEF OpenWindow, ss_vars, call_vars
<1>2. Pending' = Pending /\ StreamEnd' = StreamEnd
  BY <1>1 DEF Pending, StreamEnd, StreamPos
<1>3. Contiguous(last_window_leftover)'
  BY <1>1 DEF PendingInv, Contiguous
<1> QED  BY <1>1, <1>2, <1>3, PendingFrame

LEMMA EndSlicePending ==
  ASSUME IInv, PendingInv, EndSlice
  PROVE  PendingInv' /\ Pending' = Pending /\ NextPos' = NextPos
<1>1. /\ step = "window" /\ step' = "idle"
      /\ last_scan_run_leftover' = last_window_leftover
      /\ consumed_bytes' = consumed_bytes + decoder_input_start
      /\ UNCHANGED <<decoder, decoder_result, decoder_read, text, stream,
                     last_window_leftover>>
  BY DEF EndSlice, call_vars
<1>2. text = <<>> /\ last_window_leftover \in Text /\ decoder_read = decoder_input_start
  BY <1>1 DEF IInv, LeftoverInv, TypeOK, WindowInv
<1>3. last_window_leftover \in Seq(Char)
  BY <1>2, TextTypes
<1>4. last_window_leftover \o <<>> = last_window_leftover
  BY <1>3
<1>5. Pending' = Pending
  BY <1>1, <1>2, <1>4 DEF Pending
<1>6. StreamEnd' = StreamEnd
  BY <1>1, <1>2 DEF StreamEnd, StreamPos
<1>7. Contiguous(last_window_leftover)'
  BY <1>1 DEF PendingInv, Contiguous
<1> QED  BY <1>1, <1>5, <1>6, <1>7, PendingFrame

\* A character is decoded behind what is pending.
LEMMA WritePending ==
  ASSUME IInv, PendingInv, Decoding, NEW char \in Char, Write(char),
         char.at = NextPos, char.at <= char.end, decoder' = NoBytes,
         consumed_bytes + decoder_read' = char.end
  PROVE  /\ PendingInv' /\ Pending' = Append(Pending, char) /\ NextPos' = char.end
<1>1. /\ step = "decode" /\ step' = step
      /\ text' = Append(text, char) /\ stream' = Append(stream, char)
      /\ UNCHANGED <<consumed_bytes, last_window_leftover, decoder_result>>
  BY DEF Decoding, Write
<1>2. text \in Seq(Char) /\ last_window_leftover \in Seq(Char) /\ stream \in Seq(Char)
      /\ Pending \in Seq(Char)
  BY TextTypes, PendingTypes DEF IInv, TypeOK, PendingInv
<1>3. Pending = last_window_leftover \o text
  BY <1>1 DEF Pending
<1>4. Pending' = Append(Pending, char)
  <2>1. Pending' = last_window_leftover \o Append(text, char)
    BY <1>1 DEF Pending
  <2>2. last_window_leftover \o Append(text, char) = Append(last_window_leftover \o text, char)
    BY <1>2
  <2> QED  BY <1>3, <2>1, <2>2
<1>5. NextPos' = char.end /\ StreamEnd' = char.end
  BY <1>1 DEF NextPos, NoBytes, StreamEnd, StreamPos
<1>6. Pending # <<>> => Pending[Len(Pending)].end = char.at
  BY <1>1 DEF PendingInv
<1>7. InOrder(Append(Pending, char)) /\ Contiguous(Append(Pending, char))
  BY <1>2, <1>6, OrderedAppend DEF PendingInv
<1>8. InOrder(Pending)' /\ Contiguous(Pending)'
  BY <1>4, <1>7 DEF InOrder, Contiguous
<1>9. Pending'[Len(Pending')] = char /\ stream'[Len(stream')] = char
      /\ stream' \in Seq(Char)
  BY <1>1, <1>2, <1>4
<1>10. char.end <= char.end
  <2>1. char.end \in Nat
    BY DEF Char
  <2> QED  BY <2>1
<1>11. Contiguous(last_window_leftover)'
  BY <1>1 DEF PendingInv, Contiguous
<1> QED  BY <1>4, <1>5, <1>8, <1>9, <1>10, <1>11 DEF PendingInv, NoBytes

\* The decoder ends its call, and may have given up an unfinished character.
LEMMA EndCallPending ==
  ASSUME IInv, PendingInv, Decoding, NEW result, EndCall(result),
         StreamEnd' \in Nat, NextPos' \in Nat, NextPos <= NextPos',
         decoder' # NoBytes => decoder'.at <= StreamEnd',
         result # "Malformed" => NextPos' = NextPos
  PROVE  PendingInv' /\ Pending' = Pending
<1>1. /\ step = "decode" /\ step' = "decoded" /\ decoder_result' = result
      /\ UNCHANGED <<consumed_bytes, last_window_leftover, text, stream>>
  BY DEF Decoding, EndCall
<1>2. Pending' = Pending
  BY <1>1 DEF Pending
<1>3. InOrder(Pending)' /\ Contiguous(Pending)' /\ Contiguous(last_window_leftover)'
  BY <1>1, <1>2 DEF PendingInv, InOrder, Contiguous
<1>4. Pending # <<>> => Pending[Len(Pending)].end = NextPos /\ NextPos \in Nat
  BY <1>1, PendingTypes DEF PendingInv
<1>5. Pending # <<>> => Pending[Len(Pending)].end <= NextPos'
  BY <1>4
<1> QED  BY <1>1, <1>2, <1>3, <1>4, <1>5 DEF PendingInv, NoBytes

LEMMA DecodePending ==
  ASSUME IInv, PendingInv, Decode
  PROVE  /\ PendingInv' /\ NextPos <= NextPos'
         /\ \/ /\ Pending' = Pending
               /\ NextPos' = NextPos \/ (step' = "decoded" /\ decoder_result' = "Malformed")
            \/ \E char \in Char : Pending' = Append(Pending, char) /\ char.at = NextPos
<1>1. Decoding
  BY DEF Decode, DecodeChar, CompleteChar, StartChar, ContinueChar, InputEmpty,
         Malformed, OutputFull
<1>2. /\ step = "decode" /\ consumed_bytes \in Nat /\ decoder_read \in Nat
      /\ decoder_input_end \in Nat /\ decoder_read <= decoder_input_end
      /\ decoder.lead \in SP!LeadingBytes /\ decoder.at \in Nat /\ decoder.left \in Nat
      /\ consumed_bytes' = consumed_bytes
  BY <1>1, DecodingFrame DEF IInv, TypeOK
<1>3. StreamEnd = consumed_bytes + decoder_read /\ StreamPos = StreamEnd
      /\ StreamEnd \in Nat /\ NextPos \in Nat /\ NextPos <= StreamEnd
  BY <1>2, PendingTypes DEF StreamEnd, StreamPos
<1>4. CASE DecodeChar
  <2>1. decoder = NoBytes /\ decoder' = decoder
    BY <1>4 DEF DecodeChar
  <2>2. PICK c \in Chars :
           /\ Write([lead |-> c.lead, at |-> StreamPos, end |-> StreamPos + c.width])
           /\ decoder_read' = decoder_read + c.width
    BY <1>4 DEF DecodeChar
  <2> DEFINE char == [lead |-> c.lead, at |-> StreamPos, end |-> StreamPos + c.width]
  <2>3. c.lead \in SP!LeadingBytes /\ c.width \in Nat
    BY ConstantTypes
  <2>4. /\ char \in Char /\ char.at = StreamPos /\ char.end = StreamPos + c.width
        /\ char.at <= char.end /\ char.at \in Nat /\ char.end \in Nat
    BY <1>3, <2>3 DEF Char
  <2>5. NextPos = StreamPos
    BY <1>3, <2>1 DEF NextPos
  <2>6. consumed_bytes + decoder_read' = char.end
    BY <1>2, <1>3, <2>2, <2>3, <2>4
  <2> HIDE DEF char
  <2>7. Write(char)
    BY <2>2 DEF char
  <2>8. PendingInv' /\ Pending' = Append(Pending, char) /\ NextPos' = char.end
    BY <1>1, <2>1, <2>4, <2>5, <2>6, <2>7, WritePending
  <2> QED  BY <2>4, <2>5, <2>8
<1>5. CASE CompleteChar
  <2> DEFINE char == [lead |-> decoder.lead, at |-> decoder.at, end |-> StreamPos + decoder.left]
  <2>1. /\ decoder' = NoBytes /\ decoder.left \in 1 .. Available
        /\ Write(char) /\ decoder_read' = decoder_read + decoder.left
    BY <1>5 DEF CompleteChar
  <2>2. decoder # NoBytes
    BY <1>2, <2>1 DEF NoBytes, Available
  <2>3. NextPos = decoder.at
    BY <2>2 DEF NextPos
  <2>4. /\ char \in Char /\ char.at = decoder.at /\ char.end = StreamPos + decoder.left
        /\ char.at <= char.end /\ char.at \in Nat /\ char.end \in Nat
    BY <1>2, <1>3, <2>3 DEF Char
  <2>5. consumed_bytes + decoder_read' = char.end
    BY <1>2, <1>3, <2>1, <2>4
  <2> HIDE DEF char
  <2>6. PendingInv' /\ Pending' = Append(Pending, char) /\ NextPos' = char.end
    BY <1>1, <2>1, <2>3, <2>4, <2>5, WritePending
  <2> QED  BY <2>3, <2>4, <2>6
<1>6. CASE StartChar
  <2>1. /\ decoder = NoBytes /\ Available > 0 /\ decoder_read' = decoder_input_end
        /\ EndCall("InputEmpty")
    BY <1>6 DEF StartChar
  <2>2. PICK c \in Chars :
           /\ c.width > Available
           /\ decoder' = [lead |-> c.lead, at |-> StreamPos, left |-> c.width - Available]
    BY <1>6 DEF StartChar
  <2>3. decoder' # NoBytes /\ decoder'.at = StreamPos
    <3>1. c.width \in Nat
      BY ConstantTypes
    <3>2. decoder'.left = c.width - Available /\ c.width - Available >= 1
      BY <1>2, <2>1, <2>2, <3>1 DEF Available
    <3> QED  BY <2>2, <3>2 DEF NoBytes
  <2>4. NextPos = StreamPos /\ NextPos' = StreamPos
    BY <1>3, <2>1, <2>3 DEF NextPos, NoBytes
  <2>5. StreamEnd' = consumed_bytes + decoder_input_end /\ StreamEnd' \in Nat
        /\ StreamPos <= StreamEnd'
    BY <1>2, <1>3, <2>1 DEF StreamEnd, StreamPos, EndCall
  <2>6. NextPos <= NextPos' /\ NextPos' \in Nat /\ NextPos' = NextPos
    BY <1>3, <2>4
  <2>7. PendingInv' /\ Pending' = Pending
    BY <1>1, <2>1, <2>3, <2>5, <2>6, EndCallPending
  <2> QED  BY <2>6, <2>7
<1>7. CASE ContinueChar
  <2>1. /\ Available > 0 /\ decoder.left > Available
        /\ decoder' = [decoder EXCEPT !.left = @ - Available]
        /\ decoder_read' = decoder_input_end /\ EndCall("InputEmpty")
    BY <1>7 DEF ContinueChar
  <2>2. decoder # NoBytes
    BY <1>2, <2>1 DEF NoBytes, Available
  <2>3. decoder' # NoBytes /\ decoder'.at = decoder.at
    <3>1. decoder \in [lead : SP!LeadingBytes, at : Nat, left : Nat]
      BY DEF IInv, TypeOK
    <3>2. decoder'.at = decoder.at /\ decoder'.left = decoder.left - Available
      BY <2>1, <3>1
    <3>3. decoder.left - Available >= 1
      BY <1>2, <2>1 DEF Available
    <3> QED  BY <3>2, <3>3 DEF NoBytes
  <2>4. NextPos = decoder.at /\ NextPos' = decoder.at
    BY <2>2, <2>3 DEF NextPos, NoBytes
  <2>5. StreamEnd' = consumed_bytes + decoder_input_end /\ StreamEnd' \in Nat
        /\ decoder.at <= StreamEnd'
    BY <1>2, <1>3, <2>1, <2>4 DEF StreamEnd, StreamPos, EndCall
  <2>6. NextPos <= NextPos' /\ NextPos' \in Nat /\ NextPos' = NextPos
    BY <1>3, <2>4
  <2>7. PendingInv' /\ Pending' = Pending
    BY <1>1, <2>1, <2>3, <2>5, <2>6, EndCallPending
  <2> QED  BY <2>6, <2>7
<1>8. CASE InputEmpty \/ OutputFull
  <2>1. /\ EndCall("InputEmpty") \/ EndCall("OutputFull")
        /\ decoder' = decoder /\ decoder_read' = decoder_read /\ step' = "decoded"
    BY <1>8 DEF InputEmpty, OutputFull, EndCall
  <2>2. StreamEnd' = StreamEnd
    BY <1>2, <2>1 DEF StreamEnd, StreamPos
  <2>3. NextPos' = NextPos
    BY <2>1, <2>2 DEF NextPos, NoBytes
  <2>4. decoder' # NoBytes => decoder'.at <= StreamEnd'
    BY <2>1, <2>2 DEF PendingInv
  <2>5. NextPos <= NextPos' /\ NextPos' \in Nat /\ StreamEnd' \in Nat
    BY <1>3, <2>2, <2>3
  <2>6. PendingInv' /\ Pending' = Pending
    BY <1>1, <2>1, <2>3, <2>4, <2>5, EndCallPending
  <2> QED  BY <2>3, <2>5, <2>6
<1>9. CASE Malformed
  <2>1. /\ EndCall("Malformed") /\ decoder' = NoBytes /\ step' = "decoded"
        /\ decoder_result' = "Malformed"
        /\ decoder_read' \in {decoder_read + 1, decoder_read}
    BY <1>9 DEF Malformed, EndCall
  <2>2. StreamEnd' = consumed_bytes + decoder_read' /\ NextPos' = StreamEnd'
    BY <1>2, <2>1 DEF StreamEnd, StreamPos, NextPos, NoBytes
  <2>3. decoder_read' \in Nat /\ decoder_read <= decoder_read'
    BY <1>2, <2>1
  <2>4. StreamEnd' \in Nat /\ StreamEnd <= StreamEnd'
    <3> DEFINE read == decoder_read'
    <3>1. read \in Nat /\ decoder_read <= read /\ StreamEnd' = consumed_bytes + read
      BY <2>2, <2>3
    <3> HIDE DEF read
    <3>2. consumed_bytes + read \in Nat /\ consumed_bytes + decoder_read <= consumed_bytes + read
      BY <1>2, <3>1
    <3> QED  BY <1>3, <3>1, <3>2
  <2>5. NextPos <= NextPos' /\ NextPos' \in Nat
    BY <1>3, <2>2, <2>4
  <2> QED  BY <1>1, <2>1, <2>2, <2>4, <2>5, EndCallPending
<1> QED  BY <1>4, <1>5, <1>6, <1>7, <1>8, <1>9 DEF Decode

LEMMA StartSplitPending ==
  ASSUME IInv, PendingInv, StartSplit
  PROVE  PendingInv' /\ Pending' = Pending /\ NextPos' = NextPos
<1>1. /\ step = "decoded" /\ step' \in {"split", "panicked"}
      /\ IF step' = "split"
         THEN text' = last_window_leftover \o text /\ last_window_leftover' = <<>>
         ELSE text' = text /\ last_window_leftover' = last_window_leftover
      /\ UNCHANGED <<decoder, consumed_bytes, decoder_result, decoder_read, stream>>
  BY DEF StartSplit, ss_vars, call_vars
<1>2. Pending' = Pending
  BY <1>1 DEF Pending
<1>3. StreamEnd' = StreamEnd
  BY <1>1 DEF StreamEnd, StreamPos
<1>4. Contiguous(last_window_leftover)'
  BY <1>1, NoText DEF PendingInv, Contiguous
<1> QED  BY <1>1, <1>2, <1>3, <1>4, PendingFrame

LEMMA SplitPending ==
  ASSUME IInv, PendingInv, Split
  PROVE  PendingInv' /\ Pending' = Pending /\ NextPos' = NextPos
<1>1. /\ step = "split" /\ step' = step
      /\ UNCHANGED <<decoder, consumed_bytes, decoder_result, decoder_read, stream, text,
                     last_window_leftover>>
  BY DEF Split, ss_vars, call_vars
<1>2. Pending' = Pending
  BY <1>1 DEF Pending
<1>3. StreamEnd' = StreamEnd
  BY <1>1 DEF StreamEnd, StreamPos
<1>4. Contiguous(last_window_leftover)'
  BY <1>1 DEF PendingInv, Contiguous
<1> QED  BY <1>1, <1>2, <1>3, <1>4, PendingFrame

LEMMA TakeChunkPending ==
  ASSUME IInv, PendingInv, TakeChunk
  PROVE  PendingInv' /\ Pending' = Pending /\ NextPos' = NextPos
<1>1. /\ step = "split" /\ pc = "returned" /\ step' = step
      /\ IF ~Chunk.s_is_to_be_filtered_again
         THEN last_window_leftover' = <<>>
         ELSE last_window_leftover' = SubSeq(text, Len(text) + 1 - Chunk.nb, Len(text))
      /\ UNCHANGED <<decoder, consumed_bytes, decoder_result, decoder_read, stream, text>>
  BY DEF TakeChunk, ss_vars, call_vars
<1>2. Pending' = Pending /\ Pending = text
  BY <1>1 DEF Pending
<1>3. StreamEnd' = StreamEnd
  BY <1>1 DEF StreamEnd, StreamPos
<1>4. Contiguous(last_window_leftover)'
  <2>1. CASE ~Chunk.s_is_to_be_filtered_again
    BY <1>1, <2>1, NoText DEF Contiguous
  <2>2. CASE Chunk.s_is_to_be_filtered_again
    <3>1. last_window_leftover' = SubSeq(text, Chunk.from, Len(text))
      BY <1>1, <2>2, NewLeftover DEF IInv
    <3>2. /\ text \in Seq(Char) /\ Chunk.from \in 1 .. Len(text)
          /\ Len(text) \in Chunk.from .. Len(text)
      <4>1. /\ Len(text) \in Nat /\ Chunk.from \in Nat /\ Chunk.from >= 1
            /\ Chunk.nb \in Nat /\ Chunk.nb >= 1 /\ Chunk.from + Chunk.nb <= Len(text) + 1
        BY <1>1, ChunkFacts DEF IInv
      <4>2. text \in Seq(Char)
        BY TextTypes DEF IInv, TypeOK
      <4>3. Chunk.from \in 1 .. Len(text) /\ Len(text) \in Chunk.from .. Len(text)
        BY <4>1
      <4> QED  BY <4>2, <4>3
    <3>3. Contiguous(SubSeq(text, Chunk.from, Len(text)))
      BY <1>2, <3>2, OrderedPart DEF PendingInv
    <3> QED  BY <3>1, <3>3 DEF Contiguous
  <2> QED  BY <2>1, <2>2
<1> QED  BY <1>1, <1>2, <1>3, <1>4, PendingFrame

\* Only the leftover of what was pending is still pending.
LEMMA AfterChunksPending ==
  ASSUME IInv, PendingInv, AfterChunks
  PROVE  /\ PendingInv' /\ NextPos' = NextPos
         /\ Pending' = last_window_leftover /\ step' # "split"
<1>1. /\ step = "split" /\ step' \in {"decode", "window"} /\ text' = <<>>
      /\ UNCHANGED <<decoder, consumed_bytes, decoder_result, decoder_read, stream,
                     last_window_leftover>>
  BY DEF AfterChunks, ss_vars, call_vars, IInv, TypeOK
<1>2. last_window_leftover \in Seq(Char) /\ text \in Seq(Char)
  BY TextTypes DEF IInv, TypeOK
<1>3. Pending' = last_window_leftover /\ Pending = text
  BY <1>1, <1>2 DEF Pending
<1>4. StreamEnd' = StreamEnd /\ NextPos' = NextPos
  BY <1>1 DEF StreamEnd, StreamPos, NextPos, NoBytes
<1>5. CASE last_window_leftover = <<>>
  BY <1>1, <1>3, <1>4, <1>5, NoText
     DEF PendingInv, NoBytes, InOrder, Contiguous
<1>6. CASE last_window_leftover # <<>>
  <2> DEFINE m == Len(text) + 1 - Len(last_window_leftover)
  <2>1. /\ Len(last_window_leftover) <= Len(text) /\ ~InvalidBytesAfter
        /\ last_window_leftover = SubSeq(text, m, Len(text))
    BY <1>1, <1>6 DEF IInv, LeftoverInv
  <2>2. Len(last_window_leftover) \in Nat /\ Len(last_window_leftover) >= 1 /\ Len(text) \in Nat
    BY <1>2, <1>6
  <2>3. m \in 1 .. Len(text) /\ Len(text) \in m .. Len(text)
    BY <2>1, <2>2
  <2> HIDE DEF m
  <2>4. /\ InOrder(last_window_leftover) /\ Contiguous(last_window_leftover)
        /\ last_window_leftover[Len(last_window_leftover)] = text[Len(text)]
    BY <1>2, <1>3, <2>1, <2>3, OrderedPart DEF PendingInv
  <2>5. decoder_result # "Malformed" /\ text # <<>>
    BY <2>1, <2>2, <2>3 DEF InvalidBytesAfter
  <2>6. text[Len(text)] = stream[Len(stream)] /\ text[Len(text)].end = NextPos
    BY <1>1, <1>3, <2>5 DEF PendingInv
  <2>7. InOrder(Pending)' /\ Contiguous(Pending)' /\ Contiguous(last_window_leftover)'
    BY <1>1, <1>3, <2>4 DEF InOrder, Contiguous
  <2>8. NextPos \in Nat /\ stream \in Seq(Char)
    BY PendingTypes DEF PendingInv
  <2>9. decoder' # NoBytes' => decoder'.at <= StreamEnd'
    BY <1>1, <1>4 DEF PendingInv, NoBytes
  <2> QED  BY <1>1, <1>3, <1>4, <2>4, <2>6, <2>7, <2>8, <2>9 DEF PendingInv
<1> QED  BY <1>1, <1>3, <1>4, <1>5, <1>6

LEMMA StutterPending ==
  ASSUME PendingInv, UNCHANGED vars
  PROVE  PendingInv' /\ Pending' = Pending /\ NextPos' = NextPos
<1>1. UNCHANGED <<step, decoder, consumed_bytes, decoder_result, decoder_read, stream, text,
                  last_window_leftover, last_scan_run_leftover>>
  BY DEF vars, ss_vars, call_vars
<1>2. Pending' = Pending
  BY <1>1 DEF Pending
<1>3. StreamEnd' = StreamEnd
  BY <1>1 DEF StreamEnd, StreamPos
<1>4. Contiguous(last_window_leftover)'
  BY <1>1 DEF PendingInv, Contiguous
<1> QED  BY <1>1, <1>2, <1>3, <1>4, PendingFrame

LEMMA NextKeepsPending ==
  ASSUME IInv, PendingInv, [Next]_vars
  PROVE  PendingInv' /\ NextPos <= NextPos'
<1>1. NextPos \in Nat
  BY PendingTypes
<1>2. CASE Begin \/ OpenWindow \/ EndSlice
  BY <1>1, <1>2, BeginPending, OpenWindowPending, EndSlicePending
<1>3. CASE Decode
  BY <1>3, DecodePending
<1>4. CASE StartSplit \/ Split \/ TakeChunk \/ AfterChunks
  BY <1>1, <1>4, StartSplitPending, SplitPending, TakeChunkPending, AfterChunksPending
<1>5. CASE Stopped \/ UNCHANGED vars
  BY <1>1, <1>5, StutterPending DEF Stopped
<1> QED  BY <1>2, <1>3, <1>4, <1>5 DEF Next, ScanStep

LEMMA InitPending == Init => PendingInv
<1> SUFFICES ASSUME Init PROVE PendingInv
  OBVIOUS
<1>1. /\ step = "idle" /\ decoder = NoBytes /\ last_scan_run_leftover = <<>>
      /\ last_window_leftover = <<>> /\ stream = <<>>
  BY DEF Init
<1>2. Pending = <<>>
  BY <1>1 DEF Pending
<1> QED  BY <1>1, <1>2, NoText DEF PendingInv

-----------------------------------------------------------------------------
(* How findings are added.                                                 *)

\* No finding is new; those of the collection may be forgotten.
FindingsKept ==
    /\ Len(Findings') \in Nat
    /\ \A i \in 1 .. Len(Findings') : i \in 1 .. Len(Findings) /\ Findings'[i] = Findings[i]

FindingAdded ==
    /\ TakeChunk
    /\ ~Chunk.s_is_to_be_filtered_again
    /\ Findings' = Append(Findings, NewFinding)

LEMMA FindingsTypes ==
  ASSUME IInv
  PROVE  /\ Findings \in Seq(FindingType) /\ Len(Findings) \in Nat
         /\ printed \in Seq(FindingType) /\ v \in Seq(FindingType)
BY DEF IInv, TypeOK, Findings

LEMMA SameFindings ==
  ASSUME IInv, Findings' = Findings
  PROVE  FindingsKept
BY FindingsTypes DEF FindingsKept

LEMMA FindingsStep ==
  ASSUME IInv, [Next]_vars
  PROVE  FindingsKept \/ FindingAdded
<1> USE DEF returned_vars, collection_vars
<1>1. /\ Findings = printed \o v /\ printed \in Seq(FindingType) /\ v \in Seq(FindingType)
      /\ Findings' = printed' \o v' /\ Findings \in Seq(FindingType)
  BY FindingsTypes DEF Findings
<1>2. CASE printed' = printed /\ v' = v
  BY <1>1, <1>2, SameFindings
<1>3. CASE Begin
  <2>1. printed' = printed /\ v' = v
    BY <1>3 DEF Begin
  <2> QED  BY <1>2, <2>1
<1>4. CASE OpenWindow \/ StartSplit \/ Split
  <2>1. printed' = printed /\ v' = v
    BY <1>4 DEF OpenWindow, StartSplit, Split
  <2> QED  BY <1>2, <2>1
<1>5. CASE EndSlice
  <2>1. printed' = printed \o v /\ v' = <<>>
    BY <1>5 DEF EndSlice
  <2>2. Findings' = (printed \o v) \o <<>>
    BY <1>1, <2>1
  <2>3. Findings' = Findings
    BY <1>1, <2>2
  <2> QED  BY <2>3, SameFindings
<1>6. CASE Decode
  <2>1. Decoding
    BY <1>6 DEF Decode, DecodeChar, CompleteChar, StartChar, ContinueChar, InputEmpty,
                Malformed, OutputFull
  <2>2. printed' = printed /\ v' = v
    BY <2>1 DEF Decoding
  <2> QED  BY <1>2, <2>2
<1>7. CASE TakeChunk
  <2>1. printed' = printed
    BY <1>7 DEF TakeChunk
  <2>2. CASE Chunk.s_is_to_be_filtered_again
    <3>1. v' = v
      BY <1>7, <2>2 DEF TakeChunk
    <3> QED  BY <1>2, <2>1, <3>1
  <2>3. CASE ~Chunk.s_is_to_be_filtered_again
    <3>1. v' = Append(v, NewFinding)
      BY <1>7, <2>3 DEF TakeChunk
    <3>2. NewFinding \in FindingType
      BY <1>7, NewFindingFacts DEF TakeChunk, IInv
    <3>3. Findings' = Append(Findings, NewFinding)
      BY <1>1, <2>1, <3>1, <3>2
    <3> QED  BY <1>7, <2>3, <3>3 DEF FindingAdded
  <2> QED  BY <2>2, <2>3
<1>8. CASE AfterChunks
  <2>1. printed' = printed /\ v' \in {v, <<>>}
    BY <1>8 DEF AfterChunks, IInv, TypeOK
  <2>2. CASE v' = v
    BY <1>2, <2>1, <2>2
  <2>3. CASE v' = <<>>
    <3>1. Findings' = printed
      BY <1>1, <2>1, <2>3
    <3>2. Len(Findings) = Len(printed) + Len(v) /\ Len(printed) \in Nat /\ Len(v) \in Nat
          /\ \A i \in 1 .. Len(printed) : Findings[i] = printed[i]
      BY <1>1
    <3> QED  BY <3>1, <3>2 DEF FindingsKept
  <2> QED  BY <2>1, <2>2, <2>3
<1>9. CASE Stopped \/ UNCHANGED vars
  <2>1. printed' = printed /\ v' = v
    BY <1>9 DEF Stopped, vars
  <2> QED  BY <1>2, <2>1
<1> QED  BY <1>3, <1>4, <1>5, <1>6, <1>7, <1>8, <1>9 DEF Next, ScanStep

-----------------------------------------------------------------------------
(* MIN and GREP.                                                           *)

IsFullFinding(f, grep) ==
    /\ Len(f.s) <= LineLen
    /\ ~f.s_completes_previous_s =>
          /\ Len(f.s) >= CharsMin
          /\ grep = {} \/ \E k \in 1 .. Len(f.s) : f.s[k].lead \in grep

MinGrepInv == \A i \in 1 .. Len(Findings) : IsFullFinding(Findings[i], filter_grep_char)

LEMMA NewFindingIsFull ==
  ASSUME Iter!GrepPasses, IInv, TakeChunk, ~Chunk.s_is_to_be_filtered_again
  PROVE  IsFullFinding(NewFinding, filter_grep_char)
<1> DEFINE f == NewFinding
<1>1. /\ TypeOK /\ SplitInv /\ step = "split" /\ pc = "returned"
  BY DEF IInv, TakeChunk
<1>2. /\ Len(f.s) = Chunk.nb
      /\ \A k \in 1 .. Chunk.nb : f.s[k] = text[Chunk.from + k - 1]
      /\ f.s_completes_previous_s = Chunk.s_completes_previous_s
  BY <1>1, NewFindingFacts
<1> HIDE DEF f
<1>3. /\ results # <<>> /\ Len(text) \in Nat
      /\ Chunk.from \in Nat /\ Chunk.from >= 1
      /\ Chunk.nb \in Nat /\ Chunk.nb >= 1 /\ Chunk.nb <= LineLen
      /\ Chunk.from + Chunk.nb <= Len(text) + 1
      /\ Chunk.s_completes_previous_s \in BOOLEAN
  BY <1>1, ChunkFacts
<1>4. /\ Iter!MinAndGrepObserved /\ results \in Seq(Iter!Result)
      /\ inp = Leads(text) /\ chars_min_nb = CharsMin /\ grep_char = filter_grep_char
  BY <1>1 DEF SplitInv, Iter!IteratorInv, Iter!ResultsInv, Iter!TypeOK
<1>5. Chunk = results[Len(results)] /\ Len(results) \in 1 .. Len(results)
  BY <1>3, <1>4 DEF Chunk
<1>6. ASSUME ~Chunk.s_completes_previous_s
      PROVE  /\ Chunk.nb >= CharsMin
             /\ \/ filter_grep_char = {}
                \/ \E i \in Iter!PlacesOf(Chunk) : inp[i] \in filter_grep_char
  BY <1>4, <1>5, <1>6 DEF Iter!MinAndGrepObserved, Iter!NoGrep
<1>7. ASSUME ~Chunk.s_completes_previous_s, filter_grep_char # {}
      PROVE  \E k \in 1 .. Len(f.s) : f.s[k].lead \in filter_grep_char
  <2>1. PICK i \in Iter!PlacesOf(Chunk) : inp[i] \in filter_grep_char
    BY <1>6, <1>7
  <2>2. i \in Chunk.from .. Chunk.from + Chunk.nb - 1
    BY DEF Iter!PlacesOf
  <2> DEFINE k == (i + 1) - Chunk.from
  <2>3. /\ k \in 1 .. Chunk.nb /\ Chunk.from + k - 1 = i /\ i \in 1 .. Len(text)
    BY <1>3, <2>2
  <2> HIDE DEF k
  <2>4. f.s[k].lead = inp[i]
    BY <1>2, <1>4, <2>3 DEF Leads
  <2> QED  BY <1>2, <2>1, <2>3, <2>4
<1> QED  BY <1>2, <1>3, <1>6, <1>7 DEF IsFullFinding, f

LEMMA GrepCharStays ==
  ASSUME [Next]_vars
  PROVE  filter_grep_char' = filter_grep_char
BY DEF Next, ScanStep, Stopped, Begin, Called, OpenWindow, EndSlice, Decode, DecodeChar,
       CompleteChar, StartChar, ContinueChar, InputEmpty, Malformed, OutputFull, Decoding,
       StartSplit, Split, TakeChunk, AfterChunks, vars, param_vars

\* A finding printed on its own has MIN characters and the grep character, even one
\* put together from the leftovers of several slices; none is longer than a line.
\* (Where the grep character passes the filter of the mission.)
THEOREM MinAndGrepAreKept ==
  ASSUME Iter!GrepPasses
  PROVE  Spec => []FindingsSatisfyMinAndGrep
<1>1. Init => MinGrepInv
  <2>1. Init => Len(Findings) = 0
    BY DEF Init, Findings
  <2> QED  BY <2>1 DEF MinGrepInv
<1>2. IInv /\ MinGrepInv /\ [Next]_vars => MinGrepInv'
  <2> SUFFICES ASSUME IInv, MinGrepInv, [Next]_vars PROVE MinGrepInv'
    OBVIOUS
  <2>1. filter_grep_char' = filter_grep_char
    BY GrepCharStays
  <2>2. CASE FindingsKept
    BY <2>1, <2>2 DEF FindingsKept, MinGrepInv, IsFullFinding
  <2>3. CASE FindingAdded
    <3> DEFINE n == Len(Findings)
    <3>1. n \in Nat /\ Len(Findings') = n + 1 /\ Findings'[n + 1] = NewFinding
          /\ \A i \in 1 .. n : Findings'[i] = Findings[i]
      BY <2>3, FindingsTypes DEF FindingAdded
    <3>2. IsFullFinding(NewFinding, filter_grep_char)
      BY <2>3, NewFindingIsFull DEF FindingAdded
    <3>3. \A i \in 1 .. n : IsFullFinding(Findings[i], filter_grep_char)
      BY DEF MinGrepInv
    <3> DEFINE g == Findings'
    <3> HIDE DEF n, g
    <3>4. \A i \in 1 .. n + 1 : IsFullFinding(g[i], filter_grep_char)
      <4> SUFFICES ASSUME NEW i \in 1 .. n + 1 PROVE IsFullFinding(g[i], filter_grep_char)
        OBVIOUS
      <4>1. i \in 1 .. n \/ i = n + 1
        BY <3>1
      <4>2. g[i] = IF i = n + 1 THEN NewFinding ELSE Findings[i]
        BY <3>1, <4>1 DEF g
      <4> HIDE DEF IsFullFinding
      <4> QED  BY <3>2, <3>3, <4>1, <4>2
    <3> QED  BY <2>1, <3>1, <3>4 DEF MinGrepInv, IsFullFinding, g
  <2> QED  BY <2>2, <2>3, FindingsStep
<1>3. IInv /\ MinGrepInv => FindingsSatisfyMinAndGrep
  BY DEF MinGrepInv, IsFullFinding, FindingsSatisfyMinAndGrep, NoGrep
<1> QED  BY <1>1, <1>2, <1>3, InductiveInvariant, PTL DEF Spec

-----------------------------------------------------------------------------
(* Findings are pieces of the stream, in its order.                        *)

\* What NewFinding adds to the facts about its chunk.
LEMMA NewFindingPlace ==
  ASSUME IInv, PendingInv, step = "split", pc = "returned"
  PROVE  /\ IsStreamText(NewFinding)
         /\ StartOf(NewFinding) = text[Chunk.from].at
         /\ StopOf(NewFinding) = text[Chunk.from + Chunk.nb - 1].end
         /\ Chunk.from \in 1 .. Len(text) /\ Chunk.from + Chunk.nb - 1 \in 1 .. Len(text)
<1> DEFINE m == Chunk.from
           n == Chunk.from + Chunk.nb - 1
<1>1. /\ Len(text) \in Nat /\ Chunk.from \in Nat /\ Chunk.from >= 1
      /\ Chunk.nb \in Nat /\ Chunk.nb >= 1 /\ Chunk.from + Chunk.nb <= Len(text) + 1
      /\ \A k \in m .. n : SP!PassesFilter(text[k].lead)
  BY ChunkFacts DEF IInv
<1>2. m \in 1 .. Len(text) /\ n \in m .. Len(text) /\ n \in 1 .. Len(text)
  BY <1>1
<1>3. Pending = text /\ text \in Seq(Char)
  BY PendingTypes DEF Pending
<1>4. NewFinding.s = SubSeq(text, m, n)
  BY NewFindingFacts DEF IInv
<1> HIDE DEF m, n
<1>5. /\ Contiguous(NewFinding.s) /\ NewFinding.s # <<>>
      /\ NewFinding.s[1] = text[m] /\ NewFinding.s[Len(NewFinding.s)] = text[n]
      /\ \A k \in 1 .. Len(NewFinding.s) :
            NewFinding.s[k] = text[m + k - 1] /\ m + k - 1 \in m .. n
  <2>1. InOrder(text) /\ Contiguous(text)
    BY <1>3 DEF PendingInv
  <2> DEFINE u == SubSeq(text, m, n)
  <2>2. /\ Contiguous(u) /\ u # <<>>
        /\ u[1] = text[m] /\ u[Len(u)] = text[n]
        /\ \A k \in 1 .. Len(u) : u[k] = text[m + k - 1] /\ m + k - 1 \in m .. n
    BY <1>2, <1>3, <2>1, OrderedPart
  <2> HIDE DEF u
  <2>3. NewFinding.s = u
    BY <1>4 DEF u
  <2> QED  BY <2>2, <2>3
<1>6. IsStreamText(NewFinding)
  BY <1>1, <1>5 DEF IsStreamText
<1> QED  BY <1>2, <1>5, <1>6 DEF StartOf, StopOf, m, n

\* The place where a finding ends is a number.
LEMMA StopTypes ==
  ASSUME NEW f \in FindingType, f.s # <<>>
  PROVE  StopOf(f) \in Nat /\ StartOf(f) \in Nat
<1>1. f.s \in Seq(Char)
  BY TextTypes DEF FindingType
<1>2. f.s[1] \in Char /\ f.s[Len(f.s)] \in Char
  BY <1>1
<1> QED  BY <1>2 DEF StopOf, StartOf, Char

LEMMA FindingsStopTypes ==
  ASSUME IInv, BehindFindingsInv
  PROVE  \A i \in 1 .. Len(Findings) : StopOf(Findings[i]) \in Nat /\ StartOf(Findings[i]) \in Nat
<1> SUFFICES ASSUME NEW i \in 1 .. Len(Findings)
             PROVE  StopOf(Findings[i]) \in Nat /\ StartOf(Findings[i]) \in Nat
  OBVIOUS
<1>1. Findings[i] \in FindingType /\ Findings[i].s # <<>>
  BY FindingsTypes DEF BehindFindingsInv, IsStreamText
<1> QED  BY <1>1, StopTypes

\* The results of the iterator, in the order of the text.
LEMMA ResultsOrder ==
  ASSUME IInv
  PROVE  /\ results \in Seq(Iter!Result) /\ Len(results) \in Nat
         /\ \A k \in 1 .. Len(results) : /\ results[k].from \in Nat /\ results[k].nb \in Nat
                                         /\ results[k].nb >= 1
         /\ \A k \in 1 .. Len(results) - 1 :
               results[k].from + results[k].nb <= results[k + 1].from
<1>1. results \in Seq(Iter!Result) /\ Iter!ResultsAreStrings
  BY DEF IInv, SplitInv, Iter!IteratorInv, Iter!TypeOK, Iter!ResultsInv
<1>2. \A k \in 1 .. Len(results) : results[k] \in Iter!Result
  BY <1>1
<1>3. \A k \in 1 .. Len(results) : /\ results[k].from \in Nat /\ results[k].nb \in Nat
                                   /\ results[k].nb >= 1
  BY <1>2 DEF Iter!Result
<1> QED  BY <1>1, <1>3 DEF Iter!ResultsAreStrings, Iter!EndOf

LEMMA SplitTaken ==
  ASSUME IInv, Split
  PROVE  Taken' = Taken /\ \A k \in 1 .. Taken : results'[k] = results[k]
<1>1. results \in Seq(Iter!Result) /\ Len(results) \in Nat
  BY ResultsOrder
<1>2. CASE results' = results /\ pc' # "returned" /\ pc # "returned"
  BY <1>2 DEF Taken
<1>3. CASE SP!Return
  <2>1. /\ pc # "returned" /\ pc' = "returned"
        /\ \E r : results' = Append(results, r)
    BY <1>3 DEF SP!Return, SP!LoopLeft
  <2>2. PICK r : results' = Append(results, r)
    BY <2>1
  <2>3. Len(results') = Len(results) + 1
        /\ \A k \in 1 .. Len(results) : results'[k] = results[k]
    BY <1>1, <2>2
  <2> QED  BY <1>1, <2>1, <2>3 DEF Taken
<1>4. ASSUME SP!Accept \/ SP!Restart \/ SP!Break \/ SP!Exhaust
      PROVE  results' = results /\ pc' # "returned" /\ pc # "returned"
  BY <1>4 DEF SP!Accept, SP!Restart, SP!Break, SP!Exhaust, SP!InLoop, SP!LoopLeft
<1> QED  BY <1>2, <1>3, <1>4 DEF Split, SP!NextStep

\* As long as no finding is added, and nothing is pending that was not.
LEMMA FindingsFrame ==
  ASSUME IInv, PendingInv, BehindFindingsInv, FindingsKept, NextPos' \in Nat,
         NextPos <= NextPos'
  PROVE  /\ \A i \in 1 .. Len(Findings') :
               /\ i \in 1 .. Len(Findings) /\ Findings'[i] = Findings[i]
               /\ StopOf(Findings'[i]) = StopOf(Findings[i])
               /\ IsStreamText(Findings'[i]) /\ StopOf(Findings'[i]) <= NextPos'
         /\ FindingsInStreamOrder'
<1>1. \A i \in 1 .. Len(Findings') : i \in 1 .. Len(Findings) /\ Findings'[i] = Findings[i]
  BY DEF FindingsKept
<1>2. \A i \in 1 .. Len(Findings) :
         /\ IsStreamText(Findings[i]) /\ StopOf(Findings[i]) <= NextPos
         /\ StopOf(Findings[i]) \in Nat
  BY FindingsStopTypes DEF BehindFindingsInv
<1>3. NextPos \in Nat
  BY PendingTypes
<1>4. \A i \in 1 .. Len(Findings) : StopOf(Findings[i]) <= NextPos'
  BY <1>2, <1>3
<1>5. FindingsInStreamOrder'
  <2> DEFINE g == Findings'
  <2>1. Len(g) \in Nat
    BY DEF FindingsKept
  <2> HIDE DEF g
  <2>2. ASSUME NEW i \in 1 .. Len(g) - 1 PROVE StopOf(g[i]) <= StartOf(g[i + 1])
    <3>1. i \in 1 .. Len(g) /\ i + 1 \in 1 .. Len(g)
      BY <2>1
    <3>2. i \in 1 .. Len(Findings) /\ i + 1 \in 1 .. Len(Findings)
          /\ g[i] = Findings[i] /\ g[i + 1] = Findings[i + 1]
      BY <1>1, <3>1 DEF g
    <3>3. i \in 1 .. Len(Findings) - 1
      BY <3>2, FindingsTypes
    <3> QED  BY <3>2, <3>3 DEF BehindFindingsInv, FindingsInStreamOrder
  <2> QED  BY <2>2 DEF FindingsInStreamOrder, StopOf, StartOf, g
<1> QED  BY <1>1, <1>2, <1>4, <1>5

LEMMA BehindFrame ==
  ASSUME IInv, PendingInv, BehindFindingsInv, FindingsKept, NextPos' \in Nat,
         NextPos <= NextPos',
         step' # "split", step # "split",
         \/ Pending' = Pending
         \/ \E char \in Char : Pending' = Append(Pending, char) /\ char.at = NextPos
  PROVE  BehindFindingsInv'
<1>1. /\ \A i \in 1 .. Len(Findings') :
            /\ i \in 1 .. Len(Findings) /\ Findings'[i] = Findings[i]
            /\ StopOf(Findings'[i]) = StopOf(Findings[i])
            /\ IsStreamText(Findings'[i]) /\ StopOf(Findings'[i]) <= NextPos'
      /\ FindingsInStreamOrder'
  BY FindingsFrame
<1>2. \A i \in 1 .. Len(Findings), k \in 1 .. Len(Pending) : StopOf(Findings[i]) <= Pending[k].at
  BY DEF BehindFindingsInv
<1>3. \A i \in 1 .. Len(Findings) : StopOf(Findings[i]) <= NextPos
  BY DEF BehindFindingsInv
<1>4. ASSUME NEW i \in 1 .. Len(Findings), NEW k \in 1 .. Len(Pending')
      PROVE  StopOf(Findings[i]) <= Pending'[k].at
  <2>1. CASE Pending' = Pending
    BY <1>2, <1>4, <2>1
  <2>2. ASSUME NEW char \in Char, Pending' = Append(Pending, char), char.at = NextPos
        PROVE  StopOf(Findings[i]) <= Pending'[k].at
    <3>1. Pending \in Seq(Char) /\ Len(Pending) \in Nat
      BY PendingTypes
    <3>2. k \in 1 .. Len(Pending) \/ k = Len(Pending) + 1
      BY <1>4, <2>2, <3>1
    <3>3. Pending'[k] = IF k = Len(Pending) + 1 THEN char ELSE Pending[k]
      BY <2>2, <3>1, <3>2
    <3> QED  BY <1>2, <1>3, <2>2, <3>1, <3>2, <3>3
  <2> QED  BY <2>1, <2>2
<1>5. \A i \in 1 .. Len(Findings'), k \in 1 .. Len(Pending') :
         StopOf(Findings'[i]) <= Pending'[k].at
  BY <1>1, <1>4
<1> QED  BY <1>1, <1>5 DEF BehindFindingsInv, IsStreamText, StopOf

LEMMA StartSplitBehind ==
  ASSUME IInv, PendingInv, BehindFindingsInv, StartSplit
  PROVE  BehindFindingsInv'
<1>1. Pending' = Pending /\ NextPos' = NextPos /\ NextPos' \in Nat /\ NextPos <= NextPos'
  BY StartSplitPending, PendingTypes
<1>2. /\ step = "decoded" /\ step' \in {"split", "panicked"}
      /\ v' = v /\ printed' = printed
      /\ step' = "split" => /\ last_window_leftover' = <<>> /\ results' = <<>> /\ pc' = "loop"
  BY DEF StartSplit, collection_vars, returned_vars, SP!New
<1>3. FindingsKept
  BY <1>2, SameFindings DEF Findings
<1>4. CASE step' = "panicked"
  BY <1>1, <1>2, <1>3, <1>4, BehindFrame
<1>5. CASE step' = "split"
  <2>1. /\ \A i \in 1 .. Len(Findings') :
              /\ i \in 1 .. Len(Findings) /\ Findings'[i] = Findings[i]
              /\ StopOf(Findings'[i]) = StopOf(Findings[i])
              /\ IsStreamText(Findings'[i]) /\ StopOf(Findings'[i]) <= NextPos'
        /\ FindingsInStreamOrder'
    BY <1>1, <1>3, FindingsFrame
  <2>2. Pending' = text' /\ Len(last_window_leftover') = 0
    BY <1>2, <1>5 DEF Pending
  <2>3. \A i \in 1 .. Len(Findings), k \in 1 .. Len(Pending) :
           StopOf(Findings[i]) <= Pending[k].at
    BY <1>2 DEF BehindFindingsInv
  <2>4. \A i \in 1 .. Len(Findings'), k \in 1 .. Len(text') : StopOf(Findings'[i]) <= text'[k].at
    BY <1>1, <2>1, <2>2, <2>3
  <2> QED  BY <1>5, <2>1, <2>2, <2>4 DEF BehindFindingsInv, IsStreamText, StopOf
<1> QED  BY <1>2, <1>4, <1>5

LEMMA SplitBehind ==
  ASSUME IInv, PendingInv, BehindFindingsInv, Split
  PROVE  BehindFindingsInv'
<1>1. NextPos' = NextPos /\ NextPos' \in Nat /\ NextPos <= NextPos'
  BY SplitPending, PendingTypes
<1>2. /\ step = "split" /\ step' = step /\ v' = v /\ printed' = printed
      /\ text' = text /\ last_window_leftover' = last_window_leftover
  BY DEF Split, collection_vars, returned_vars
<1>3. FindingsKept
  BY <1>2, SameFindings DEF Findings
<1>4. /\ \A i \in 1 .. Len(Findings') :
            /\ i \in 1 .. Len(Findings) /\ Findings'[i] = Findings[i]
            /\ StopOf(Findings'[i]) = StopOf(Findings[i])
            /\ IsStreamText(Findings'[i]) /\ StopOf(Findings'[i]) <= NextPos'
      /\ FindingsInStreamOrder'
  BY <1>1, <1>3, FindingsFrame
<1>5. Taken' = Taken /\ Taken \in Nat /\ (Taken # 0 => results'[Taken] = results[Taken])
  <2>1. Taken \in Nat
    <3>1. pc = "returned" => results # <<>>
      BY DEF IInv, SplitInv, Iter!IteratorInv, Iter!PlaceInv
    <3>2. pc = "returned" => Len(results) >= 1
      BY <3>1, ResultsOrder
    <3> QED  BY <3>2, ResultsOrder DEF Taken
  <2>2. Taken # 0 => Taken \in 1 .. Taken
    BY <2>1
  <2> QED  BY <2>1, <2>2, SplitTaken
<1>6. \A i \in 1 .. Len(Findings), k \in 1 .. Len(text) :
         (Taken = 0 \/ results[Taken].from + results[Taken].nb <= k) =>
             StopOf(Findings[i]) <= text[k].at
  BY <1>2 DEF BehindFindingsInv
<1>7. \A i \in 1 .. Len(Findings), k \in 1 .. Len(last_window_leftover) :
         StopOf(Findings[i]) <= last_window_leftover[k].at
  BY <1>2 DEF BehindFindingsInv
<1>8. \A i \in 1 .. Len(Findings'), k \in 1 .. Len(text') :
         (Taken' = 0 \/ results'[Taken'].from + results'[Taken'].nb <= k) =>
             StopOf(Findings'[i]) <= text'[k].at
  BY <1>2, <1>4, <1>5, <1>6
<1>9. \A i \in 1 .. Len(Findings'), k \in 1 .. Len(last_window_leftover') :
         StopOf(Findings'[i]) <= last_window_leftover'[k].at
  BY <1>2, <1>4, <1>7
<1> QED  BY <1>2, <1>4, <1>8, <1>9 DEF BehindFindingsInv, IsStreamText, StopOf

LEMMA AfterChunksBehind ==
  ASSUME IInv, PendingInv, BehindFindingsInv, AfterChunks, FindingsKept
  PROVE  BehindFindingsInv'
<1>1. /\ NextPos' = NextPos /\ NextPos' \in Nat /\ NextPos <= NextPos'
      /\ Pending' = last_window_leftover /\ step' # "split" /\ step = "split"
  <2>1. step = "split"
    BY DEF AfterChunks
  <2> QED  BY <2>1, AfterChunksPending, PendingTypes
<1>2. /\ \A i \in 1 .. Len(Findings') :
            /\ i \in 1 .. Len(Findings) /\ Findings'[i] = Findings[i]
            /\ StopOf(Findings'[i]) = StopOf(Findings[i])
            /\ IsStreamText(Findings'[i]) /\ StopOf(Findings'[i]) <= NextPos'
      /\ FindingsInStreamOrder'
  BY <1>1, FindingsFrame
<1>3. \A i \in 1 .. Len(Findings), k \in 1 .. Len(last_window_leftover) :
         StopOf(Findings[i]) <= last_window_leftover[k].at
  BY <1>1 DEF BehindFindingsInv
<1>4. \A i \in 1 .. Len(Findings'), k \in 1 .. Len(Pending') :
         StopOf(Findings'[i]) <= Pending'[k].at
  BY <1>1, <1>2, <1>3
<1> QED  BY <1>1, <1>2, <1>4 DEF BehindFindingsInv, IsStreamText, StopOf

LEMMA TakeChunkBehind ==
  ASSUME IInv, PendingInv, BehindFindingsInv, TakeChunk, FindingsKept \/ FindingAdded,
         Chunk.s_is_to_be_filtered_again => FindingsKept
  PROVE  BehindFindingsInv'
<1> DEFINE n == Len(results)
           Bound(i, k) == StopOf(Findings[i]) <= text[k].at
<1>1. /\ step = "split" /\ step' = step /\ pc = "returned" /\ pc' = "loop"
      /\ UNCHANGED <<text, results>>
      /\ IF ~Chunk.s_is_to_be_filtered_again
         THEN last_window_leftover' = <<>>
         ELSE last_window_leftover' = SubSeq(text, Len(text) + 1 - Chunk.nb, Len(text))
  BY DEF TakeChunk, SP!CallNext
<1>2. NextPos' = NextPos /\ NextPos' \in Nat /\ NextPos <= NextPos'
  BY TakeChunkPending, PendingTypes
<1>3. /\ results # <<>> /\ Len(text) \in Nat /\ Chunk.from \in Nat /\ Chunk.from >= 1
      /\ Chunk.nb \in Nat /\ Chunk.nb >= 1 /\ Chunk.from + Chunk.nb <= Len(text) + 1
  BY <1>1, ChunkFacts DEF IInv
<1>4. /\ n \in Nat /\ n >= 1 /\ Chunk = results[n] /\ Taken = n - 1 /\ Taken' = n
      /\ n - 1 \in Nat /\ (n - 1) + 1 = n
      /\ n - 1 # 0 => /\ results[n - 1].from + results[n - 1].nb <= Chunk.from
                      /\ results[n - 1].from + results[n - 1].nb \in Nat
  <2>1. n \in Nat /\ n >= 1
    BY <1>3, ResultsOrder
  <2>2. Chunk = results[n] /\ Taken = n - 1 /\ Taken' = n
    BY <1>1 DEF Chunk, Taken
  <2>3. /\ n - 1 \in Nat /\ (n - 1) + 1 = n /\ n \in 1 .. n
        /\ n - 1 # 0 => n - 1 \in 1 .. n - 1 /\ n - 1 \in 1 .. n
    <3> HIDE DEF n
    <3> QED  BY <2>1
  <2>4. \A m \in 1 .. n - 1 : results[m].from + results[m].nb <= results[m + 1].from
    BY ResultsOrder
  <2>5. \A m \in 1 .. n : results[m].from \in Nat /\ results[m].nb \in Nat
    BY ResultsOrder
  <2>6. ASSUME n - 1 # 0
        PROVE  /\ results[n - 1].from + results[n - 1].nb <= Chunk.from
               /\ results[n - 1].from + results[n - 1].nb \in Nat
    <3>1. results[n - 1].from + results[n - 1].nb <= results[(n - 1) + 1].from
      BY <2>3, <2>4, <2>6
    <3>2. results[n - 1].from \in Nat /\ results[n - 1].nb \in Nat
      BY <2>3, <2>5, <2>6
    <3> QED  BY <2>2, <2>3, <3>1, <3>2
  <2> QED  BY <2>1, <2>2, <2>3, <2>6
<1>5. /\ \A i \in 1 .. Len(Findings) : StopOf(Findings[i]) \in Nat
      /\ \A k \in 1 .. Len(text) : text[k].at \in Nat /\ text[k].end \in Nat
      /\ InOrder(text) /\ \A k \in 1 .. Len(text) : text[k].end <= NextPos
  <2>1. Pending = text
    BY <1>1 DEF Pending
  <2> QED  BY <2>1, FindingsStopTypes, PendingTypes DEF PendingInv
<1>6. \A i \in 1 .. Len(Findings), k \in 1 .. Len(text) :
         (Taken = 0 \/ results[Taken].from + results[Taken].nb <= k) => Bound(i, k)
  BY <1>1 DEF BehindFindingsInv
<1> HIDE DEF n, Bound
<1>7. \A i \in 1 .. Len(Findings), k \in 1 .. Len(text) : Chunk.from <= k => Bound(i, k)
  <2> SUFFICES ASSUME NEW i \in 1 .. Len(Findings), NEW k \in 1 .. Len(text), Chunk.from <= k
               PROVE  Bound(i, k)
    OBVIOUS
  <2>1. n - 1 # 0 => results[n - 1].from + results[n - 1].nb <= k
    BY <1>3, <1>4
  <2> QED  BY <1>4, <1>6, <2>1
<1>8. \A k \in 1 .. Len(text) :
         (Taken' = 0 \/ results'[Taken'].from + results'[Taken'].nb <= k) =>
             Chunk.from + Chunk.nb <= k /\ Chunk.from <= k
  BY <1>1, <1>3, <1>4
<1>9. CASE FindingsKept
  <2>1. /\ \A i \in 1 .. Len(Findings') :
              /\ i \in 1 .. Len(Findings) /\ Findings'[i] = Findings[i]
              /\ StopOf(Findings'[i]) = StopOf(Findings[i])
              /\ IsStreamText(Findings'[i]) /\ StopOf(Findings'[i]) <= NextPos'
        /\ FindingsInStreamOrder'
    BY <1>2, <1>9, FindingsFrame
  <2>2. \A i \in 1 .. Len(Findings'), k \in 1 .. Len(text') :
           (Taken' = 0 \/ results'[Taken'].from + results'[Taken'].nb <= k) =>
               StopOf(Findings'[i]) <= text'[k].at
    BY <1>1, <1>7, <1>8, <2>1 DEF Bound
  <2>3. \A i \in 1 .. Len(Findings'), k \in 1 .. Len(last_window_leftover') :
           StopOf(Findings'[i]) <= last_window_leftover'[k].at
    <3>1. CASE ~Chunk.s_is_to_be_filtered_again
      <4>1. Len(last_window_leftover') = 0
        BY <1>1, <3>1
      <4> QED  BY <4>1
    <3>2. CASE Chunk.s_is_to_be_filtered_again
      <4> DEFINE m == Chunk.from
                 kept == SubSeq(text, m, Len(text))
      <4>1. last_window_leftover' = kept
        BY <1>1, <3>2, NewLeftover DEF IInv
      <4>2. /\ text \in Seq(Char) /\ m \in 1 .. Len(text)
            /\ Len(text) \in m .. Len(text)
        <5>1. text \in Seq(Char)
          BY TextTypes DEF IInv, TypeOK
        <5>2. m \in 1 .. Len(text) /\ Len(text) \in m .. Len(text)
          BY <1>3
        <5> QED  BY <5>1, <5>2
      <4>3. \A k \in 1 .. Len(kept) : kept[k] = text[m + k - 1] /\ m + k - 1 \in m .. Len(text)
        <5>1. Contiguous(text)
          BY <1>1 DEF PendingInv, Pending
        <5> HIDE DEF m
        <5> QED  BY <1>5, <4>2, <5>1, OrderedPart
      <4>4. \A j \in m .. Len(text) : j \in 1 .. Len(text) /\ m <= j
        BY <1>3
      <4> HIDE DEF m, kept
      <4>5. ASSUME NEW i \in 1 .. Len(Findings), NEW k \in 1 .. Len(kept)
            PROVE  StopOf(Findings[i]) <= kept[k].at
        <5>1. kept[k] = text[m + k - 1] /\ m + k - 1 \in 1 .. Len(text) /\ m <= m + k - 1
          BY <4>3, <4>4, <4>5
        <5>2. Bound(i, m + k - 1)
          BY <1>7, <5>1 DEF m
        <5> QED  BY <5>1, <5>2 DEF Bound
      <4> QED  BY <2>1, <4>1, <4>5
    <3> QED  BY <3>1, <3>2
  <2> QED  BY <1>1, <2>1, <2>2, <2>3 DEF BehindFindingsInv, IsStreamText, StopOf
<1>10. CASE FindingAdded
  <2> DEFINE g == Findings'
             f == NewFinding
             len == Len(Findings)
             stop == Chunk.from + Chunk.nb - 1
  <2>1. /\ IsStreamText(f) /\ StartOf(f) = text[Chunk.from].at /\ StopOf(f) = text[stop].end
        /\ Chunk.from \in 1 .. Len(text) /\ stop \in 1 .. Len(text)
    BY <1>1, NewFindingPlace
  <2>2. /\ len \in Nat /\ Len(g) = len + 1 /\ g[len + 1] = f
        /\ \A i \in 1 .. len : g[i] = Findings[i]
    BY <1>10, FindingsTypes DEF FindingAdded
  <2>3. Len(last_window_leftover') = 0
    BY <1>1, <1>10 DEF FindingAdded
  <2>4. /\ \A i \in 1 .. len : IsStreamText(Findings[i]) /\ StopOf(Findings[i]) <= NextPos
        /\ \A i \in 1 .. len - 1 : StopOf(Findings[i]) <= StartOf(Findings[i + 1])
    BY DEF BehindFindingsInv, FindingsInStreamOrder
  <2> HIDE DEF g, f, len
  <2>5. ASSUME NEW i \in 1 .. len + 1
        PROVE  IsStreamText(g[i]) /\ StopOf(g[i]) <= NextPos'
    <3>1. CASE i = len + 1
      BY <1>2, <1>5, <2>1, <2>2, <3>1
    <3>2. CASE i \in 1 .. len
      BY <1>2, <2>2, <2>4, <3>2
    <3> QED  BY <2>2, <3>1, <3>2
  <2>6. ASSUME NEW i \in 1 .. len PROVE StopOf(g[i]) <= StartOf(g[i + 1])
    <3>1. CASE i = len
      <4>1. Bound(i, Chunk.from)
        BY <1>3, <1>7, <2>1 DEF len
      <4> QED  BY <2>1, <2>2, <3>1, <4>1 DEF Bound
    <3>2. CASE i \in 1 .. len - 1
      <4>1. i + 1 \in 1 .. len
        BY <2>2, <3>2
      <4> QED  BY <2>2, <2>4, <3>2, <4>1
    <3> QED  BY <2>2, <3>1, <3>2
  <2>7. ASSUME NEW i \in 1 .. len + 1, NEW k \in 1 .. Len(text),
               Chunk.from + Chunk.nb <= k, Chunk.from <= k
        PROVE  StopOf(g[i]) <= text[k].at
    <3>1. CASE i = len + 1
      <4>1. stop < k
        BY <1>3, <2>7
      <4>2. text[stop].end <= text[k].at
        BY <1>5, <2>1, <4>1 DEF InOrder
      <4> QED  BY <2>1, <2>2, <3>1, <4>2
    <3>2. CASE i \in 1 .. len
      <4>1. Bound(i, k)
        BY <1>7, <2>7, <3>2 DEF len
      <4> QED  BY <2>2, <3>2, <4>1 DEF Bound
    <3> QED  BY <2>2, <3>1, <3>2
  <2>8. \A i \in 1 .. Len(g), k \in 1 .. Len(text') :
           (Taken' = 0 \/ results'[Taken'].from + results'[Taken'].nb <= k) =>
               StopOf(g[i]) <= text'[k].at
    BY <1>1, <1>8, <2>2, <2>7
  <2>9. FindingsInStreamOrder'
    <3>1. Len(g) - 1 = len
      BY <2>2
    <3> QED  BY <2>6, <3>1 DEF FindingsInStreamOrder, StopOf, StartOf, g
  <2> QED  BY <1>1, <2>2, <2>3, <2>5, <2>8, <2>9 DEF BehindFindingsInv, IsStreamText, StopOf, g
<1> QED  BY <1>9, <1>10

LEMMA NextPosType ==
  ASSUME TypeOK'
  PROVE  NextPos' \in Nat
<1>1. decoder' \in [lead : SP!LeadingBytes, at : Nat, left : Nat]
  BY DEF TypeOK
<1>2. consumed_bytes' \in 0 .. MaxBytes /\ decoder_read' \in 0 .. slice_len'
  BY DEF TypeOK
<1>3. consumed_bytes' \in Nat /\ decoder_read' \in Nat
  BY <1>2
<1>4. \A m, n \in Nat : m + n \in Nat
  OBVIOUS
<1>5. StreamEnd' \in Nat
  BY <1>3, <1>4 DEF StreamEnd, StreamPos
<1>6. decoder'.at \in Nat
  BY <1>1
<1> QED  BY <1>5, <1>6 DEF NextPos

LEMMA NextKeepsBehind ==
  ASSUME IInv, PendingInv, BehindFindingsInv, [Next]_vars
  PROVE  BehindFindingsInv'
<1>1. FindingsKept \/ FindingAdded
  BY FindingsStep
<1>2. NextPos' \in Nat /\ NextPos <= NextPos'
  <2>1. IInv' /\ PendingInv' /\ NextPos <= NextPos'
    BY NextKeepsIInv, NextKeepsPending
  <2>2. TypeOK'
    BY <2>1 DEF IInv
  <2> QED  BY <2>1, <2>2, NextPosType
<1>3. ~TakeChunk => FindingsKept
  BY <1>1 DEF FindingAdded
<1>4. CASE Begin \/ OpenWindow \/ EndSlice
  <2>1. ~TakeChunk /\ step # "split" /\ step' # "split"
    BY <1>4 DEF Begin, OpenWindow, EndSlice, TakeChunk
  <2>2. Pending' = Pending
    BY <1>4, BeginPending, OpenWindowPending, EndSlicePending
  <2> QED  BY <1>2, <1>3, <2>1, <2>2, BehindFrame
<1>5. CASE Decode
  <2>1. step = "decode" /\ step' \in {step, "decoded"}
    BY <1>5 DEF Decode, DecodeChar, CompleteChar, StartChar, ContinueChar, InputEmpty,
                Malformed, OutputFull, Write, EndCall, Decoding
  <2>2. ~TakeChunk
    BY <2>1 DEF TakeChunk
  <2> QED  BY <1>2, <1>3, <1>5, <2>1, <2>2, DecodePending, BehindFrame
<1>6. CASE StartSplit
  BY <1>6, StartSplitBehind
<1>7. CASE Split
  BY <1>7, SplitBehind
<1>8. CASE TakeChunk
  <2>1. Chunk.s_is_to_be_filtered_again => FindingsKept
    BY <1>1 DEF FindingAdded
  <2> QED  BY <1>1, <1>8, <2>1, TakeChunkBehind
<1>9. CASE AfterChunks
  <2>1. ~TakeChunk
    BY <1>9 DEF AfterChunks, TakeChunk
  <2> QED  BY <1>3, <1>9, <2>1, AfterChunksBehind
<1>10. CASE Stopped \/ UNCHANGED vars
  <2>1. UNCHANGED vars
    BY <1>10 DEF Stopped
  <2>2. UNCHANGED <<printed, v, step, text, last_window_leftover, results, pc>>
        /\ NextPos' = NextPos /\ Pending' = Pending
    BY <2>1, StutterPending
       DEF vars, returned_vars, collection_vars, split_vars
  <2>3. Findings' = Findings /\ Taken' = Taken
    BY <2>2 DEF Findings, Taken
  <2> QED  BY <2>2, <2>3 DEF BehindFindingsInv, FindingsInStreamOrder
<1> QED  BY <1>4, <1>5, <1>6, <1>7, <1>8, <1>9, <1>10 DEF Next, ScanStep

StreamInv == IInv /\ PendingInv /\ BehindFindingsInv

LEMMA StreamInvariant == Spec => []StreamInv
<1>1. Init => StreamInv
  <2> SUFFICES ASSUME Init PROVE BehindFindingsInv
    BY InitIInv, InitPending DEF StreamInv
  <2>1. Findings = <<>> /\ step = "idle"
    BY DEF Init, Findings
  <2> QED  BY <2>1 DEF BehindFindingsInv, FindingsInStreamOrder
<1>2. StreamInv /\ [Next]_vars => StreamInv'
  BY NextKeepsIInv, NextKeepsPending, NextKeepsBehind DEF StreamInv
<1> QED  BY <1>1, <1>2, PTL DEF Spec

\* A finding, whatever leftovers it was put together from, is a piece of the stream
\* without a gap, and all of it passes the filter; the leftover is such a piece as
\* well, and the last one that was decoded.
THEOREM FindingsAreText == Spec => []FindingsAreStreamText
<1>1. StreamInv => FindingsAreStreamText
  <2> SUFFICES ASSUME StreamInv PROVE FindingsAreStreamText
    OBVIOUS
  <2>1. \A i \in 1 .. Len(Findings) :
           /\ Findings[i].s # <<>>
           /\ Contiguous(Findings[i].s)
           /\ \A k \in 1 .. Len(Findings[i].s) : SP!PassesFilter(Findings[i].s[k].lead)
    BY DEF StreamInv, BehindFindingsInv, IsStreamText
  <2>2. Contiguous(last_window_leftover)
    BY DEF StreamInv, PendingInv
  <2>3. ASSUME step = "idle", last_scan_run_leftover # <<>>
        PROVE  /\ Contiguous(last_scan_run_leftover)
               /\ last_scan_run_leftover[Len(last_scan_run_leftover)] = stream[Len(stream)]
    <3>1. Pending = last_scan_run_leftover
      BY <2>3 DEF Pending
    <3> QED  BY <2>3, <3>1 DEF StreamInv, PendingInv
  <2> QED  BY <2>1, <2>2, <2>3 DEF FindingsAreStreamText
<1> QED  BY <1>1, StreamInvariant, PTL

\* No byte of the stream is printed twice, and findings come in its order.
THEOREM FindingsAreInOrder == Spec => []FindingsInStreamOrder
<1>1. StreamInv => FindingsInStreamOrder
  BY DEF StreamInv, BehindFindingsInv
<1> QED  BY <1>1, StreamInvariant, PTL

-----------------------------------------------------------------------------
(* The last slice.                                                         *)

\* The loops leave the last window of the last slice only after the extra round,
\* which is over when the decoder is empty.
FlushInv ==
    /\ Running /\ is_last_window => decoder_input_end = slice_len
    /\ step = "window" /\ is_last_window => decoder_input_start = slice_len
    /\ InWindow /\ decoder_input_end = slice_len => is_last_window
    /\ Running /\ extra_round => /\ is_last_window /\ is_last_input_buffer
                                 /\ decoder_read = slice_len
    /\ step \in {"decoded", "split"} /\ decoder_result = "InputEmpty" =>
          /\ decoder_read = decoder_input_end
          /\ extra_round => decoder = NoBytes
    /\ /\ step = "window" /\ is_last_input_buffer
       /\ slice_len > 0 /\ decoder_input_start >= slice_len
       => last_window_leftover = <<>> /\ decoder = NoBytes
    /\ LastSliceFlushes

LEMMA DecodeKeepsFlush ==
  ASSUME IInv, FlushInv, Decode
  PROVE  FlushInv'
<1> USE DEF Running, InWindow
<1>1. /\ step = "decode" /\ step' \in {"decode", "decoded"}
      /\ UNCHANGED <<is_last_window, extra_round, slice_len, is_last_input_buffer,
                     decoder_input_start, decoder_input_end, last_window_leftover,
                     last_scan_run_leftover>>
  BY DEF Decode, DecodeChar, CompleteChar, StartChar, ContinueChar, InputEmpty,
         Malformed, OutputFull, Write, EndCall, Decoding, window_vars, param_vars
<1>2. /\ decoder_read \in Nat /\ slice_len \in Nat /\ decoder_input_end \in Nat
      /\ decoder_read <= decoder_input_end
  <2>1. slice_len \in 0 .. MaxSlice /\ decoder_read \in 0 .. slice_len
    BY DEF IInv, TypeOK
  <2>2. decoder_input_end \in decoder_read .. slice_len
    BY <1>1 DEF IInv, WindowInv
  <2> QED  BY <2>1, <2>2
<1>3. extra_round => /\ is_last_window /\ is_last_input_buffer
                     /\ decoder_read = slice_len /\ decoder_input_end = slice_len
  BY <1>1 DEF FlushInv
<1>4. extra_round => decoder_read' = slice_len
  <2>1. extra_round => Available = 0
    BY <1>2, <1>3 DEF Available
  <2>2. CASE DecodeChar
    <3>1. \A c \in Chars : c.width \in Nat /\ c.width > 0
      BY ConstantTypes
    <3> QED  BY <2>1, <2>2, <3>1 DEF DecodeChar
  <2>3. CASE CompleteChar
    BY <2>1, <2>3 DEF CompleteChar
  <2>4. CASE StartChar \/ ContinueChar
    BY <2>1, <2>4 DEF StartChar, ContinueChar
  <2>5. CASE InputEmpty \/ OutputFull \/ Malformed
    BY <1>3, <2>1, <2>5 DEF InputEmpty, OutputFull, Malformed
  <2> QED  BY <2>2, <2>3, <2>4, <2>5 DEF Decode
<1>5. step' = "decoded" /\ decoder_result' = "InputEmpty" =>
         /\ decoder_read' = decoder_input_end
         /\ extra_round => decoder' = NoBytes
  <2>1. extra_round => Available = 0
    BY <1>2, <1>3 DEF Available
  <2>2. CASE DecodeChar \/ CompleteChar
    BY <1>1, <2>2 DEF DecodeChar, CompleteChar, Write
  <2>3. CASE StartChar \/ ContinueChar
    BY <2>1, <2>3 DEF StartChar, ContinueChar
  <2>4. CASE InputEmpty
    BY <1>2, <2>4 DEF InputEmpty, Available
  <2>5. CASE OutputFull \/ Malformed
    BY <2>5 DEF OutputFull, Malformed, EndCall
  <2> QED  BY <2>2, <2>3, <2>4, <2>5 DEF Decode
<1> QED  BY <1>1, <1>3, <1>4, <1>5 DEF FlushInv, LastSliceFlushes, NoBytes

LEMMA NextKeepsFlush ==
  ASSUME IInv, FlushInv, [Next]_vars
  PROVE  FlushInv'
<1>1. /\ slice_len \in Nat /\ decoder_input_start \in Nat /\ decoder_read \in Nat
      /\ decoder_input_start <= slice_len /\ LineLen \in Nat \ {0}
  <2>1. slice_len \in 0 .. MaxSlice /\ decoder_read \in 0 .. slice_len
        /\ decoder_input_start \in 0 .. slice_len
    BY DEF IInv, TypeOK
  <2> QED  BY <2>1, ConstantTypes
<1>2. CASE Begin
  BY <1>1, <1>2 DEF Begin, Called, FlushInv, Running, InWindow, LastSliceFlushes
<1>3. CASE OpenWindow
  <2>1. /\ step = "window" /\ step' = "decode" /\ decoder_input_start < slice_len
        /\ UNCHANGED <<slice_len, is_last_input_buffer, extra_round, decoder_read>>
        /\ \/ decoder_input_end' < slice_len /\ is_last_window' = is_last_window
           \/ decoder_input_end' = slice_len /\ is_last_window'
    BY <1>3 DEF OpenWindow, param_vars, call_vars
  <2>2. ~extra_round
    <3>1. decoder_read = decoder_input_start
      BY <2>1 DEF IInv, WindowInv
    <3> QED  BY <1>1, <2>1, <3>1 DEF FlushInv, Running
  <2>3. ~is_last_window
    BY <1>1, <2>1 DEF FlushInv
  <2> QED  BY <1>1, <2>1, <2>2, <2>3 DEF FlushInv, Running, InWindow, LastSliceFlushes
<1>4. CASE EndSlice
  BY <1>4 DEF EndSlice, FlushInv, Running, InWindow, LastSliceFlushes, param_vars
<1>5. CASE Decode
  BY <1>5, DecodeKeepsFlush
<1>6. CASE StartSplit
  BY <1>6 DEF StartSplit, FlushInv, Running, InWindow, LastSliceFlushes, ss_vars,
              param_vars, window_vars, call_vars, NoBytes
<1>7. CASE Split \/ TakeChunk
  BY <1>7 DEF Split, TakeChunk, FlushInv, Running, InWindow, LastSliceFlushes, ss_vars,
              param_vars, window_vars, call_vars, NoBytes
<1>8. CASE AfterChunks
  <2>1. /\ step = "split" /\ step' \in {"decode", "window"}
        /\ decoder_input_start' = decoder_read
        /\ UNCHANGED <<slice_len, is_last_input_buffer, decoder_input_end, is_last_window,
                       last_window_leftover, decoder, decoder_read>>
    BY <1>8 DEF AfterChunks, param_vars, ss_vars, call_vars, IInv, TypeOK
  <2>2. is_last_window <=> decoder_input_end = slice_len
    BY <2>1 DEF FlushInv, Running, InWindow
  <2>3. CASE decoder_result = "InputEmpty"
    <3>1. /\ extra_round' = (extra_round \/ (is_last_window /\ is_last_input_buffer))
          /\ step' = IF extra_round' # extra_round THEN "decode" ELSE "window"
      BY <1>8, <2>3 DEF AfterChunks
    <3>2. decoder_read = decoder_input_end /\ (extra_round => decoder = NoBytes)
      BY <2>1, <2>3 DEF FlushInv
    <3>3. is_last_window /\ is_last_input_buffer => last_window_leftover = <<>>
      BY <2>1 DEF IInv, LeftoverInv, InvalidBytesAfter
    <3>4. extra_round => is_last_window /\ is_last_input_buffer /\ decoder_read = slice_len
      BY <2>1 DEF FlushInv, Running
    <3>5. extra_round' => is_last_window /\ is_last_input_buffer /\ decoder_read = slice_len
      BY <2>2, <3>1, <3>2, <3>4
    <3>6. ASSUME step' = "window", is_last_input_buffer, decoder_read >= slice_len
          PROVE  last_window_leftover = <<>> /\ decoder = NoBytes
      <4>1. decoder_read \in 0 .. slice_len
        BY DEF IInv, TypeOK
      <4>2. is_last_window
        BY <1>1, <2>2, <3>2, <3>6, <4>1
      <4>3. extra_round
        BY <3>1, <3>6, <4>2 DEF IInv, TypeOK
      <4> QED  BY <3>2, <3>3, <3>6, <4>2, <4>3
    <3>7. is_last_window => decoder_read = slice_len
      BY <2>2, <3>2
    <3> QED  BY <2>1, <2>2, <3>5, <3>6, <3>7
             DEF FlushInv, Running, InWindow, LastSliceFlushes, NoBytes
  <2>4. CASE decoder_result # "InputEmpty"
    <3>1. step' = "decode" /\ extra_round' = extra_round
      BY <1>8, <2>4 DEF AfterChunks, IInv, TypeOK
    <3> QED  BY <2>1, <3>1 DEF FlushInv, Running, InWindow, LastSliceFlushes
  <2> QED  BY <2>3, <2>4
<1>9. CASE Stopped \/ UNCHANGED vars
  BY <1>9 DEF Stopped, vars, ss_vars, param_vars, window_vars, call_vars, FlushInv, Running,
              InWindow, LastSliceFlushes, NoBytes
<1> QED  BY <1>2, <1>3, <1>4, <1>5, <1>6, <1>7, <1>8, <1>9 DEF Next, ScanStep

LEMMA FlushInvariant == Spec => []FlushInv
<1>1. Init => FlushInv
  BY DEF Init, FlushInv, Running, InWindow, LastSliceFlushes
<1>2. IInv /\ FlushInv /\ [Next]_vars => FlushInv'
  BY NextKeepsFlush
<1> QED  BY <1>1, <1>2, InductiveInvariant, PTL DEF Spec

\* Called with `last' and a slice that is not empty, from() leaves nothing behind for a
\* call that does not come: neither a leftover nor bytes in the decoder.
THEOREM LastSliceIsFlushed == Spec => []LastSliceFlushes
<1>1. FlushInv => LastSliceFlushes
  BY DEF FlushInv
<1> QED  BY <1>1, FlushInvariant, PTL

-----------------------------------------------------------------------------
(* Where findings are said to be.                                          *)

\* The position of the current call of the decoder.
Base == consumed_bytes + decoder_input_start

\* A character that was decoded in this call: some byte of it was read in it.
IsNew(char) == /\ char.end > Base
               /\ char.at < consumed_bytes + decoder_input_end

\* A text that may be put in front of another one.
Piece(t) ==
    /\ \A i \in 1 .. Len(t) : SP!PassesFilter(t[i].lead)
    /\ SameBlock => \A i, j \in 1 .. Len(t) :
          SP!IsMultibyte(t[i].lead) /\ SP!IsMultibyte(t[j].lead) => t[i].lead = t[j].lead
    /\ Len(t) = LineLen => \A i \in 1 .. Len(t) : t[i].lead \notin filter_grep_char

\* The first m characters of the iterator's text are the leftover.
NearSplit(m) ==
    /\ m \in Nat
    /\ Iter!KeptPrefix(m) /\ Iter!PrefixInv(m)
    /\ \A k \in 1 .. Len(text) : k > m => IsNew(text[k])
    /\ position_precision = "Exact" => m = 0

IsNear(f) ==
    /\ f.position_precision = "Exact" =>
          /\ f.s[1].end > f.position
          /\ StartOf(f) < f.position + 2 * LineLen
    /\ f.position_precision = "After" =>
          /\ f.s[1].end > f.position
          /\ SameBlock \/ StartOf(f) > f.position
          /\ StartOf(f) < f.position + 2 * LineLen

WindowIsNear ==
    InWindow => decoder_input_end <= decoder_input_start + 2 * LineLen

PiecesInv ==
    /\ Piece(last_window_leftover) /\ Piece(last_scan_run_leftover)

NewTextInv ==
    step \in {"decode", "decoded"} => \A k \in 1 .. Len(text) : IsNew(text[k])

NearSplitInv ==
    step = "split" =>
        /\ require_same_unicode_block = SameBlock
        /\ position_precision = "After" => Taken >= 1
        /\ \E m \in Nat : NearSplit(m)

NearInv ==
    /\ WindowIsNear /\ PiecesInv /\ NewTextInv /\ NearSplitInv
    /\ \A i \in 1 .. Len(Findings) : IsNear(Findings[i])

\* Outside of the iterator, in a step that leaves the leftovers alone or moves them.
LEMMA PiecesFrame ==
  ASSUME NEW t, NEW u, Piece(t), u = t, filter_grep_char' = filter_grep_char
  PROVE  /\ \A i \in 1 .. Len(u) : SP!PassesFilter(u[i].lead)
         /\ SameBlock => \A i, j \in 1 .. Len(u) :
               SP!IsMultibyte(u[i].lead) /\ SP!IsMultibyte(u[j].lead) => u[i].lead = u[j].lead
         /\ Len(u) = LineLen => \A i \in 1 .. Len(u) : u[i].lead \notin filter_grep_char'
BY DEF Piece

LEMMA EmptyPiece == Piece(<<>>)
BY DEF Piece

\* A character is decoded.
LEMMA DecodeKeepsNew ==
  ASSUME IInv, PendingInv, NewTextInv, Decode
  PROVE  NewTextInv'
<1>1. /\ step = "decode" /\ UNCHANGED <<consumed_bytes, decoder_input_start, decoder_input_end>>
      /\ Decoding
  BY DEF Decode, DecodeChar, CompleteChar, StartChar, ContinueChar, InputEmpty, Malformed,
         OutputFull, Decoding, window_vars
<1>2. /\ text \in Seq(Char) /\ consumed_bytes \in Nat /\ decoder_read \in Nat
      /\ decoder_input_start \in Nat /\ decoder_input_end \in Nat
      /\ decoder_input_start <= decoder_read /\ decoder_read <= decoder_input_end
      /\ decoder.at \in Nat /\ decoder.left \in Nat
  BY <1>1, TextTypes DEF IInv, TypeOK, WindowInv, Running, InWindow
<1>3. \A k \in 1 .. Len(text) : IsNew(text[k])
  BY <1>1 DEF NewTextInv
<1>4. ASSUME text' = text PROVE NewTextInv'
  BY <1>1, <1>3, <1>4 DEF NewTextInv, IsNew, Base
<1>5. ASSUME NEW char, text' = Append(text, char), IsNew(char) PROVE NewTextInv'
  <2>1. ASSUME NEW k \in 1 .. Len(text') PROVE IsNew(text'[k])
    <3>1. Len(text) \in Nat /\ (k \in 1 .. Len(text) \/ k = Len(text) + 1)
      BY <1>2, <1>5
    <3>2. text'[k] = IF k = Len(text) + 1 THEN char ELSE text[k]
      BY <1>2, <1>5, <3>1
    <3> QED  BY <1>3, <1>5, <3>1, <3>2
  <2> QED  BY <1>1, <2>1 DEF NewTextInv, IsNew, Base
<1>6. CASE DecodeChar
  <2>1. PICK c \in Chars :
           /\ c.width <= Available
           /\ Write([lead |-> c.lead, at |-> StreamPos, end |-> StreamPos + c.width])
    BY <1>6 DEF DecodeChar
  <2> DEFINE char == [lead |-> c.lead, at |-> StreamPos, end |-> StreamPos + c.width]
  <2>2. c.width \in Nat /\ c.width >= 1
    BY ConstantTypes
  <2>3. text' = Append(text, char)
    BY <2>1 DEF Write
  <2>4. IsNew(char)
    <3>1. char.at = consumed_bytes + decoder_read
          /\ char.end = (consumed_bytes + decoder_read) + c.width
      BY DEF StreamPos
    <3> HIDE DEF char
    <3> QED  BY <1>2, <2>1, <2>2, <3>1 DEF IsNew, Base, Available
  <2> HIDE DEF char
  <2> QED  BY <1>5, <2>3, <2>4
<1>7. CASE CompleteChar
  <2> DEFINE char == [lead |-> decoder.lead, at |-> decoder.at, end |-> StreamPos + decoder.left]
  <2>1. decoder.left \in 1 .. Available /\ text' = Append(text, char)
    BY <1>7 DEF CompleteChar, Write
  <2>2. decoder # NoBytes
    BY <1>2, <2>1 DEF NoBytes, Available
  <2>3. decoder.at <= consumed_bytes + decoder_read
    BY <1>1, <2>2 DEF PendingInv, StreamEnd, StreamPos
  <2>4. IsNew(char)
    <3>1. char.at = decoder.at /\ char.end = (consumed_bytes + decoder_read) + decoder.left
      BY DEF StreamPos
    <3> HIDE DEF char
    <3> QED  BY <1>2, <2>1, <2>3, <3>1 DEF IsNew, Base, Available
  <2> HIDE DEF char
  <2> QED  BY <1>5, <2>1, <2>4
<1>8. CASE StartChar \/ ContinueChar \/ InputEmpty \/ Malformed \/ OutputFull
  <2>1. text' = text
    BY <1>8 DEF StartChar, ContinueChar, InputEmpty, Malformed, OutputFull, EndCall
  <2> QED  BY <1>4, <2>1
<1> QED  BY <1>6, <1>7, <1>8 DEF Decode

\* The iterator is made.
LEMMA StartSplitKeepsNear ==
  ASSUME IInv, KeptOrCutInv, NearInv, StartSplit, step' = "split"
  PROVE  NearSplitInv'
<1> DEFINE kept == last_window_leftover
           whole == kept \o text
<1>0. PICK m \in Nat : m = Len(kept)
  BY TextTypes DEF IInv, TypeOK
<1>1. /\ step = "decoded"
      /\ SP!New(Leads(whole), CharsMin, SameBlock, cut_flag, InvalidBytesAfter,
                filter_grep_char)
      /\ text' = whole
      /\ \E differs \in BOOLEAN : position_precision' = Precision(differs)
      /\ UNCHANGED <<consumed_bytes, decoder_input_start, decoder_input_end>>
  BY DEF StartSplit, ss_vars, window_vars
<1>2. /\ inp' = Leads(whole) /\ require_same_unicode_block' = SameBlock
      /\ grep_char' = filter_grep_char /\ results' = <<>> /\ pc' = "loop"
  BY <1>1 DEF SP!New
<1>3. /\ kept \in Seq(Char) /\ text \in Seq(Char) /\ whole \in Text
      /\ m \in Nat /\ Len(text) \in Nat
  BY <1>0, TextTypes, TextConcat DEF IInv, TypeOK
<1>4. /\ Len(whole) = m + Len(text)
      /\ \A k \in 1 .. m : whole[k] = kept[k]
      /\ \A k \in 1 .. Len(text) : whole[m + k] = text[k]
  BY <1>0, <1>3
<1>5. Len(inp') = Len(whole) /\ \A k \in 1 .. Len(whole) : inp'[k] = whole[k].lead
  BY <1>2, <1>3, TextTypes
<1>6. /\ position_precision' # "After"
      /\ position_precision' = "Exact" => kept = <<>>
  BY <1>1 DEF Precision
<1>7. /\ Piece(kept) /\ (kept # <<>> => ~cut_flag) /\ m <= LeftoverMax
      /\ \A k \in 1 .. Len(text) : IsNew(text[k])
  BY <1>0, <1>1 DEF NearInv, PiecesInv, NewTextInv, KeptOrCutInv, IInv, LineInv
<1>8. m > 0 => ~cut_flag
  BY <1>0, <1>3, <1>7
<1>9. kept = <<>> => m = 0
  BY <1>0
<1> HIDE DEF kept, whole
<1>10. Iter!KeptPrefix(m)'
  <2>1. \A i \in 1 .. m : i \in 1 .. Len(whole) /\ inp'[i] = kept[i].lead
    BY <1>3, <1>4, <1>5
  <2>2. m \in 0 .. Len(inp') /\ m <= LineLen
    BY <1>3, <1>4, <1>5, <1>7, ConstantTypes
  <2>3. m = LineLen => ~NoGrep
    BY <1>3, <1>7, ConstantTypes
  <2>4. \A i \in 1 .. m : Iter!PassesFilter(inp'[i])
    BY <1>0, <1>7, <2>1 DEF Piece, SP!PassesFilter, Iter!PassesFilter
  <2>5. SameBlock => \A i, j \in 1 .. m :
           Iter!IsMultibyte(inp'[i]) /\ Iter!IsMultibyte(inp'[j]) => inp'[i] = inp'[j]
    BY <1>0, <1>7, <2>1 DEF Piece, SP!IsMultibyte, Iter!IsMultibyte, SP!Ascii, Iter!Ascii
  <2>6. m = LineLen => \A i \in 1 .. m : inp'[i] \notin filter_grep_char
    BY <1>0, <1>7, <2>1 DEF Piece
  <2> QED  BY <1>2, <2>2, <2>3, <2>4, <2>5, <2>6
           DEF Iter!KeptPrefix, Iter!Homogeneous, Iter!NoGrep, NoGrep, CharMax,
               Iter!PassesFilter, Iter!IsMultibyte
<1>11. Iter!PrefixInv(m)'
  <2>1. Iter!New(Leads(whole), CharsMin, SameBlock, cut_flag, InvalidBytesAfter,
                 filter_grep_char)
    BY <1>1 DEF SP!New, Iter!New
  <2> QED  BY <1>3, <1>8, <2>1, IterAssumptions, Iter!NewHasPrefix
<1>12. ASSUME NEW k \in 1 .. Len(whole), k > m
       PROVE  /\ whole[k].end > Base'
              /\ whole[k].at < consumed_bytes' + decoder_input_end'
  <2>1. k - m \in 1 .. Len(text) /\ m + (k - m) = k
    BY <1>3, <1>4, <1>12
  <2>2. whole[k] = text[k - m]
    BY <1>4, <2>1
  <2>3. IsNew(whole[k])
    BY <1>7, <2>1, <2>2
  <2> QED  BY <1>1, <2>3 DEF IsNew, Base
<1>13. NearSplit(m)'
  BY <1>1, <1>3, <1>6, <1>9, <1>10, <1>11, <1>12 DEF NearSplit, IsNew, Base
<1> QED  BY <1>2, <1>3, <1>6, <1>13 DEF NearSplitInv

LEMMA IterSteps ==
  /\ SP!NextStep => Iter!NextStep
  /\ SP!CallNext => Iter!CallNext
BY SameIterator

\* A step of the iterator.
LEMMA SplitKeepsNear ==
  ASSUME IInv, NearInv, Split
  PROVE  NearSplitInv'
<1>1. /\ step = "split" /\ SP!NextStep
      /\ UNCHANGED <<step, text, position_precision, consumed_bytes, decoder_input_start,
                     decoder_input_end>>
  BY DEF Split, ss_vars, window_vars
<1>2. require_same_unicode_block' = require_same_unicode_block
  BY <1>1 DEF SP!NextStep, SP!Accept, SP!Restart, SP!Break, SP!Exhaust, SP!Return,
              SP!given_vars, SP!iterator_vars
<1>3. PICK m \in Nat : NearSplit(m)
  BY <1>1 DEF NearInv, NearSplitInv
<1>4. Iter!KeptPrefix(m)' /\ Iter!PrefixInv(m)'
  BY <1>1, <1>3, IterSteps, IterAssumptions, Iter!NextStepKeepsPrefix
     DEF IInv, SplitInv, NearSplit
<1>5. NearSplit(m)'
  BY <1>1, <1>3, <1>4 DEF NearSplit, IsNew, Base
<1>6. Taken' = Taken
  BY SplitTaken
<1> QED  BY <1>1, <1>2, <1>5, <1>6 DEF NearInv, NearSplitInv

\* A chunk that is kept is a piece, and a new finding is near.
LEMMA TakeChunkKeepsNear ==
  ASSUME IInv, PendingInv, NearInv, TakeChunk
  PROVE  /\ NearSplitInv'
         /\ Piece(last_window_leftover)'
         /\ ~Chunk.s_is_to_be_filtered_again => IsNear(NewFinding)
<1> DEFINE n == Len(results)
<1>1. /\ step = "split" /\ step' = step /\ pc = "returned" /\ pc' = "loop" /\ SP!CallNext
      /\ position_precision' = "After"
      /\ IF ~Chunk.s_is_to_be_filtered_again
         THEN last_window_leftover' = <<>>
         ELSE last_window_leftover' = SubSeq(text, Len(text) + 1 - Chunk.nb, Len(text))
      /\ UNCHANGED <<text, results, inp, grep_char, require_same_unicode_block, consumed_bytes,
                     decoder_input_start, decoder_input_end, filter_grep_char>>
  BY DEF TakeChunk, SP!CallNext, SP!iterator_vars, SP!given_vars, ss_vars, window_vars,
         param_vars
<1>2. PICK m \in Nat : NearSplit(m)
  BY <1>1 DEF NearInv, NearSplitInv
<1>3. /\ results # <<>> /\ Len(text) \in Nat /\ Chunk.from \in Nat /\ Chunk.from >= 1
      /\ Chunk.nb \in Nat /\ Chunk.nb >= 1 /\ Chunk.from + Chunk.nb <= Len(text) + 1
  BY <1>1, ChunkFacts DEF IInv
<1>4. /\ n \in Nat /\ n >= 1 /\ Chunk = results[n] /\ Taken = n - 1 /\ Taken' = n
      /\ n \in 1 .. n
  <2>1. n \in Nat /\ n >= 1
    BY <1>3, ResultsOrder
  <2> QED  BY <1>1, <2>1 DEF Chunk, Taken
<1>5. NearSplitInv'
  <2>1. Iter!PrefixInv(m)'
    BY <1>1, <1>2, IterSteps, IterAssumptions, Iter!CallNextKeepsPrefix
       DEF IInv, SplitInv, NearSplit
  <2>2. Iter!KeptPrefix(m)'
    BY <1>1, <1>2 DEF NearSplit, Iter!KeptPrefix, Iter!Homogeneous, Iter!NoGrep
  <2>3. NearSplit(m)'
    BY <1>1, <1>2, <2>1, <2>2 DEF NearSplit, IsNew, Base
  <2> QED  BY <1>1, <1>4, <2>3 DEF NearInv, NearSplitInv
<1>6. Piece(last_window_leftover)'
  <2>1. CASE ~Chunk.s_is_to_be_filtered_again
    <3>1. last_window_leftover' = <<>>
      BY <1>1, <2>1
    <3> QED  BY <3>1 DEF Piece
  <2>2. CASE Chunk.s_is_to_be_filtered_again
    <3> DEFINE kept == SubSeq(text, Chunk.from, Len(text))
    <3>1. last_window_leftover' = kept /\ Len(kept) = Chunk.nb
      BY <1>1, <2>2, NewLeftover DEF IInv
    <3>2. \A k \in 1 .. Chunk.nb : kept[k] = text[Chunk.from + k - 1]
      <4>1. text \in Seq(Char)
        BY TextTypes DEF IInv, TypeOK
      <4>2. Chunk.from + Chunk.nb = Len(text) + 1
        BY <1>1, <2>2, ChunkFacts DEF IInv
      <4> QED  BY <1>3, <4>1, <4>2
    <3> HIDE DEF kept
    <3>3. /\ Iter!IteratorInv /\ inp = Leads(text) /\ grep_char = filter_grep_char
          /\ require_same_unicode_block = SameBlock
      BY <1>1 DEF IInv, SplitInv, NearInv, NearSplitInv
    <3>4. \A k \in 1 .. Chunk.nb :
             /\ Chunk.from + k - 1 \in Iter!PlacesOf(Chunk)
             /\ Chunk.from + k - 1 \in 1 .. Len(text)
      BY <1>3 DEF Iter!PlacesOf
    <3>5. \A k \in 1 .. Chunk.nb : inp[Chunk.from + k - 1] = kept[k].lead
      BY <3>2, <3>3, <3>4 DEF Leads
    <3>6. Iter!Homogeneous(Iter!PlacesOf(Chunk))
      BY <1>4, <3>3 DEF Iter!IteratorInv, Iter!ResultsInv, Iter!ResultsAreStrings
    <3>7. Chunk.nb = LineLen => \A i \in Iter!PlacesOf(Chunk) : inp[i] \notin grep_char
      BY <1>4, <2>2, <3>3 DEF Iter!IteratorInv, Iter!ResultsInv, Iter!KeptInv, CharMax
    <3>8. \A i \in 1 .. Chunk.nb : SP!PassesFilter(kept[i].lead)
      BY <3>4, <3>5, <3>6 DEF Iter!Homogeneous, Iter!PassesFilter, SP!PassesFilter
    <3>9. SameBlock => \A i, j \in 1 .. Chunk.nb :
             SP!IsMultibyte(kept[i].lead) /\ SP!IsMultibyte(kept[j].lead)
                => kept[i].lead = kept[j].lead
      <4>1. SameBlock => \A i, j \in Iter!PlacesOf(Chunk) :
               Iter!IsMultibyte(inp[i]) /\ Iter!IsMultibyte(inp[j]) => inp[i] = inp[j]
        BY <3>3, <3>6 DEF Iter!Homogeneous
      <4>2. \A c : SP!IsMultibyte(c) => Iter!IsMultibyte(c)
        BY DEF Iter!IsMultibyte, SP!IsMultibyte, Iter!Ascii, SP!Ascii
      <4> QED  BY <3>4, <3>5, <4>1, <4>2
    <3>10. Chunk.nb = LineLen => \A i \in 1 .. Chunk.nb : kept[i].lead \notin filter_grep_char
      BY <3>3, <3>4, <3>5, <3>7
    <3>11. Piece(kept)
      BY <3>1, <3>8, <3>9, <3>10 DEF Piece
    <3> QED  BY <1>1, <3>1, <3>11 DEF Piece
  <2> QED  BY <2>1, <2>2
<1>7. ASSUME ~Chunk.s_is_to_be_filtered_again PROVE IsNear(NewFinding)
  <2>1. /\ NewFinding.position = Base /\ Base \in Nat
        /\ NewFinding.s[1] = text[Chunk.from]
        /\ StartOf(NewFinding) = text[Chunk.from].at
        /\ NewFinding.position_precision = position_precision
    <3>1. NewFinding.position = Base /\ Base \in Nat
      BY <1>1, NewFindingFacts DEF IInv, TypeOK, Base
    <3>2. NewFinding.s[1] = text[Chunk.from]
      <4>1. 1 \in 1 .. Chunk.nb /\ Chunk.from + 1 - 1 = Chunk.from
        BY <1>3
      <4> QED  BY <1>1, <4>1, NewFindingFacts DEF IInv
    <3> QED  BY <3>1, <3>2 DEF NewFinding, StartOf
  <2>2. /\ Chunk.from \in 1 .. Len(text)
        /\ \A k \in 1 .. Len(text) : text[k].at \in Nat /\ text[k].end \in Nat
        /\ InOrder(text)
    <3>1. Pending = text
      BY <1>1 DEF Pending
    <3> QED  BY <1>3, <3>1, PendingTypes DEF PendingInv
  <2>3. /\ decoder_input_end <= decoder_input_start + 2 * LineLen
        /\ decoder_input_start \in Nat /\ decoder_input_end \in Nat /\ consumed_bytes \in Nat
        /\ LineLen \in Nat
    BY <1>1, ConstantTypes DEF NearInv, WindowIsNear, InWindow, IInv, TypeOK, WindowInv
  <2>4. ASSUME m < Chunk.from
        PROVE  text[Chunk.from].end > Base /\ text[Chunk.from].at < Base + 2 * LineLen
    <3>1. IsNew(text[Chunk.from])
      BY <1>2, <1>3, <2>2, <2>4 DEF NearSplit
    <3> QED  BY <2>2, <2>3, <3>1 DEF IsNew, Base
  <2>5. CASE position_precision = "Exact"
    <3>1. m < Chunk.from
      BY <1>2, <1>3, <2>5 DEF NearSplit
    <3> QED  BY <2>1, <2>4, <2>5, <3>1 DEF IsNear
  <2>6. CASE position_precision = "After"
    <3>1. n \in 2 .. n
      BY <1>1, <1>4, <2>6 DEF NearInv, NearSplitInv
    <3>2. m < Chunk.from /\ (require_same_unicode_block \/ m + 1 < Chunk.from)
      BY <1>2, <1>4, <3>1 DEF NearSplit, Iter!PrefixInv, Iter!LaterInv
    <3>3. ASSUME ~SameBlock PROVE text[Chunk.from].at > Base
      <4>1. m + 1 < Chunk.from
        BY <1>1, <3>2, <3>3 DEF NearInv, NearSplitInv
      <4> DEFINE k == Chunk.from - 1
      <4>2. k \in 1 .. Len(text) /\ k > m /\ k < Chunk.from
        BY <1>2, <1>3, <2>2, <4>1
      <4> HIDE DEF k
      <4>3. text[k].end > Base /\ text[k].end <= text[Chunk.from].at
        BY <1>2, <2>2, <4>2 DEF NearSplit, IsNew, InOrder
      <4> QED  BY <2>1, <2>2, <4>2, <4>3
    <3> QED  BY <2>1, <2>4, <2>6, <3>2, <3>3 DEF IsNear
  <2>7. CASE position_precision \notin {"Exact", "After"}
    BY <2>1, <2>7 DEF IsNear
  <2> QED  BY <2>5, <2>6, <2>7
<1> QED  BY <1>5, <1>6, <1>7

LEMMA WindowStaysNear ==
  ASSUME IInv, WindowIsNear, [Next]_vars
  PROVE  WindowIsNear'
<1>1. /\ decoder_input_start \in Nat /\ slice_len \in Nat /\ LineLen \in Nat
      /\ decoder_input_end \in Nat \/ ~InWindow
      /\ decoder_read \in Nat /\ (Running => decoder_input_start <= decoder_read)
  BY ConstantTypes DEF IInv, TypeOK, WindowInv
<1>2. CASE OpenWindow
  BY <1>1, <1>2 DEF OpenWindow, WindowIsNear
<1>3. CASE Begin \/ EndSlice
  <2>1. ~InWindow'
    BY <1>3 DEF Begin, EndSlice, InWindow
  <2> QED  BY <2>1 DEF WindowIsNear
<1>4. CASE AfterChunks
  <2>1. /\ InWindow /\ Running /\ decoder_input_start' = decoder_read
        /\ decoder_input_end' = decoder_input_end
    BY <1>4 DEF AfterChunks, InWindow, Running
  <2> QED  BY <1>1, <2>1 DEF WindowIsNear
<1>5. CASE Decode \/ StartSplit \/ Split \/ TakeChunk
  <2>1. InWindow
    BY <1>5 DEF Decode, DecodeChar, CompleteChar, StartChar, ContinueChar, InputEmpty,
                Malformed, OutputFull, Decoding, StartSplit, Split, TakeChunk, InWindow
  <2>2. decoder_input_start' = decoder_input_start /\ decoder_input_end' = decoder_input_end
    BY <1>5 DEF Decode, DecodeChar, CompleteChar, StartChar, ContinueChar, InputEmpty,
                Malformed, OutputFull, Decoding, StartSplit, Split, TakeChunk, window_vars
  <2> QED  BY <2>1, <2>2 DEF WindowIsNear
<1>6. CASE Stopped \/ UNCHANGED vars
  BY <1>6 DEF Stopped, vars, window_vars, WindowIsNear, InWindow
<1> QED  BY <1>2, <1>3, <1>4, <1>5, <1>6 DEF Next, ScanStep

\* The leftovers, and the text of a call.
LEMMA PiecesStay ==
  ASSUME IInv, PendingInv, NearInv, [Next]_vars
  PROVE  PiecesInv'
<1>1. /\ Piece(last_window_leftover) /\ Piece(last_scan_run_leftover)
      /\ filter_grep_char' = filter_grep_char
  BY GrepCharStays DEF NearInv, PiecesInv
<1>2. ASSUME last_window_leftover' \in {last_window_leftover, last_scan_run_leftover, <<>>},
             last_scan_run_leftover' \in {last_window_leftover, last_scan_run_leftover, <<>>}
      PROVE  PiecesInv'
  BY <1>1, <1>2, EmptyPiece DEF PiecesInv, Piece
<1>3. CASE TakeChunk
  <2>1. Piece(last_window_leftover)' /\ last_scan_run_leftover' = last_scan_run_leftover
    BY <1>3, TakeChunkKeepsNear DEF TakeChunk, ss_vars
  <2> QED  BY <1>1, <2>1 DEF PiecesInv, Piece
<1>4. CASE Begin \/ EndSlice \/ StartSplit
  BY <1>2, <1>4 DEF Begin, EndSlice, StartSplit, ss_vars
<1>5. CASE OpenWindow \/ Split \/ AfterChunks \/ Stopped \/ UNCHANGED vars
  BY <1>2, <1>5 DEF OpenWindow, Split, AfterChunks, Stopped, vars, ss_vars
<1>6. CASE Decode
  BY <1>2, <1>6 DEF Decode, DecodeChar, CompleteChar, StartChar, ContinueChar, InputEmpty,
                    Malformed, OutputFull, Decoding
<1> QED  BY <1>3, <1>4, <1>5, <1>6 DEF Next, ScanStep

LEMMA TextStaysNew ==
  ASSUME IInv, PendingInv, NewTextInv, [Next]_vars
  PROVE  NewTextInv'
<1>1. CASE Decode
  BY <1>1, DecodeKeepsNew
<1>2. CASE OpenWindow
  <2>1. step = "window" /\ text' = text
    BY <1>2 DEF OpenWindow
  <2>2. Len(text') = 0
    BY <2>1 DEF IInv, LeftoverInv
  <2> QED  BY <2>2 DEF NewTextInv
<1>3. CASE AfterChunks
  <2>1. Len(text') = 0
    BY <1>3 DEF AfterChunks
  <2> QED  BY <2>1 DEF NewTextInv
<1>4. CASE Begin \/ EndSlice \/ StartSplit \/ Split \/ TakeChunk
  <2>1. step' \notin {"decode", "decoded"}
    BY <1>4 DEF Begin, EndSlice, StartSplit, Split, TakeChunk
  <2> QED  BY <2>1 DEF NewTextInv
<1>5. CASE Stopped \/ UNCHANGED vars
  BY <1>5 DEF Stopped, vars, ss_vars, window_vars, NewTextInv, IsNew, Base
<1> QED  BY <1>1, <1>2, <1>3, <1>4, <1>5 DEF Next, ScanStep

LEMMA SplitStaysNear ==
  ASSUME IInv, PendingInv, KeptOrCutInv, NearInv, [Next]_vars
  PROVE  NearSplitInv'
<1>1. CASE StartSplit
  BY <1>1, StartSplitKeepsNear DEF NearSplitInv
<1>2. CASE Split
  BY <1>2, SplitKeepsNear
<1>3. CASE TakeChunk
  BY <1>3, TakeChunkKeepsNear
<1>4. CASE Begin \/ OpenWindow \/ EndSlice \/ Decode \/ AfterChunks
  <2>1. step' # "split"
    BY <1>4 DEF Begin, OpenWindow, EndSlice, Decode, DecodeChar, CompleteChar, StartChar,
                ContinueChar, InputEmpty, Malformed, OutputFull, Decoding, Write, EndCall,
                AfterChunks, IInv, TypeOK
  <2> QED  BY <2>1 DEF NearSplitInv
<1>5. CASE Stopped \/ UNCHANGED vars
  <2>1. UNCHANGED vars
    BY <1>5 DEF Stopped
  <2>2. UNCHANGED <<split_vars, step, text, position_precision, consumed_bytes,
                    decoder_input_start, decoder_input_end>>
    BY <2>1 DEF vars, ss_vars, window_vars
  <2>3. UNCHANGED <<inp, grep_char, require_same_unicode_block, p, ok_s_p, ok_char_nb, pc,
                    last_s_was_maybe_cut, last_multi_char_leading_byte, results>>
    BY <2>2 DEF split_vars
  <2>4. CASE step = "split"
    <3>1. PICK m \in Nat : NearSplit(m)
      BY <2>4 DEF NearInv, NearSplitInv
    <3>2. Iter!KeptPrefix(m)'
      BY <2>3, <3>1 DEF NearSplit, Iter!KeptPrefix, Iter!Homogeneous, Iter!NoGrep
    <3>3. Iter!PrefixInv(m)'
      BY <2>3, <3>1 DEF NearSplit, Iter!PrefixInv, Iter!FirstInv, Iter!FrontInv, Iter!LaterInv,
                        Iter!KnownBlock, Iter!Iterating, Iter!Front, Iter!End
    <3>4. NearSplit(m)'
      BY <2>2, <3>1, <3>2, <3>3 DEF NearSplit, IsNew, Base
    <3>5. Taken' = Taken
      BY <2>3 DEF Taken
    <3> QED  BY <2>2, <2>3, <2>4, <3>4, <3>5 DEF NearInv, NearSplitInv
  <2> QED  BY <2>2, <2>4 DEF NearSplitInv
<1> QED  BY <1>1, <1>2, <1>3, <1>4, <1>5 DEF Next, ScanStep

LEMMA FindingsStayNear ==
  ASSUME IInv, PendingInv, NearInv, [Next]_vars
  PROVE  \A i \in 1 .. Len(Findings') : IsNear(Findings'[i])
<1>1. \A i \in 1 .. Len(Findings) : IsNear(Findings[i])
  BY DEF NearInv
<1>2. CASE FindingsKept
  BY <1>1, <1>2 DEF FindingsKept
<1>3. CASE FindingAdded
  <2>1. IsNear(NewFinding)
    BY <1>3, TakeChunkKeepsNear DEF FindingAdded
  <2>2. Len(Findings) \in Nat /\ Findings' = Append(Findings, NewFinding)
        /\ Findings \in Seq(FindingType)
    BY <1>3, FindingsTypes DEF FindingAdded
  <2> SUFFICES ASSUME NEW i \in 1 .. Len(Findings') PROVE IsNear(Findings'[i])
    OBVIOUS
  <2>3. i \in 1 .. Len(Findings) \/ i = Len(Findings) + 1
    BY <2>2
  <2>4. Findings'[i] = IF i = Len(Findings) + 1 THEN NewFinding ELSE Findings[i]
    BY <2>2, <2>3
  <2> QED  BY <1>1, <2>1, <2>3, <2>4
<1> QED  BY <1>2, <1>3, FindingsStep

LEMMA NearInvariant == Spec => []NearInv
<1>1. Init => NearInv /\ KeptOrCutInv
  <2> SUFFICES ASSUME Init PROVE NearInv /\ KeptOrCutInv
    OBVIOUS
  <2>1. /\ step = "idle" /\ last_window_leftover = <<>> /\ last_scan_run_leftover = <<>>
        /\ Len(Findings) = 0
    BY DEF Init, Findings
  <2> QED  BY <2>1, EmptyPiece
           DEF NearInv, WindowIsNear, InWindow, PiecesInv, NewTextInv, NearSplitInv,
               KeptOrCutInv
<1>2. StreamInv /\ KeptOrCutInv /\ NearInv /\ [Next]_vars => NearInv' /\ KeptOrCutInv'
  <2> SUFFICES ASSUME StreamInv, KeptOrCutInv, NearInv, [Next]_vars
               PROVE  NearInv' /\ KeptOrCutInv'
    OBVIOUS
  <2>1. IInv /\ PendingInv
    BY DEF StreamInv
  <2>2. WindowIsNear' /\ PiecesInv' /\ NewTextInv' /\ NearSplitInv'
    BY <2>1, WindowStaysNear, PiecesStay, TextStaysNew, SplitStaysNear DEF NearInv
  <2>3. \A i \in 1 .. Len(Findings') : IsNear(Findings'[i])
    BY <2>1, FindingsStayNear
  <2> QED  BY <2>2, <2>3, NextKeepsKeptOrCut DEF NearInv, IsNear, StartOf
<1> QED  BY <1>1, <1>2, StreamInvariant, PTL DEF Spec

\* A finding whose position is said to be exact has its first byte in the window of
\* its call, but for the first bytes of one character.
THEOREM ExactPositionsAreNear == Spec => []ExactIsNear
<1>1. NearInv => ExactIsNear
  BY DEF NearInv, IsNear, ExactIsNear
<1> QED  BY <1>1, NearInvariant, PTL

\* A finding said to come after its position does so, within two lines.
THEOREM AfterPositionsAreNear == Spec => []AfterIsNear
<1>1. NearInv => AfterIsNear
  BY DEF NearInv, IsNear, AfterIsNear
<1> QED  BY <1>1, NearInvariant, PTL

-----------------------------------------------------------------------------
(* Strings that continue the one before.                                   *)

\* No finding has been forgotten.
Whole == ~incomplete /\ ~str_buf_overflow

\* The string printed last is held to be cut.
FlagSet == IF step = "idle" THEN last_run_str_was_printed_and_is_maybe_cut_str ELSE cut_flag

LastFinding == Findings[Len(Findings)]

\* What starts at pos follows the last finding, or that one fills its line.
Follows(pos) ==
    /\ Findings # <<>>
    /\ Len(LastFinding.s) = LineLen \/ StopOf(LastFinding) = pos

OverflowIsTold == step = "idle" /\ str_buf_overflow => incomplete

\* As long as the flag is set, what comes next follows the last finding -- or an
\* invalid byte does, and the next text is empty, which clears the flag.
FlagInv ==
    Whole /\ step \notin {"split", "panicked"} /\ FlagSet =>
        \/ Pending # <<>> /\ Follows(Pending[1].at)
        \/ Pending = <<>> /\ Follows(NextPos)
        \/ Pending = <<>> /\ step = "decoded" /\ decoder_result = "Malformed"

\* The first result may be given the flag, if it starts the text.
MayContinue ==
    \/ Iter!Iterating /\ results = <<>> /\ last_s_was_maybe_cut
    \/ results # <<>> /\ results[1].s_completes_previous_s

FirstResultInv ==
    Whole /\ step = "split" /\ Taken = 0 =>
        /\ ~cut_flag
        /\ MayContinue => text = <<>> \/ Follows(text[1].at)

\* The last result taken is the last finding, or the leftover.
LaterResultInv ==
    Whole /\ step = "split" /\ Taken # 0 =>
        /\ cut_flag => /\ results[Taken].s_is_maybe_cut
                       /\ ~results[Taken].s_is_to_be_filtered_again
        /\ ~results[Taken].s_is_to_be_filtered_again =>
              /\ Findings # <<>>
              /\ Len(LastFinding.s) = results[Taken].nb
              /\ StopOf(LastFinding) = text[results[Taken].from + results[Taken].nb - 1].end

\* A string is held to be cut by the length of the line or by the end of a text that
\* may go on.
CutResultsInv ==
    step = "split" =>
        \A k \in 1 .. Len(results) :
            results[k].s_is_maybe_cut =>
                \/ results[k].nb >= LineLen
                \/ results[k].from + results[k].nb > Len(text) /\ ~InvalidBytesAfter

ContInv ==
    /\ OverflowIsTold /\ FlagInv /\ FirstResultInv /\ LaterResultInv /\ CutResultsInv
    /\ ContinuationFollows

\* Results lie in the text and are at most a line.
LEMMA ResultBounds ==
  ASSUME IInv, step = "split", NEW k \in 1 .. Len(results)
  PROVE  /\ results[k].from \in Nat /\ results[k].from >= 1
         /\ results[k].nb \in Nat /\ results[k].nb >= 1 /\ results[k].nb <= LineLen
         /\ results[k].from + results[k].nb <= Len(text) + 1
         /\ Len(text) \in Nat /\ LineLen \in Nat
<1>1. /\ results \in Seq(Iter!Result) /\ Iter!ResultsAreStrings /\ inp = Leads(text)
  BY DEF IInv, SplitInv, Iter!IteratorInv, Iter!TypeOK, Iter!ResultsInv
<1>2. Len(text) \in Nat /\ Len(inp) = Len(text)
  BY <1>1, TextTypes DEF IInv, TypeOK
<1>3. /\ results[k].from \in Nat /\ results[k].from >= 1
      /\ results[k].nb \in Nat /\ results[k].nb >= 1
  <2>1. results[k] \in Iter!Result
    BY <1>1
  <2> QED  BY <2>1 DEF Iter!Result
<1> QED  BY <1>1, <1>2, <1>3, ConstantTypes DEF Iter!ResultsAreStrings, Iter!EndOf, CharMax

\* As long as all findings are there, they are only added to.
LEMMA WholeStep ==
  ASSUME IInv, OverflowIsTold, [Next]_vars, Whole'
  PROVE  Whole /\ (Findings' = Findings \/ FindingAdded)
<1> USE DEF returned_vars, collection_vars
<1>1. CASE UNCHANGED <<printed, v, incomplete, str_buf_overflow>>
  BY <1>1 DEF Whole, Findings
<1>2. CASE Begin
  BY <1>2 DEF Begin, OverflowIsTold, Whole, Findings
<1>3. CASE EndSlice
  <2>1. /\ printed' = printed \o v /\ v' = <<>>
        /\ incomplete' = (incomplete \/ str_buf_overflow)
    BY <1>3 DEF EndSlice
  <2>2. Findings' = (printed \o v) \o <<>>
    BY <2>1 DEF Findings
  <2>3. Findings' = Findings
    BY <2>2, FindingsTypes DEF Findings
  <2> QED  BY <2>1, <2>3 DEF Whole
<1>4. CASE OpenWindow \/ StartSplit \/ Split
  BY <1>1, <1>4 DEF OpenWindow, StartSplit, Split
<1>5. CASE Decode
  <2>1. Decoding
    BY <1>5 DEF Decode, DecodeChar, CompleteChar, StartChar, ContinueChar, InputEmpty,
                Malformed, OutputFull
  <2> QED  BY <1>1, <2>1 DEF Decoding
<1>6. CASE TakeChunk
  <2>1. incomplete' = incomplete /\ str_buf_overflow' = str_buf_overflow /\ printed' = printed
    BY <1>6 DEF TakeChunk
  <2>2. CASE Chunk.s_is_to_be_filtered_again
    <3>1. v' = v
      BY <1>6, <2>2 DEF TakeChunk
    <3> QED  BY <1>1, <2>1, <3>1
  <2>3. CASE ~Chunk.s_is_to_be_filtered_again
    <3>1. v' = Append(v, NewFinding)
      BY <1>6, <2>3 DEF TakeChunk
    <3>2. NewFinding \in FindingType
      BY <1>6, NewFindingFacts DEF TakeChunk, IInv
    <3>3. Findings' = Append(Findings, NewFinding)
      BY <2>1, <3>1, <3>2, FindingsTypes DEF Findings
    <3> QED  BY <1>6, <2>1, <2>3, <3>3 DEF FindingAdded, Whole
  <2> QED  BY <2>2, <2>3
<1>7. CASE AfterChunks
  <2>1. /\ printed' = printed /\ incomplete' = incomplete
        /\ str_buf_overflow' \/ (v' = v /\ str_buf_overflow' = str_buf_overflow)
    BY <1>7 DEF AfterChunks, IInv, TypeOK
  <2> QED  BY <1>1, <2>1 DEF Whole
<1>8. CASE Stopped \/ UNCHANGED vars
  BY <1>1, <1>8 DEF Stopped, vars
<1> QED  BY <1>2, <1>3, <1>4, <1>5, <1>6, <1>7, <1>8 DEF Next, ScanStep

\* Outside of the iterator, in a step that only moves what is pending.
LEMMA FlagFrame ==
  ASSUME FlagInv, Whole' => Whole, Findings' = Findings, Pending' = Pending,
         NextPos' = NextPos, FlagSet' => FlagSet, step \in {"idle", "window"}
  PROVE  FlagInv'
<1>1. LastFinding' = LastFinding
  BY DEF LastFinding
<1>2. ASSUME NEW pos PROVE Follows(pos) => (Findings' # <<>> /\
                 (Len(LastFinding'.s) = LineLen \/ StopOf(LastFinding') = pos))
  BY <1>1 DEF Follows
<1> QED  BY <1>1, <1>2 DEF FlagInv, Follows, StopOf

LEMMA ContinuationsFrame ==
  ASSUME ContinuationFollows, Whole' => Whole, Findings' = Findings
  PROVE  ContinuationFollows'
BY DEF ContinuationFollows, Whole, StopOf, StartOf

\* The iterator is given the flag, and with it what the flag says.
LEMMA StartSplitCont ==
  ASSUME IInv, PendingInv, ContInv, StartSplit, Whole' => Whole, Findings' = Findings
  PROVE  FlagInv' /\ FirstResultInv' /\ LaterResultInv' /\ CutResultsInv'
<1>1. /\ step = "decoded" /\ step' \in {"split", "panicked"}
      /\ step' = "split" =>
            /\ text' = last_window_leftover \o text /\ ~cut_flag'
            /\ last_s_was_maybe_cut' = cut_flag
            /\ pc' = "loop" /\ results' = <<>>
  BY DEF StartSplit, SP!New
<1>2. LastFinding' = LastFinding
  BY DEF LastFinding
<1>3. ASSUME step' = "split" PROVE Taken' = 0
  BY <1>1, <1>3 DEF Taken
<1>4. ASSUME Whole', step' = "split", MayContinue', text' # <<>>
      PROVE  Follows(text[1].at)'
  <2>1. cut_flag /\ Whole
    BY <1>1, <1>4 DEF MayContinue
  <2>2. Pending = text'
    BY <1>1, <1>4 DEF Pending
  <2>3. Follows(Pending[1].at)
    BY <1>1, <1>4, <2>1, <2>2 DEF ContInv, FlagInv, FlagSet
  <2> QED  BY <1>2, <2>2, <2>3 DEF Follows, StopOf
<1>5. FirstResultInv'
  BY <1>1, <1>4 DEF FirstResultInv
<1>6. LaterResultInv' /\ CutResultsInv'
  <2>1. step' = "split" => Len(results') = 0
    BY <1>1
  <2> QED  BY <1>3, <2>1 DEF LaterResultInv, CutResultsInv
<1> QED  BY <1>1, <1>5, <1>6 DEF FlagInv

\* A step of the iterator takes no result, and gives the flag to a first result only.
LEMMA SplitCont ==
  ASSUME IInv, ContInv, Split, Whole' => Whole, Findings' = Findings
  PROVE  FlagInv' /\ FirstResultInv' /\ LaterResultInv' /\ CutResultsInv'
<1>1. /\ step = "split" /\ step' = step /\ SP!NextStep
      /\ UNCHANGED <<text, cut_flag, decoder_result, is_last_window, is_last_input_buffer>>
      /\ InvalidBytesAfter' = InvalidBytesAfter
  BY DEF Split, ss_vars, param_vars, window_vars, call_vars, InvalidBytesAfter
<1>2. LastFinding' = LastFinding
  BY DEF LastFinding
<1>3. Taken' = Taken /\ Taken \in Nat /\ (Taken # 0 => results'[Taken] = results[Taken])
  <2>1. Taken \in Nat
    <3>1. pc = "returned" => results # <<>>
      BY DEF IInv, SplitInv, Iter!IteratorInv, Iter!PlaceInv
    <3>2. pc = "returned" => Len(results) >= 1
      BY <3>1, ResultsOrder
    <3> QED  BY <3>2, ResultsOrder DEF Taken
  <2>2. Taken # 0 => Taken \in 1 .. Taken
    BY <2>1
  <2> QED  BY <2>1, <2>2, SplitTaken
<1>4. LaterResultInv'
  BY <1>1, <1>2, <1>3 DEF ContInv, LaterResultInv, StopOf
<1>5. results \in Seq(Iter!Result) /\ Len(results) \in Nat
  BY ResultsOrder
<1>6. inp = Leads(text) /\ Len(inp) = Len(text) /\ invalid_bytes_after_inp = InvalidBytesAfter
  BY <1>1, TextTypes DEF IInv, SplitInv, TypeOK
<1>7. CASE SP!Return
  <2>1. PICK r : /\ results' = Append(results, r)
                 /\ r.from = ok_s_p /\ r.nb = ok_char_nb
                 /\ r.s_completes_previous_s = SP!CompletesPrevious
                 /\ r.s_is_maybe_cut = SP!IsMaybeCut
    BY <1>7 DEF SP!Return
  <2>2. /\ Len(results') = Len(results) + 1 /\ results'[Len(results) + 1] = r
        /\ \A k \in 1 .. Len(results) : results'[k] = results[k]
    BY <1>5, <2>1
  <2>3. pc \in {"loop", "break"} /\ pc' = "returned"
    BY <1>7 DEF SP!Return, SP!LoopLeft
  <2>4. Taken = 0 /\ MayContinue' => MayContinue
    <3> SUFFICES ASSUME Taken = 0, MayContinue' PROVE MayContinue
      OBVIOUS
    <3>1. results = <<>> /\ Len(results) = 0
      BY <1>5, <2>3 DEF Taken
    <3>2. results'[1] = r /\ results' # <<>>
      BY <2>2, <3>1
    <3>3. SP!CompletesPrevious
      BY <2>1, <3>2 DEF MayContinue
    <3> QED  BY <2>3, <3>1, <3>3 DEF MayContinue, SP!CompletesPrevious, Iter!Iterating
  <2>5. FirstResultInv'
    BY <1>1, <1>2, <1>3, <2>4 DEF ContInv, FirstResultInv, Follows, StopOf
  <2>6. r.s_is_maybe_cut =>
           \/ r.nb >= LineLen
           \/ r.from + r.nb > Len(text) /\ ~InvalidBytesAfter
    BY <1>6, <2>1 DEF SP!IsMaybeCut, SP!TouchesRight, CharMax
  <2>7. ASSUME NEW k \in 1 .. Len(results'), results'[k].s_is_maybe_cut
        PROVE  \/ results'[k].nb >= LineLen
               \/ results'[k].from + results'[k].nb > Len(text) /\ ~InvalidBytesAfter
    <3>1. k \in 1 .. Len(results) \/ k = Len(results) + 1
      BY <1>5, <2>2, <2>7
    <3>2. CASE k \in 1 .. Len(results)
      BY <1>1, <2>2, <2>7, <3>2 DEF ContInv, CutResultsInv
    <3>3. CASE k = Len(results) + 1
      BY <2>2, <2>6, <2>7, <3>3
    <3> QED  BY <3>1, <3>2, <3>3
  <2>8. CutResultsInv'
    BY <1>1, <2>7 DEF CutResultsInv
  <2> QED  BY <1>1, <1>4, <2>5, <2>8 DEF FlagInv
<1>8. CASE ~SP!Return
  <2>1. /\ results' = results /\ last_s_was_maybe_cut' = last_s_was_maybe_cut
        /\ pc \in {"loop", "break"}
    BY <1>1, <1>8 DEF SP!NextStep, SP!Accept, SP!Restart, SP!Break, SP!Exhaust,
                      SP!InLoop, SP!LoopLeft, SP!iterator_vars
  <2>2. MayContinue' => MayContinue
    BY <2>1 DEF MayContinue, Iter!Iterating
  <2>3. FirstResultInv'
    BY <1>1, <1>2, <1>3, <2>2 DEF ContInv, FirstResultInv, Follows, StopOf
  <2>4. CutResultsInv'
    BY <1>1, <2>1 DEF ContInv, CutResultsInv
  <2> QED  BY <1>1, <1>4, <2>3, <2>4 DEF FlagInv
<1> QED  BY <1>7, <1>8

\* A chunk that is said to continue the last finding does so.
LEMMA ChunkContinues ==
  ASSUME IInv, PendingInv, ContInv, step = "split", pc = "returned", Whole,
         Chunk.s_completes_previous_s
  PROVE  Follows(text[Chunk.from].at)
<1> DEFINE n == Len(results)
<1>1. /\ Pending = text /\ Contiguous(text) /\ text \in Seq(Char)
  BY TextTypes DEF Pending, PendingInv, IInv, TypeOK
<1>2. /\ results # <<>> /\ n \in Nat /\ n >= 1 /\ Chunk = results[n] /\ Taken = n - 1
      /\ Chunk.from \in Nat /\ Chunk.from >= 1 /\ Chunk.nb \in Nat /\ Chunk.nb >= 1
      /\ Chunk.from + Chunk.nb <= Len(text) + 1 /\ Len(text) \in Nat
  <2>1. results # <<>> /\ n \in Nat /\ n >= 1
    BY ChunkFacts, ResultsOrder DEF IInv
  <2> QED  BY <2>1, ChunkFacts DEF IInv, Chunk, Taken
<1>3. /\ Iter!ContinuesInv /\ Iter!KeptStringIsLast /\ inp = Leads(text) /\ Len(inp) = Len(text)
  BY <1>1, TextTypes DEF IInv, SplitInv, TypeOK, Iter!IteratorInv, Iter!ResultsInv
<1> HIDE DEF n
<1>4. CASE n = 1
  <2>1. MayContinue /\ Taken = 0
    BY <1>2, <1>4 DEF MayContinue
  <2>2. Chunk.from = 1
    BY <1>2, <1>3, <1>4 DEF Iter!ContinuesInv, n
  <2>3. text # <<>>
    BY <1>2
  <2> QED  BY <2>1, <2>2, <2>3 DEF ContInv, FirstResultInv
<1>5. CASE n > 1
  <2> DEFINE m == n - 1
             q == results[m]
  <2>1. m \in 1 .. n /\ m >= 1 /\ n \in 1 .. n /\ n # 1 /\ Taken = m /\ m # 0
    BY <1>2, <1>5
  <2>2. q.s_is_maybe_cut /\ Chunk.from = q.from + q.nb
    BY <1>2, <1>3, <2>1 DEF Iter!ContinuesInv, Iter!EndOf, n
  <2>3. q.from \in Nat /\ q.from >= 1 /\ q.nb \in Nat /\ q.nb >= 1
    BY <2>1, ResultBounds DEF n
  <2>4. ~q.s_is_to_be_filtered_again
    <3> SUFFICES ASSUME q.s_is_to_be_filtered_again PROVE FALSE
      OBVIOUS
    <3>1. q.from + q.nb = Len(text) + 1
      BY <1>3, <2>1 DEF Iter!KeptStringIsLast, Iter!EndOf, n
    <3> QED  BY <1>2, <2>2, <3>1
  <2> HIDE DEF q, m
  <2>5. Findings # <<>> /\ StopOf(LastFinding) = text[q.from + q.nb - 1].end
    BY <2>1, <2>4 DEF ContInv, LaterResultInv, q
  <2>6. /\ q.from + q.nb - 1 \in 1 .. Len(text) - 1
        /\ (q.from + q.nb - 1) + 1 = Chunk.from
    <3>1. Chunk.from = q.from + q.nb /\ Chunk.from \in 1 .. Len(text) /\ Len(text) \in Nat
      BY <1>2, <2>2
    <3> QED  BY <2>3, <3>1
  <2>7. text[q.from + q.nb - 1].end = text[Chunk.from].at
    BY <1>1, <2>6 DEF Contiguous
  <2> QED  BY <2>5, <2>7 DEF Follows
<1> QED  BY <1>2, <1>4, <1>5

LEMMA TakeChunkCont ==
  ASSUME IInv, PendingInv, ContInv, TakeChunk, Whole' => Whole,
         Whole' => Findings' = Findings \/ FindingAdded
  PROVE  /\ FlagInv' /\ FirstResultInv' /\ LaterResultInv' /\ CutResultsInv'
         /\ ContinuationFollows'
<1> DEFINE n == Len(results)
<1>1. /\ step = "split" /\ step' = step /\ pc = "returned" /\ pc' = "loop"
      /\ UNCHANGED <<text, results>> /\ InvalidBytesAfter' = InvalidBytesAfter
      /\ cut_flag' => Chunk.s_is_maybe_cut /\ ~Chunk.s_is_to_be_filtered_again
  BY DEF TakeChunk, SP!CallNext, InvalidBytesAfter, call_vars, window_vars, param_vars
<1>2. /\ n \in Nat /\ n >= 1 /\ Chunk = results[n] /\ Taken' = n
  <2>1. n \in Nat /\ n >= 1
    BY <1>1, ChunkFacts, ResultsOrder DEF IInv
  <2> QED  BY <1>1, <2>1 DEF Chunk, Taken
<1>3. CutResultsInv'
  BY <1>1 DEF ContInv, CutResultsInv
<1>4. FirstResultInv'
  BY <1>1, <1>2 DEF FirstResultInv
<1>5. /\ Len(NewFinding.s) = Chunk.nb
      /\ StopOf(NewFinding) = text[Chunk.from + Chunk.nb - 1].end
      /\ StartOf(NewFinding) = text[Chunk.from].at
      /\ NewFinding.s_completes_previous_s = Chunk.s_completes_previous_s
  BY <1>1, NewFindingPlace, NewFindingFacts DEF IInv
<1>6. /\ Findings \in Seq(FindingType) /\ Len(Findings) \in Nat
  BY FindingsTypes
<1>7. CASE ~Whole'
  BY <1>1, <1>3, <1>4, <1>7 DEF FlagInv, LaterResultInv, ContinuationFollows, Whole
<1>8. CASE Whole' /\ Findings' = Findings
  <2>1. Chunk.s_is_to_be_filtered_again
    <3> SUFFICES ASSUME ~Chunk.s_is_to_be_filtered_again PROVE FALSE
      OBVIOUS
    <3>1. v' = Append(v, NewFinding) /\ printed' = printed
      BY DEF TakeChunk, returned_vars
    <3>2. NewFinding \in FindingType
      BY <1>1, NewFindingFacts DEF IInv
    <3>3. Findings' = Append(Findings, NewFinding)
      BY <3>1, <3>2, FindingsTypes DEF Findings
    <3> QED  BY <1>6, <1>8, <3>3
  <2>2. LaterResultInv'
    BY <1>1, <1>2, <2>1 DEF LaterResultInv
  <2>3. ContinuationFollows'
    BY <1>8, ContinuationsFrame DEF ContInv
  <2> QED  BY <1>1, <1>3, <1>4, <2>2, <2>3 DEF FlagInv
<1>9. CASE Whole' /\ FindingAdded
  <2> DEFINE g == Findings'
             f == NewFinding
             len == Len(Findings)
  <2>1. /\ Len(g) = len + 1 /\ g[len + 1] = f /\ g # <<>>
        /\ \A i \in 1 .. len : g[i] = Findings[i]
        /\ ~Chunk.s_is_to_be_filtered_again
    BY <1>6, <1>9 DEF FindingAdded
  <2>2. LastFinding' = f
    BY <2>1 DEF LastFinding
  <2>3. LaterResultInv'
    BY <1>1, <1>2, <1>5, <2>1, <2>2 DEF LaterResultInv, StopOf
  <2>4. ASSUME f.s_completes_previous_s
        PROVE  /\ len >= 1
               /\ StopOf(Findings[len]) = StartOf(f) \/ Len(Findings[len].s) = LineLen
    <3>1. Follows(text[Chunk.from].at)
      BY <1>1, <1>5, <1>9, <2>4, ChunkContinues
    <3>2. len >= 1
      BY <1>6, <3>1 DEF Follows
    <3> QED  BY <1>5, <3>1, <3>2 DEF Follows, LastFinding
  <2> HIDE DEF g, f, len
  <2>5. ASSUME NEW i \in 1 .. Len(g), g[i].s_completes_previous_s
        PROVE  /\ i > 1
               /\ StopOf(g[i - 1]) = StartOf(g[i]) \/ Len(g[i - 1].s) = LineLen
    <3>1. len \in Nat /\ i \in 1 .. len + 1
      BY <1>6, <2>1, <2>5 DEF len
    <3>2. CASE i = len + 1
      <4>1. len >= 1 /\ i - 1 = len /\ len \in 1 .. len
        BY <2>1, <2>4, <2>5, <3>1, <3>2
      <4> QED  BY <2>1, <2>4, <2>5, <3>1, <3>2, <4>1
    <3>3. CASE i \in 1 .. len
      <4>1. /\ i > 1
            /\ \/ StopOf(Findings[i - 1]) = StartOf(Findings[i])
               \/ Len(Findings[i - 1].s) = LineLen
        BY <1>9, <2>1, <2>5, <3>3 DEF ContInv, ContinuationFollows, Whole, len
      <4>2. i - 1 \in 1 .. len
        BY <3>1, <3>3, <4>1
      <4> QED  BY <2>1, <3>3, <4>1, <4>2
    <3> QED  BY <3>1, <3>2, <3>3
  <2>6. ContinuationFollows'
    BY <2>5 DEF ContinuationFollows, StopOf, StartOf, g
  <2> QED  BY <1>1, <1>3, <1>4, <2>3, <2>6 DEF FlagInv
<1> QED  BY <1>7, <1>8, <1>9

\* The flag is set for the next text: the last finding was cut at the end of this one.
LEMMA AfterChunksCont ==
  ASSUME IInv, PendingInv, KeptOrCutInv, ContInv, AfterChunks, Whole' => Whole,
         Whole' => Findings' = Findings
  PROVE  FlagInv'
<1>1. /\ step = "split" /\ pc = "exhausted" /\ cut_flag' = cut_flag
      /\ step' \in {"decode", "window"} /\ text' = <<>>
  BY DEF AfterChunks, IInv, TypeOK
<1>2. NextPos' = NextPos /\ Pending' = last_window_leftover /\ Pending = text
  BY <1>1, AfterChunksPending DEF Pending
<1> SUFFICES ASSUME Whole', cut_flag
             PROVE  Pending' = <<>> /\ Follows(NextPos)'
  BY <1>1 DEF FlagInv, FlagSet
<1>3. Whole /\ Findings' = Findings /\ LastFinding' = LastFinding
  BY DEF LastFinding
<1>4. Pending' = <<>>
  BY <1>2 DEF KeptOrCutInv
<1> DEFINE n == Len(results)
           q == results[n]
<1>5. /\ Taken = n /\ n # 0 /\ n \in 1 .. n
  <2>1. Taken = n /\ n \in Nat
    BY <1>1, ResultsOrder DEF Taken
  <2>2. n # 0
    BY <1>1, <1>3, <2>1 DEF ContInv, FirstResultInv
  <2> QED  BY <2>1, <2>2
<1>6. /\ q.from \in Nat /\ q.from >= 1 /\ q.nb \in Nat /\ q.nb >= 1 /\ q.nb <= LineLen
      /\ q.from + q.nb <= Len(text) + 1 /\ Len(text) \in Nat /\ LineLen \in Nat
  BY <1>1, <1>5, ResultBounds
<1>7. /\ q.s_is_maybe_cut /\ Findings # <<>> /\ Len(LastFinding.s) = q.nb
      /\ StopOf(LastFinding) = text[q.from + q.nb - 1].end
  BY <1>1, <1>3, <1>5 DEF ContInv, LaterResultInv
<1>8. q.nb >= LineLen \/ (q.from + q.nb > Len(text) /\ ~InvalidBytesAfter)
  BY <1>1, <1>5, <1>7 DEF ContInv, CutResultsInv
<1> HIDE DEF q, n
<1>9. CASE q.nb >= LineLen
  <2>1. Len(LastFinding.s) = LineLen
    BY <1>6, <1>7, <1>9
  <2> QED  BY <1>3, <1>4, <1>7, <2>1 DEF Follows
<1>10. CASE q.from + q.nb > Len(text) /\ ~InvalidBytesAfter
  <2>1. q.from + q.nb - 1 = Len(text) /\ text # <<>>
    BY <1>6, <1>10
  <2>2. text[Len(text)].end = NextPos
    BY <1>1, <1>2, <1>10, <2>1 DEF PendingInv, InvalidBytesAfter
  <2>3. StopOf(LastFinding) = NextPos
    BY <1>7, <2>1, <2>2
  <2> QED  BY <1>2, <1>3, <1>4, <1>7, <2>3 DEF Follows, StopOf
<1> QED  BY <1>8, <1>9, <1>10

\* The first character that is decoded then is the one behind the last finding.
LEMMA DecodeCont ==
  ASSUME IInv, PendingInv, ContInv, Decode, Whole' => Whole, Findings' = Findings
  PROVE  FlagInv'
<1>1. Decoding /\ step = "decode" /\ step' \in {"decode", "decoded"} /\ cut_flag' = cut_flag
  BY DEF Decode, DecodeChar, CompleteChar, StartChar, ContinueChar, InputEmpty,
         Malformed, OutputFull, Write, EndCall, Decoding
<1> SUFFICES ASSUME Whole', cut_flag
             PROVE  \/ Pending' # <<>> /\ Follows(Pending[1].at)'
                    \/ Pending' = <<>> /\ Follows(NextPos)'
                    \/ Pending' = <<>> /\ step' = "decoded" /\ decoder_result' = "Malformed"
  BY <1>1 DEF FlagInv, FlagSet
<1>2. LastFinding' = LastFinding
  BY DEF LastFinding
<1>3. \/ Pending # <<>> /\ Follows(Pending[1].at)
      \/ Pending = <<>> /\ Follows(NextPos)
  BY <1>1 DEF ContInv, FlagInv, FlagSet
<1>4. ASSUME NEW pos, Follows(pos)
      PROVE  Findings' # <<>> /\ (Len(LastFinding'.s) = LineLen \/ StopOf(LastFinding') = pos)
  BY <1>2, <1>4 DEF Follows
<1>5. CASE /\ Pending' = Pending
           /\ NextPos' = NextPos \/ (step' = "decoded" /\ decoder_result' = "Malformed")
  BY <1>3, <1>4, <1>5 DEF Follows, StopOf
<1>6. ASSUME NEW char \in Char, Pending' = Append(Pending, char), char.at = NextPos
      PROVE  Pending' # <<>> /\ Follows(Pending[1].at)'
  <2>1. Pending \in Seq(Char) /\ Len(Pending) \in Nat
    BY PendingTypes
  <2>2. /\ Pending' # <<>>
        /\ Pending'[1] = IF Pending = <<>> THEN char ELSE Pending[1]
    BY <1>6, <2>1
  <2> QED  BY <1>3, <1>4, <1>6, <2>2 DEF Follows, StopOf
<1> QED  BY <1>5, <1>6, DecodePending

LEMMA NextKeepsCont ==
  ASSUME IInv, PendingInv, KeptOrCutInv, ContInv, [Next]_vars
  PROVE  ContInv'
<1>1. /\ Whole' => Whole
      /\ Whole' => Findings' = Findings \/ FindingAdded
  BY WholeStep DEF ContInv
<1>2. ~TakeChunk => (Whole' => Findings' = Findings)
  BY <1>1 DEF FindingAdded
<1>3. ~TakeChunk => ContinuationFollows'
  BY <1>1, <1>2, ContinuationsFrame DEF ContInv, ContinuationFollows, Whole
<1>4. ASSUME step' # "split" PROVE FirstResultInv' /\ LaterResultInv' /\ CutResultsInv'
  BY <1>4 DEF FirstResultInv, LaterResultInv, CutResultsInv
<1>5. CASE Begin
  <2>1. /\ step = "idle" /\ step' \in {"window", "panicked"} /\ ~TakeChunk
        /\ FlagSet' => FlagSet
    BY <1>5 DEF Begin, TakeChunk, FlagSet
  <2>2. FlagInv'
    BY <1>1, <1>2, <1>5, <2>1, BeginPending, FlagFrame DEF ContInv, FlagInv
  <2> QED  BY <1>3, <1>4, <2>1, <2>2 DEF ContInv, OverflowIsTold
<1>6. CASE OpenWindow
  <2>1. /\ step = "window" /\ step' = "decode" /\ ~TakeChunk
        /\ FlagSet' => FlagSet
    BY <1>6 DEF OpenWindow, TakeChunk, FlagSet
  <2>2. FlagInv'
    BY <1>1, <1>2, <1>6, <2>1, OpenWindowPending, FlagFrame DEF ContInv, FlagInv
  <2> QED  BY <1>3, <1>4, <2>1, <2>2 DEF ContInv, OverflowIsTold
<1>7. CASE EndSlice
  <2>1. /\ step = "window" /\ step' = "idle" /\ ~TakeChunk
        /\ FlagSet' => FlagSet
        /\ incomplete' = (incomplete \/ str_buf_overflow)
        /\ str_buf_overflow' = str_buf_overflow
    BY <1>7 DEF EndSlice, TakeChunk, FlagSet
  <2>2. FlagInv'
    BY <1>1, <1>2, <1>7, <2>1, EndSlicePending, FlagFrame DEF ContInv, FlagInv
  <2> QED  BY <1>3, <1>4, <2>1, <2>2 DEF ContInv, OverflowIsTold
<1>8. CASE Decode
  <2>1. /\ step' \in {"decode", "decoded"} /\ ~TakeChunk
    BY <1>8 DEF Decode, DecodeChar, CompleteChar, StartChar, ContinueChar, InputEmpty,
                Malformed, OutputFull, Write, EndCall, Decoding, TakeChunk
  <2>2. FlagInv'
    BY <1>1, <1>2, <1>8, <2>1, DecodeCont DEF FlagInv
  <2> QED  BY <1>3, <1>4, <2>1, <2>2 DEF ContInv, OverflowIsTold
<1>9. CASE StartSplit
  <2>1. step' \in {"split", "panicked"} /\ ~TakeChunk /\ v' = v /\ printed' = printed
    BY <1>9 DEF StartSplit, TakeChunk, collection_vars, returned_vars
  <2>2. Findings' = Findings
    BY <2>1 DEF Findings
  <2>3. FlagInv' /\ FirstResultInv' /\ LaterResultInv' /\ CutResultsInv'
    BY <1>1, <1>9, <2>2, StartSplitCont
  <2> QED  BY <1>3, <2>1, <2>3 DEF ContInv, OverflowIsTold
<1>10. CASE Split
  <2>1. step' = "split" /\ ~TakeChunk /\ v' = v /\ printed' = printed
    BY <1>10 DEF Split, TakeChunk, SP!NextStep, SP!Accept, SP!Restart, SP!Break,
                 SP!Exhaust, SP!Return, SP!InLoop, SP!LoopLeft, collection_vars, returned_vars
  <2>2. Findings' = Findings
    BY <2>1 DEF Findings
  <2>3. FlagInv' /\ FirstResultInv' /\ LaterResultInv' /\ CutResultsInv'
    BY <1>1, <1>10, <2>2, SplitCont
  <2> QED  BY <1>3, <2>1, <2>3 DEF ContInv, OverflowIsTold
<1>11. CASE TakeChunk
  <2>1. step' = "split"
    BY <1>11 DEF TakeChunk
  <2>2. /\ FlagInv' /\ FirstResultInv' /\ LaterResultInv' /\ CutResultsInv'
        /\ ContinuationFollows'
    BY <1>1, <1>11, TakeChunkCont
  <2> QED  BY <2>1, <2>2 DEF ContInv, OverflowIsTold
<1>12. CASE AfterChunks
  <2>1. step' # "split" /\ step' # "idle" /\ ~TakeChunk
    BY <1>12, AfterChunksPending DEF AfterChunks, IInv, TypeOK, TakeChunk
  <2>2. FlagInv'
    BY <1>1, <1>2, <1>12, <2>1, AfterChunksCont
  <2> QED  BY <1>3, <1>4, <2>1, <2>2 DEF ContInv, OverflowIsTold
<1>13. CASE Stopped \/ UNCHANGED vars
  <2>1. UNCHANGED vars
    BY <1>13 DEF Stopped
  <2>2. UNCHANGED <<step, decoder, consumed_bytes, decoder_result, text, results, pc,
                    last_s_was_maybe_cut, cut_flag, is_last_window, is_last_input_buffer,
                    last_run_str_was_printed_and_is_maybe_cut_str, incomplete,
                    str_buf_overflow, printed, v>>
    BY <2>1 DEF vars, split_vars, ss_vars, call_vars, window_vars, param_vars,
                returned_vars, collection_vars
  <2>3. /\ NextPos' = NextPos /\ Pending' = Pending /\ Findings' = Findings
        /\ LastFinding' = LastFinding /\ Taken' = Taken
        /\ InvalidBytesAfter' = InvalidBytesAfter /\ Whole' = Whole /\ FlagSet' = FlagSet
    BY <2>1, <2>2, StutterPending
       DEF Findings, LastFinding, Taken, InvalidBytesAfter, Whole, FlagSet
  <2>4. FlagInv'
    BY <2>2, <2>3 DEF ContInv, FlagInv, Follows, StopOf
  <2>5. FirstResultInv' /\ LaterResultInv' /\ CutResultsInv'
    BY <2>2, <2>3 DEF ContInv, FirstResultInv, LaterResultInv, CutResultsInv, MayContinue,
                      Iter!Iterating, Follows, StopOf
  <2>6. ContinuationFollows'
    BY <2>2, <2>3 DEF ContInv, ContinuationFollows, StopOf, StartOf
  <2> QED  BY <2>2, <2>4, <2>5, <2>6 DEF ContInv, OverflowIsTold
<1> QED  BY <1>5, <1>6, <1>7, <1>8, <1>9, <1>10, <1>11, <1>12, <1>13 DEF Next, ScanStep

LEMMA ContInvariant == Spec => []ContInv
<1>1. Init => KeptOrCutInv /\ ContInv
  <2> SUFFICES ASSUME Init PROVE KeptOrCutInv /\ ContInv
    OBVIOUS
  <2>1. /\ Findings = <<>> /\ step = "idle" /\ ~FlagSet /\ ~str_buf_overflow
    BY DEF Init, Findings, FlagSet
  <2>2. KeptOrCutInv
    BY DEF Init, KeptOrCutInv
  <2> QED  BY <2>1, <2>2 DEF ContInv, OverflowIsTold, FlagInv, FirstResultInv,
                             LaterResultInv, CutResultsInv, ContinuationFollows
<1>2. StreamInv /\ KeptOrCutInv /\ ContInv /\ [Next]_vars => KeptOrCutInv' /\ ContInv'
  BY NextKeepsKeptOrCut, NextKeepsCont DEF StreamInv
<1> QED  BY <1>1, <1>2, StreamInvariant, PTL DEF Spec

\* A line marked `+' starts at the byte where the finding of this scanner before it
\* stopped, through all windows and slices, unless that one fills its line.
THEOREM ContinuationsFollow == Spec => []ContinuationFollows
<1>1. ContInv => ContinuationFollows
  BY DEF ContInv
<1> QED  BY <1>1, ContInvariant, PTL

-----------------------------------------------------------------------------
(* The first line of a string is not lost.                                 *)

\* How many characters of the stream are no longer pending.
Passed == Len(stream) - Len(Pending)

Found(c) == \E k \in 1 .. Len(Findings) : In(c, Findings[k].s)

TakenIn(i) ==
    \E k \in 1 .. Len(Findings) :
        Findings[k].s_completes_previous_s /\ Findings[k].s[1] = stream[i]

\* The stream has been read to its end.
Closed == is_last_window /\ is_last_input_buffer /\ decoder_read = decoder_input_end

\* What is pending, or what is decoded next, may continue the string before it.
GoesOn ==
    IF Pending # <<>> THEN stream[Passed].end = Pending[1].at
                      ELSE stream[Passed].end = NextPos /\ ~Closed

SuffixInv ==
    /\ Len(Pending) <= Len(stream)
    /\ \A k \in 1 .. Len(Pending) : Pending[k] = stream[Passed + k]

\* An invalid byte leaves a gap in the stream.
GapInv ==
    /\ decoder # NoBytes => decoder.at < StreamEnd
    /\ Len(stream) > 0 =>
          /\ stream[Len(stream)].end <= NextPos
          /\ step \in {"decoded", "split"} /\ decoder_result = "Malformed" =>
                stream[Len(stream)].end < NextPos

IsFirstLine(i, j) == IsString(i, j) /\ j + 1 - i \in CharsMin .. LineLen

\* Of a string that starts before what is pending the first line is in a finding ...
SettledInv ==
    \A i \in 1 .. Passed :
        StartsString(i) /\ ~TakenIn(i) =>
            \A j \in i .. Len(stream) :
                IsFirstLine(i, j) => \A k \in i .. j : Found(stream[k])

\* ... and if it may go on, it has a full line already.
BoundaryInv ==
    Passed > 0 /\ GoesOn =>
        \A i \in 1 .. Passed :
            IsString(i, Passed) /\ StartsString(i) => Passed + 1 - i >= LineLen \/ TakenIn(i)

\* The results that were taken are findings, but for the one that is kept.
IsFindingOf(f, r) ==
    /\ f.s = SubSeq(text, r.from, r.from + r.nb - 1)
    /\ f.s_completes_previous_s = r.s_completes_previous_s

TakenInv ==
    step = "split" =>
        /\ \A k \in 1 .. Taken :
              IF results[k].s_is_to_be_filtered_again
              THEN last_window_leftover = SubSeq(text, results[k].from, Len(text))
              ELSE \E m \in 1 .. Len(Findings) : IsFindingOf(Findings[m], results[k])
        /\ last_window_leftover # <<>> =>
              Taken # 0 /\ results[Taken].s_is_to_be_filtered_again

LostInv ==
    /\ SuffixInv /\ GapInv
    /\ NoGrep /\ Whole => SettledInv /\ BoundaryInv /\ TakenInv

\* A call of the decoder either writes a character, which starts where the decoder
\* stands, or ends; where it meets an invalid byte it gets ahead.
LEMMA DecodeStep ==
  ASSUME IInv, PendingInv, GapInv, Decode
  PROVE  /\ decoder' # NoBytes' => decoder'.at < StreamEnd'
         /\ \/ \E char \in Char :
                  /\ Pending' = Append(Pending, char) /\ stream' = Append(stream, char)
                  /\ char.at = NextPos /\ NextPos' = char.end
                  /\ step' = "decode" /\ decoder_read < decoder_input_end
            \/ /\ Pending' = Pending /\ stream' = stream /\ step' = "decoded"
               /\ decoder_read = decoder_input_end => decoder_read' = decoder_read
               /\ IF decoder_result' = "Malformed" THEN NextPos < NextPos'
                                                   ELSE NextPos' = NextPos
<1>1. Decoding
  BY DEF Decode, DecodeChar, CompleteChar, StartChar, ContinueChar, InputEmpty,
         Malformed, OutputFull
<1>2. /\ step = "decode" /\ consumed_bytes \in Nat /\ decoder_read \in Nat
      /\ decoder_input_end \in Nat /\ decoder_read <= decoder_input_end
      /\ decoder.lead \in SP!LeadingBytes /\ decoder.at \in Nat /\ decoder.left \in Nat
      /\ consumed_bytes' = consumed_bytes /\ last_window_leftover' = last_window_leftover
  BY <1>1, DecodingFrame DEF IInv, TypeOK
<1>3. StreamEnd = consumed_bytes + decoder_read /\ StreamPos = StreamEnd
      /\ StreamEnd \in Nat /\ NextPos \in Nat /\ NextPos <= StreamEnd
  BY <1>2, PendingTypes DEF StreamEnd, StreamPos
<1>4. /\ text \in Seq(Char) /\ last_window_leftover \in Seq(Char)
      /\ Pending = last_window_leftover \o text
  BY <1>2, TextTypes DEF IInv, TypeOK, Pending
<1>5. ASSUME NEW char \in Char, Write(char)
      PROVE  /\ Pending' = Append(Pending, char) /\ stream' = Append(stream, char)
             /\ step' = "decode"
  <2>1. /\ step' = step /\ text' = Append(text, char) /\ stream' = Append(stream, char)
    BY <1>5 DEF Write
  <2>2. Pending' = last_window_leftover \o Append(text, char)
    BY <1>2, <2>1 DEF Pending
  <2>3. last_window_leftover \o Append(text, char) = Append(last_window_leftover \o text, char)
    BY <1>4
  <2> QED  BY <1>2, <1>4, <2>1, <2>2, <2>3
<1>6. ASSUME NEW result, EndCall(result)
      PROVE  /\ Pending' = Pending /\ stream' = stream /\ step' = "decoded"
             /\ decoder_result' = result /\ StreamEnd' = consumed_bytes + decoder_read'
  BY <1>2, <1>6 DEF EndCall, Pending, StreamEnd, StreamPos
<1>7. CASE DecodeChar
  <2>1. decoder = NoBytes /\ decoder' = NoBytes'
    BY <1>7 DEF DecodeChar, NoBytes
  <2>2. PICK c \in Chars :
           /\ Write([lead |-> c.lead, at |-> StreamPos, end |-> StreamPos + c.width])
           /\ decoder_read' = decoder_read + c.width /\ c.width <= Available
    BY <1>7 DEF DecodeChar
  <2> DEFINE char == [lead |-> c.lead, at |-> StreamPos, end |-> StreamPos + c.width]
  <2>3. c.lead \in SP!LeadingBytes /\ c.width \in Nat /\ c.width >= 1
    BY ConstantTypes
  <2>4. char \in Char /\ char.at = StreamPos /\ char.end = StreamPos + c.width
    BY <1>3, <2>3 DEF Char
  <2> HIDE DEF char
  <2>5. Write(char)
    BY <2>2 DEF char
  <2>6. NextPos = StreamPos
    BY <1>3, <2>1 DEF NextPos
  <2>7. step' = "decode" /\ Pending' = Append(Pending, char) /\ stream' = Append(stream, char)
    BY <1>5, <2>4, <2>5
  <2>8. NextPos' = char.end
    <3>1. NextPos' = consumed_bytes + (decoder_read + c.width)
      BY <1>2, <2>1, <2>2, <2>7 DEF NextPos, StreamEnd, StreamPos
    <3> QED  BY <1>2, <1>3, <2>3, <2>4, <3>1
  <2>9. decoder_read < decoder_input_end
    BY <1>2, <2>2, <2>3 DEF Available
  <2> QED  BY <2>1, <2>4, <2>6, <2>7, <2>8, <2>9
<1>8. CASE CompleteChar
  <2> DEFINE char == [lead |-> decoder.lead, at |-> decoder.at, end |-> StreamPos + decoder.left]
  <2>1. /\ decoder' = NoBytes /\ decoder.left \in 1 .. Available
        /\ Write(char) /\ decoder_read' = decoder_read + decoder.left
    BY <1>8 DEF CompleteChar
  <2>2. decoder # NoBytes
    BY <1>2, <2>1 DEF NoBytes, Available
  <2>3. NextPos = decoder.at
    BY <2>2 DEF NextPos
  <2>4. char \in Char /\ char.at = decoder.at /\ char.end = StreamPos + decoder.left
    BY <1>2, <1>3 DEF Char
  <2> HIDE DEF char
  <2>5. step' = "decode" /\ Pending' = Append(Pending, char) /\ stream' = Append(stream, char)
    BY <1>5, <2>1, <2>4
  <2>6. NextPos' = char.end
    <3>1. NextPos' = consumed_bytes + (decoder_read + decoder.left)
      BY <1>2, <2>1, <2>5 DEF NextPos, StreamEnd, StreamPos, NoBytes
    <3> QED  BY <1>2, <1>3, <2>4, <3>1
  <2>7. decoder_read < decoder_input_end
    BY <1>2, <2>1 DEF Available
  <2> QED  BY <2>1, <2>3, <2>4, <2>5, <2>6, <2>7 DEF NoBytes
<1>9. CASE StartChar
  <2>1. /\ decoder = NoBytes /\ Available > 0 /\ decoder_read' = decoder_input_end
        /\ EndCall("InputEmpty")
    BY <1>9 DEF StartChar
  <2>2. PICK c \in Chars :
           /\ c.width > Available
           /\ decoder' = [lead |-> c.lead, at |-> StreamPos, left |-> c.width - Available]
    BY <1>9 DEF StartChar
  <2>3. decoder' # NoBytes' /\ decoder'.at = StreamPos
    <3>1. c.width \in Nat
      BY ConstantTypes
    <3>2. decoder'.left = c.width - Available /\ c.width - Available >= 1
      BY <1>2, <2>1, <2>2, <3>1 DEF Available
    <3> QED  BY <2>2, <3>2 DEF NoBytes
  <2>4. NextPos = StreamPos /\ NextPos' = StreamPos
    BY <1>3, <2>1, <2>3 DEF NextPos
  <2>5. StreamEnd' = consumed_bytes + decoder_input_end /\ decoder_read < decoder_input_end
    BY <1>2, <1>6, <2>1 DEF Available
  <2>6. StreamPos < StreamEnd'
    BY <1>2, <1>3, <2>5
  <2>7. decoder_result' = "InputEmpty"
    BY <1>6, <2>1
  <2>8. /\ Pending' = Pending /\ stream' = stream /\ step' = "decoded"
    BY <1>6, <2>1
  <2> QED  BY <1>2, <2>3, <2>4, <2>5, <2>6, <2>7, <2>8
<1>10. CASE ContinueChar
  <2>1. /\ Available > 0 /\ decoder.left > Available
        /\ decoder' = [decoder EXCEPT !.left = @ - Available]
        /\ decoder_read' = decoder_input_end /\ EndCall("InputEmpty")
    BY <1>10 DEF ContinueChar
  <2>2. decoder # NoBytes
    BY <1>2, <2>1 DEF NoBytes, Available
  <2>3. decoder' # NoBytes' /\ decoder'.at = decoder.at
    <3>1. decoder \in [lead : SP!LeadingBytes, at : Nat, left : Nat]
      BY DEF IInv, TypeOK
    <3>2. decoder'.at = decoder.at /\ decoder'.left = decoder.left - Available
      BY <2>1, <3>1
    <3>3. decoder.left - Available >= 1
      BY <1>2, <2>1 DEF Available
    <3> QED  BY <3>2, <3>3 DEF NoBytes
  <2>4. NextPos = decoder.at /\ NextPos' = decoder.at
    BY <2>2, <2>3 DEF NextPos
  <2>5. StreamEnd' = consumed_bytes + decoder_input_end /\ decoder_read < decoder_input_end
    BY <1>2, <1>6, <2>1 DEF Available
  <2>6. decoder.at < StreamEnd'
    BY <1>2, <1>3, <2>4, <2>5
  <2>7. decoder_result' = "InputEmpty" /\ Pending' = Pending /\ stream' = stream
        /\ step' = "decoded"
    BY <1>6, <2>1
  <2> QED  BY <1>2, <2>3, <2>4, <2>5, <2>6, <2>7
<1>11. CASE InputEmpty \/ OutputFull
  <2>1. /\ EndCall("InputEmpty") \/ EndCall("OutputFull")
        /\ decoder' = decoder /\ decoder_read' = decoder_read
    BY <1>11 DEF InputEmpty, OutputFull
  <2>2. /\ Pending' = Pending /\ stream' = stream /\ step' = "decoded"
        /\ decoder_result' # "Malformed" /\ StreamEnd' = StreamEnd
    BY <1>3, <1>6, <2>1
  <2>3. NextPos' = NextPos
    BY <2>1, <2>2 DEF NextPos, NoBytes
  <2>4. decoder' # NoBytes' => decoder'.at < StreamEnd'
    BY <2>1, <2>2 DEF GapInv, NoBytes
  <2> QED  BY <2>1, <2>2, <2>3, <2>4
<1>12. CASE Malformed
  <2>1. /\ EndCall("Malformed") /\ decoder' = NoBytes
        /\ \/ decoder_read' = decoder_read + 1 /\ Available > 0
           \/ decoder_read' = decoder_read /\ decoder # NoBytes
    BY <1>12 DEF Malformed
  <2>2. /\ Pending' = Pending /\ stream' = stream /\ step' = "decoded"
        /\ decoder_result' = "Malformed" /\ StreamEnd' = consumed_bytes + decoder_read'
    BY <1>6, <2>1
  <2>3. NextPos' = consumed_bytes + decoder_read'
    BY <2>1, <2>2 DEF NextPos, NoBytes
  <2>4. decoder_read = decoder_input_end => decoder_read' = decoder_read
    BY <1>2, <2>1 DEF Available
  <2>5. NextPos < NextPos'
    <3>1. CASE decoder_read' = decoder_read + 1
      BY <1>2, <1>3, <2>3, <3>1
    <3>2. CASE decoder_read' = decoder_read /\ decoder # NoBytes
      BY <1>3, <2>3, <3>2 DEF GapInv, NextPos
    <3> QED  BY <2>1, <3>1, <3>2
  <2> QED  BY <2>1, <2>2, <2>4, <2>5 DEF NoBytes
<1> QED  BY <1>7, <1>8, <1>9, <1>10, <1>11, <1>12 DEF Decode

LEMMA LostTypes ==
  ASSUME IInv, PendingInv, SuffixInv
  PROVE  /\ stream \in Seq(Char) /\ Len(stream) \in Nat
         /\ Pending \in Seq(Char) /\ Len(Pending) \in Nat
         /\ Passed \in Nat /\ Passed + Len(Pending) = Len(stream)
         /\ LineLen \in Nat /\ CharsMin \in Nat
         /\ Pending = <<>> <=> Passed = Len(stream)
<1>1. /\ stream \in Seq(Char) /\ Pending \in Seq(Char) /\ Len(Pending) \in Nat
      /\ Len(Pending) <= Len(stream)
  BY PendingTypes DEF PendingInv, SuffixInv
<1>2. LineLen \in Nat /\ CharsMin \in Nat
  BY ConstantTypes
<1>3. Len(stream) \in Nat /\ (Pending = <<>> <=> Len(Pending) = 0)
  BY <1>1
<1> QED  BY <1>1, <1>2, <1>3 DEF Passed

\* Findings that were there are still there.
Grown ==
    \A k \in 1 .. Len(Findings) : k \in 1 .. Len(Findings') /\ Findings'[k] = Findings[k]

LEMMA StringsStay ==
  ASSUME stream' = stream
  PROVE  \A i, j : /\ IsString(i, j)' <=> IsString(i, j)
                   /\ StartsString(i)' <=> StartsString(i)
                   /\ IsFirstLine(i, j)' <=> IsFirstLine(i, j)
BY DEF IsString, StartsString, IsFirstLine, SP!PassesFilter

LEMMA GrownFindings ==
  ASSUME Grown
  PROVE  /\ \A c : Found(c) => Found(c)'
         /\ \A i : stream'[i] = stream[i] => (TakenIn(i) => TakenIn(i)')
<1>1. \A c : Found(c) => Found(c)'
  <2> SUFFICES ASSUME NEW c, Found(c) PROVE Found(c)'
    OBVIOUS
  <2>1. PICK k \in 1 .. Len(Findings) : In(c, Findings[k].s)
    BY DEF Found
  <2>2. k \in 1 .. Len(Findings') /\ Findings'[k] = Findings[k]
    BY DEF Grown
  <2> QED  BY <2>1, <2>2 DEF Found, In
<1>2. ASSUME NEW i, stream'[i] = stream[i], TakenIn(i)
      PROVE  TakenIn(i)'
  <2>1. PICK k \in 1 .. Len(Findings) :
           Findings[k].s_completes_previous_s /\ Findings[k].s[1] = stream[i]
    BY <1>2 DEF TakenIn
  <2>2. k \in 1 .. Len(Findings') /\ Findings'[k] = Findings[k]
    BY DEF Grown
  <2> QED  BY <1>2, <2>1, <2>2 DEF TakenIn
<1> QED  BY <1>1, <1>2

\* In a step that changes neither the stream nor what is pending.
LEMMA SettledFrame ==
  ASSUME SettledInv, BoundaryInv, Grown, stream' = stream, Pending' = Pending,
         Passed > 0 /\ GoesOn' => GoesOn
  PROVE  SettledInv' /\ BoundaryInv'
<1>1. Passed' = Passed
  BY DEF Passed
<1>2. \A i : TakenIn(i) => TakenIn(i)'
  BY GrownFindings
<1>3. \A c : Found(c) => Found(c)'
  BY GrownFindings
<1>4. SettledInv'
  <2> SUFFICES ASSUME NEW i \in 1 .. Passed, StartsString(i), ~TakenIn(i)',
                      NEW j \in i .. Len(stream), IsFirstLine(i, j), NEW k \in i .. j
               PROVE  Found(stream[k])'
    BY <1>1, StringsStay DEF SettledInv, Found, In
  <2>1. ~TakenIn(i)
    BY <1>2
  <2>2. Found(stream[k])
    BY <2>1 DEF SettledInv
  <2> QED  BY <1>3, <2>2
<1>5. BoundaryInv'
  <2> SUFFICES ASSUME Passed > 0, GoesOn', NEW i \in 1 .. Passed,
                      IsString(i, Passed), StartsString(i)
               PROVE  Passed + 1 - i >= LineLen \/ TakenIn(i)'
    BY <1>1, StringsStay DEF BoundaryInv
  <2> QED  BY <1>2 DEF BoundaryInv
<1> QED  BY <1>4, <1>5

LEMMA SuffixFrame ==
  ASSUME SuffixInv, stream' = stream, Pending' = Pending
  PROVE  SuffixInv' /\ Passed' = Passed
BY DEF SuffixInv, Passed

\* What has passed stays as it is, and goes on only if it did.
BorderStays ==
    /\ Passed' = Passed
    /\ Passed > 0 /\ GoesOn' => GoesOn
    /\ \A k \in 1 .. Passed : stream'[k] = stream[k]
    /\ \A i, j \in 1 .. Passed : IsString(i, j)' <=> IsString(i, j)

\* A character is written: no string of less than a line crosses the border of what
\* was pending, unless its start was taken.
LEMMA CharSettled ==
  ASSUME IInv, PendingInv, SuffixInv, NEW char \in Char,
         Pending' = Append(Pending, char), stream' = Append(stream, char),
         char.at = NextPos, ~Closed
  PROVE  /\ SuffixInv' /\ BorderStays
         /\ SettledInv /\ BoundaryInv /\ Grown => SettledInv' /\ BoundaryInv'
<1> DEFINE u == stream'
           q == Pending'
<1>0. PICK n \in Nat : n = Len(stream)
  BY LostTypes
<1>1. /\ stream \in Seq(Char) /\ n \in Nat /\ Pending \in Seq(Char) /\ Len(Pending) \in Nat
      /\ Passed \in Nat /\ Passed + Len(Pending) = n
      /\ LineLen \in Nat /\ CharsMin \in Nat
  BY <1>0, LostTypes
<1>2. /\ Len(u) = n + 1 /\ u[n + 1] = char /\ \A k \in 1 .. n : u[k] = stream[k]
  BY <1>0, <1>1
<1>3. /\ Len(q) = Len(Pending) + 1 /\ q[Len(Pending) + 1] = char
      /\ \A k \in 1 .. Len(Pending) : q[k] = Pending[k]
  BY <1>1
<1>4. stream' = u /\ Pending' = q
  BY DEF u, q
<1> HIDE DEF u, q
<1>5. Passed' = Passed
  BY <1>0, <1>1, <1>2, <1>3, <1>4 DEF Passed
<1>6. SuffixInv'
  <2>1. Len(q) <= Len(u)
    BY <1>1, <1>2, <1>3
  <2>2. ASSUME NEW k \in 1 .. Len(q) PROVE q[k] = u[Passed + k]
    <3>1. CASE k \in 1 .. Len(Pending)
      <4>1. Pending[k] = stream[Passed + k] /\ Passed + k \in 1 .. n
        BY <1>1, <3>1 DEF SuffixInv
      <4> QED  BY <1>2, <1>3, <3>1, <4>1
    <3>2. CASE k = Len(Pending) + 1
      <4>1. Passed + k = n + 1
        <5>1. PICK l \in Nat : l = Len(Pending)
          BY <1>1
        <5>2. Passed \in Nat /\ n \in Nat /\ Passed + l = n /\ k = l + 1
          BY <1>1, <3>2, <5>1
        <5> QED  BY <5>2
      <4> QED  BY <1>2, <1>3, <3>2, <4>1
    <3> QED  BY <1>1, <1>3, <3>1, <3>2
  <2> QED  BY <1>4, <1>5, <2>1, <2>2 DEF SuffixInv
<1>7. ASSUME NEW i \in 1 .. n PROVE StartsString(i)' <=> StartsString(i)
  <2>1. i = 1 \/ (i # 1 /\ i - 1 \in 1 .. n)
    BY <1>1
  <2>2. CASE i = 1
    BY <2>2 DEF StartsString
  <2>3. CASE i # 1 /\ i - 1 \in 1 .. n
    <3>1. u[i - 1] = stream[i - 1] /\ u[i] = stream[i]
      BY <1>2, <2>3
    <3> QED  BY <1>4, <3>1 DEF StartsString, SP!PassesFilter
  <2> QED  BY <2>1, <2>2, <2>3
<1>8. ASSUME NEW i \in 1 .. n, NEW j \in 1 .. n PROVE IsString(i, j)' <=> IsString(i, j)
  <2>1. \A k \in i .. j : k \in 1 .. n /\ u[k] = stream[k]
    BY <1>1, <1>2
  <2>2. \A k \in i .. j - 1 : /\ k \in 1 .. n /\ u[k] = stream[k]
                              /\ k + 1 \in 1 .. n /\ u[k + 1] = stream[k + 1]
    BY <1>1, <1>2
  <2> QED  BY <1>4, <2>1, <2>2 DEF IsString, SP!PassesFilter
<1>10. \A i \in 1 .. n : Grown => (TakenIn(i) => TakenIn(i)')
  BY <1>2, <1>4, GrownFindings
<1>11. Passed > 0 /\ GoesOn' => GoesOn
  <2> SUFFICES ASSUME Passed > 0, GoesOn' PROVE GoesOn
    OBVIOUS
  <2>1. u[Passed] = stream[Passed]
    BY <1>1, <1>2
  <2>2. q # <<>>
    BY <1>1, <1>3
  <2>3. stream[Passed].end = q[1].at
    BY <1>4, <1>5, <2>1, <2>2 DEF GoesOn
  <2>4. CASE Pending = <<>>
    <3>1. q[1] = char
      BY <1>3, <2>4
    <3> QED  BY <2>3, <2>4, <3>1 DEF GoesOn
  <2>5. CASE Pending # <<>>
    <3>1. q[1] = Pending[1]
      BY <1>1, <1>3, <2>5
    <3> QED  BY <2>3, <2>5, <3>1 DEF GoesOn
  <2> QED  BY <2>4, <2>5
<1>12. ASSUME NEW i \in 1 .. Passed, IsString(i, n + 1)', Passed > 0
       PROVE  GoesOn /\ IsString(i, Passed)
  <2>1. /\ \A k \in i .. n + 1 : SP!PassesFilter(u[k].lead)
        /\ \A k \in i .. n + 1 - 1 : u[k].end = u[k + 1].at
    BY <1>4, <1>12 DEF IsString, SP!PassesFilter
  <2>2. Passed \in i .. n /\ Passed \in i .. n + 1 - 1
    BY <1>1
  <2>3. u[Passed].end = u[Passed + 1].at /\ u[Passed] = stream[Passed]
    BY <1>1, <1>2, <2>1, <2>2
  <2>4. GoesOn
    <3>1. CASE Pending = <<>>
      <4>1. Passed = n
        BY <1>1, <3>1
      <4> QED  BY <1>2, <2>3, <3>1, <4>1 DEF GoesOn
    <3>2. CASE Pending # <<>>
      <4>1. Passed + 1 \in 1 .. n /\ 1 \in 1 .. Len(Pending)
        BY <1>1, <3>2
      <4>2. Pending[1] = stream[Passed + 1]
        BY <4>1 DEF SuffixInv
      <4> QED  BY <1>2, <2>3, <3>2, <4>1, <4>2 DEF GoesOn
    <3> QED  BY <3>1, <3>2
  <2>5. \A k \in i .. Passed : k \in i .. n + 1 /\ u[k] = stream[k]
    BY <1>1, <1>2
  <2>6. \A k \in i .. Passed - 1 : /\ k \in i .. n + 1 - 1 /\ u[k] = stream[k]
                                   /\ u[k + 1] = stream[k + 1]
    BY <1>1, <1>2
  <2>7. IsString(i, Passed)
    BY <2>1, <2>5, <2>6 DEF IsString
  <2> QED  BY <2>4, <2>7
<1>13. ASSUME SettledInv, BoundaryInv, Grown PROVE SettledInv'
  <2> SUFFICES ASSUME NEW i \in 1 .. Passed, StartsString(i)', ~TakenIn(i)',
                      NEW j \in i .. Len(u), IsFirstLine(i, j)', NEW k \in i .. j
               PROVE  Found(stream[k])'
    BY <1>4, <1>5 DEF SettledInv, IsFirstLine, IsString, Found, In
  <2>1. i \in 1 .. n /\ StartsString(i) /\ ~TakenIn(i) /\ Passed > 0
    BY <1>1, <1>7, <1>10, <1>13
  <2>2. IsString(i, j)' /\ j + 1 - i \in CharsMin .. LineLen
    BY DEF IsFirstLine
  <2>3. CASE j = n + 1
    <3>1. GoesOn /\ IsString(i, Passed)
      BY <1>12, <2>1, <2>2, <2>3
    <3>2. Passed + 1 - i >= LineLen
      BY <1>13, <2>1, <3>1 DEF BoundaryInv
    <3>3. Passed + 1 - i < j + 1 - i /\ j + 1 - i <= LineLen
      BY <1>1, <2>2, <2>3
    <3> QED  BY <1>1, <3>2, <3>3
  <2>4. CASE j \in i .. n
    <3>1. j \in 1 .. n /\ k \in 1 .. n
      BY <1>1, <2>1, <2>4
    <3>2. IsFirstLine(i, j)
      BY <1>8, <2>1, <2>2, <3>1 DEF IsFirstLine
    <3>3. Found(stream[k])
      BY <1>0, <1>13, <2>1, <2>4, <3>2 DEF SettledInv
    <3>4. PICK f \in 1 .. Len(Findings) : In(stream[k], Findings[f].s)
      BY <3>3 DEF Found
    <3>5. f \in 1 .. Len(Findings') /\ Findings'[f] = Findings[f] /\ stream'[k] = stream[k]
      BY <1>2, <1>4, <1>13, <3>1 DEF Grown
    <3> QED  BY <3>4, <3>5 DEF Found, In
  <2>5. j = n + 1 \/ j \in i .. n
    BY <1>1, <1>2
  <2> QED  BY <2>3, <2>4, <2>5
<1>14. ASSUME BoundaryInv, Grown PROVE BoundaryInv'
  <2> SUFFICES ASSUME Passed > 0, GoesOn', NEW i \in 1 .. Passed,
                      IsString(i, Passed)', StartsString(i)'
               PROVE  Passed + 1 - i >= LineLen \/ TakenIn(i)'
    BY <1>5 DEF BoundaryInv
  <2>0. PICK m \in Nat : m = Passed
    BY <1>1
  <2>1. i \in 1 .. n /\ Passed \in 1 .. n
    BY <1>1
  <2>2. IsString(i, m)'
    BY <1>5, <2>0 DEF IsString
  <2>3. IsString(i, Passed) /\ StartsString(i) /\ GoesOn
    BY <1>7, <1>8, <1>11, <2>0, <2>1, <2>2
  <2> QED  BY <1>10, <1>14, <2>1, <2>3 DEF BoundaryInv
<1>15. BorderStays
  <2>1. \A k \in 1 .. Passed : k \in 1 .. n
    BY <1>1
  <2> QED  BY <1>2, <1>4, <1>5, <1>8, <1>11, <2>1 DEF BorderStays
<1> QED  BY <1>6, <1>13, <1>14, <1>15

LEMMA DecodeSettled ==
  ASSUME IInv, IInv', PendingInv, SuffixInv, GapInv, Decode
  PROVE  /\ SuffixInv' /\ GapInv' /\ BorderStays
         /\ SettledInv /\ BoundaryInv /\ Grown => SettledInv' /\ BoundaryInv'
<1>1. /\ stream \in Seq(Char) /\ Len(stream) \in Nat
      /\ Pending = <<>> <=> Passed = Len(stream)
  BY LostTypes
<1>2. NextPos \in Nat /\ NextPos' \in Nat
  BY PendingTypes, NextPosType DEF IInv
<1>3. decoder' # NoBytes' => decoder'.at < StreamEnd'
  BY DecodeStep
<1>4. ASSUME NEW char \in Char,
             Pending' = Append(Pending, char), stream' = Append(stream, char),
             char.at = NextPos, NextPos' = char.end, step' = "decode",
             decoder_read < decoder_input_end
      PROVE  /\ SuffixInv' /\ GapInv' /\ BorderStays
             /\ SettledInv /\ BoundaryInv /\ Grown => SettledInv' /\ BoundaryInv'
  <2>1. ~Closed
    <3>1. decoder_read \in Nat
      BY DEF IInv, TypeOK
    <3> QED  BY <1>4, <3>1 DEF Closed
  <2>2. stream'[Len(stream')] = char
    BY <1>1, <1>4
  <2>3. stream'[Len(stream')].end <= NextPos'
    BY <1>2, <1>4, <2>2
  <2>4. GapInv'
    BY <1>3, <1>4, <2>3 DEF GapInv
  <2> QED  BY <1>4, <2>1, <2>4, CharSettled
<1>5. ASSUME Pending' = Pending, stream' = stream, step' = "decoded",
             decoder_read = decoder_input_end => decoder_read' = decoder_read,
             IF decoder_result' = "Malformed" THEN NextPos < NextPos' ELSE NextPos' = NextPos
      PROVE  /\ SuffixInv' /\ GapInv' /\ BorderStays
             /\ SettledInv /\ BoundaryInv /\ Grown => SettledInv' /\ BoundaryInv'
  <2>1. SuffixInv' /\ Passed' = Passed
    BY <1>5, SuffixFrame
  <2> DEFINE e == stream[Len(stream)].end
  <2>2. Len(stream) > 0 => e \in Nat /\ e <= NextPos
    <3>1. Len(stream) > 0 => stream[Len(stream)] \in Char
      BY <1>1
    <3> QED  BY <3>1 DEF GapInv, Char
  <2> HIDE DEF e
  <2>3. Len(stream) > 0 =>
           e <= NextPos' /\ (decoder_result' = "Malformed" => e < NextPos')
    BY <1>2, <1>5, <2>2
  <2>4. GapInv'
    BY <1>3, <1>5, <2>3 DEF GapInv, e
  <2>5. Closed => Closed'
    <3>1. Decoding
      BY DEF Decode, DecodeChar, CompleteChar, StartChar, ContinueChar, InputEmpty,
             Malformed, OutputFull
    <3>2. UNCHANGED <<is_last_window, is_last_input_buffer, decoder_input_end>>
      BY <3>1, DecodingFrame
    <3> QED  BY <1>5, <3>2 DEF Closed
  <2>6. Passed > 0 /\ GoesOn' => GoesOn
    <3>1. CASE Pending # <<>>
      BY <1>5, <2>1, <3>1 DEF GoesOn
    <3>2. CASE Pending = <<>>
      <4>1. Passed = Len(stream) /\ (GoesOn' => e = NextPos' /\ ~Closed')
        BY <1>1, <1>5, <2>1, <3>2 DEF GoesOn, e
      <4>2. Passed > 0 /\ GoesOn' => NextPos' = NextPos
        BY <1>2, <1>5, <2>3, <4>1
      <4> QED  BY <2>5, <3>2, <4>1, <4>2 DEF GoesOn, e
    <3> QED  BY <3>1, <3>2
  <2>7. BorderStays
    BY <1>5, <2>1, <2>6, StringsStay DEF BorderStays
  <2> QED  BY <1>5, <2>1, <2>4, <2>6, <2>7, SettledFrame
<1> QED  BY <1>4, <1>5, DecodeStep

\* The other steps of from(), but for the last of a call of the decoder, leave the
\* stream alone.
Moving == \/ Begin \/ OpenWindow \/ EndSlice \/ StartSplit \/ Split \/ TakeChunk
          \/ UNCHANGED vars

LEMMA MoveFacts ==
  ASSUME IInv, FlushInv, Moving
  PROVE  /\ stream' = stream /\ decoder' = decoder /\ StreamEnd' = StreamEnd
         /\ Closed => Closed'
         /\ step' \in {"decoded", "split"} =>
               step \in {"decoded", "split"} /\ decoder_result' = decoder_result
<1> USE DEF ss_vars, call_vars, window_vars, param_vars
<1>1. CASE Begin
  <2>1. /\ step = "idle" /\ step' \in {"window", "panicked"} /\ decoder_read' = 0
        /\ ~is_last_input_buffer
        /\ UNCHANGED <<decoder, consumed_bytes, stream>>
    BY <1>1 DEF Begin, Called
  <2>2. consumed_bytes \in Nat
    BY DEF IInv, TypeOK
  <2> QED  BY <2>1, <2>2 DEF StreamEnd, StreamPos, Closed
<1>2. CASE OpenWindow
  <2>1. /\ step = "window" /\ step' = "decode" /\ decoder_input_start < slice_len
        /\ UNCHANGED <<decoder, consumed_bytes, decoder_read, stream>>
    BY <1>2 DEF OpenWindow
  <2>2. slice_len \in Nat
    BY DEF IInv, TypeOK
  <2>3. ~is_last_window
    BY <2>1, <2>2 DEF FlushInv
  <2> QED  BY <2>1, <2>3 DEF StreamEnd, StreamPos, Closed
<1>3. CASE EndSlice
  <2>1. /\ step = "window" /\ step' = "idle"
        /\ consumed_bytes' = consumed_bytes + decoder_input_start
        /\ UNCHANGED <<decoder, decoder_read, stream, is_last_window,
                       is_last_input_buffer, decoder_input_end>>
    BY <1>3 DEF EndSlice
  <2>2. decoder_read = decoder_input_start
    BY <2>1 DEF IInv, WindowInv
  <2> QED  BY <2>1, <2>2 DEF StreamEnd, StreamPos, Closed
<1>4. CASE StartSplit \/ Split \/ TakeChunk
  <2>1. /\ step \in {"decoded", "split"} /\ step' \in {"split", "panicked"}
        /\ UNCHANGED <<decoder, consumed_bytes, decoder_read, decoder_result, stream,
                       is_last_window, is_last_input_buffer, decoder_input_end>>
    BY <1>4 DEF StartSplit, Split, TakeChunk
  <2> QED  BY <2>1 DEF StreamEnd, StreamPos, Closed
<1>5. CASE UNCHANGED vars
  BY <1>5 DEF vars, StreamEnd, StreamPos, Closed
<1> QED  BY <1>1, <1>2, <1>3, <1>4, <1>5 DEF Moving

LEMMA MoveSettled ==
  ASSUME IInv, PendingInv, SuffixInv, GapInv, FlushInv, Moving
  PROVE  /\ SuffixInv' /\ GapInv' /\ BorderStays
         /\ SettledInv /\ BoundaryInv /\ Grown => SettledInv' /\ BoundaryInv'
<1>1. /\ stream' = stream /\ decoder' = decoder /\ StreamEnd' = StreamEnd
      /\ Closed => Closed'
      /\ step' \in {"decoded", "split"} =>
            step \in {"decoded", "split"} /\ decoder_result' = decoder_result
  BY MoveFacts
<1>2. Pending' = Pending /\ NextPos' = NextPos
  BY BeginPending, OpenWindowPending, EndSlicePending, StartSplitPending, SplitPending,
     TakeChunkPending, StutterPending DEF Moving
<1>3. SuffixInv' /\ Passed' = Passed
  BY <1>1, <1>2, SuffixFrame
<1>4. GapInv'
  BY <1>1, <1>2 DEF GapInv, NoBytes
<1>5. GoesOn' => GoesOn
  BY <1>1, <1>2, <1>3 DEF GoesOn
<1>6. BorderStays
  BY <1>1, <1>3, <1>5, StringsStay DEF BorderStays
<1> QED  BY <1>1, <1>2, <1>3, <1>4, <1>5, <1>6, SettledFrame

\* The results of the iterator are in order, and so are two that are not neighbours.
LEMMA ResultsApart ==
  ASSUME IInv, NEW k \in 1 .. Len(results), NEW l \in 1 .. Len(results), k < l
  PROVE  results[k].from + results[k].nb <= results[l].from
<1> DEFINE n == Len(results)
           to == results[k].from + results[k].nb
           T == {d \in Nat : k + 1 + d \in 1 .. n => to <= results[k + 1 + d].from}
<1>1. /\ n \in Nat
      /\ \A i \in 1 .. n : /\ results[i].from \in Nat /\ results[i].nb \in Nat
                           /\ results[i].nb >= 1
      /\ \A i \in 1 .. n - 1 : results[i].from + results[i].nb <= results[i + 1].from
  BY ResultsOrder
<1> HIDE DEF n
<1>2. k \in Nat /\ k >= 1 /\ k \in 1 .. n - 1 /\ l \in 1 .. n /\ to \in Nat
  <2>1. k \in 1 .. n /\ l \in 1 .. n
    BY DEF n
  <2> QED  BY <1>1, <2>1
<1>3. 0 \in T
  <2>1. to <= results[k + 1].from /\ k + 1 + 0 = k + 1
    BY <1>1, <1>2
  <2> QED  BY <2>1
<1>4. ASSUME NEW d \in Nat, d \in T PROVE d + 1 \in T
  <2> SUFFICES ASSUME k + 1 + (d + 1) \in 1 .. n PROVE to <= results[k + 1 + (d + 1)].from
    OBVIOUS
  <2> DEFINE i == k + 1 + d
  <2>1. i \in 1 .. n /\ i \in 1 .. n - 1 /\ i + 1 \in 1 .. n /\ k + 1 + (d + 1) = i + 1
    BY <1>1, <1>2
  <2>2. to <= results[i].from
    BY <1>4, <2>1
  <2> HIDE DEF i, to
  <2>3. results[i].from + results[i].nb <= results[i + 1].from
    BY <1>1, <2>1
  <2>4. /\ results[i].from \in Nat /\ results[i].nb \in Nat /\ results[i].nb >= 1
        /\ results[i + 1].from \in Nat /\ to \in Nat
    BY <1>1, <1>2, <2>1
  <2>5. to <= results[i + 1].from
    <3> DEFINE f == results[i].from
               b == results[i].nb
               g == results[i + 1].from
    <3>1. /\ f \in Nat /\ b \in Nat /\ b >= 1 /\ g \in Nat /\ to \in Nat
          /\ to <= f /\ f + b <= g
      BY <2>2, <2>3, <2>4
    <3> HIDE DEF f, b, g
    <3>2. to <= g
      BY <3>1
    <3> QED  BY <3>2 DEF g
  <2> QED  BY <2>1, <2>5
<1> HIDE DEF T
<1>5. Nat \subseteq T
  BY <1>3, <1>4, SetInduction
<1>6. l - (k + 1) \in T /\ k + 1 + (l - (k + 1)) = l
  <2>1. l - (k + 1) \in Nat
    BY <1>1, <1>2
  <2> QED  BY <1>1, <1>2, <1>5, <2>1
<1> QED  BY <1>2, <1>6 DEF T

LEMMA StartSplitTaken ==
  ASSUME StartSplit
  PROVE  TakenInv'
<1> SUFFICES ASSUME step' = "split" PROVE TakenInv'
  BY DEF TakenInv
<1>1. /\ last_window_leftover' = <<>>
      /\ SP!New(Leads(last_window_leftover \o text), CharsMin, SameBlock,
                cut_flag, InvalidBytesAfter, filter_grep_char)
  BY DEF StartSplit
<1>2. results' = <<>> /\ pc' = "loop"
  BY <1>1 DEF SP!New
<1>3. Taken' = 0
  BY <1>2 DEF Taken
<1> QED  BY <1>1, <1>3 DEF TakenInv

LEMMA TakenType ==
  ASSUME IInv
  PROVE  Taken \in Nat /\ Taken <= Len(results) /\ Len(results) \in Nat
<1>1. results \in Seq(Iter!Result) /\ Len(results) \in Nat
  BY ResultsOrder
<1>2. pc = "returned" => Len(results) # 0
  BY <1>1 DEF IInv, SplitInv, Iter!IteratorInv, Iter!PlaceInv
<1> QED  BY <1>1, <1>2 DEF Taken

LEMMA SplitKeepsTaken ==
  ASSUME IInv, TakenInv, Split
  PROVE  TakenInv'
<1>1. /\ step = "split" /\ step' = step /\ text' = text
      /\ last_window_leftover' = last_window_leftover /\ printed' = printed /\ v' = v
  BY DEF Split, collection_vars, returned_vars
<1>2. Findings' = Findings
  BY <1>1 DEF Findings
<1>3. Taken' = Taken /\ \A k \in 1 .. Taken : results'[k] = results[k]
  BY SplitTaken
<1>4. Taken \in Nat
  BY TakenType
<1>5. Taken # 0 => results'[Taken] = results[Taken]
  BY <1>3, <1>4
<1> QED  BY <1>1, <1>2, <1>3, <1>5 DEF TakenInv, IsFindingOf

LEMMA TakeChunkKeepsTaken ==
  ASSUME IInv, TakenInv, TakeChunk, Findings' = Findings \/ FindingAdded
  PROVE  TakenInv'
<1>1. /\ step = "split" /\ pc = "returned" /\ step' = step /\ pc' = "loop"
      /\ text' = text /\ results' = results
      /\ IF ~Chunk.s_is_to_be_filtered_again
         THEN last_window_leftover' = <<>>
         ELSE last_window_leftover' = SubSeq(text, Len(text) + 1 - Chunk.nb, Len(text))
  BY DEF TakeChunk, SP!CallNext, SP!iterator_vars
<1>2. Taken \in Nat /\ Taken' = Taken + 1 /\ Len(results) = Taken + 1
  BY <1>1, TakenType DEF Taken
<1>3. Chunk = results[Taken + 1]
  BY <1>2 DEF Chunk
<1>4. ASSUME NEW k \in 1 .. Taken PROVE ~results[k].s_is_to_be_filtered_again
  <2>1. Iter!KeptStringIsLast
    BY DEF IInv, SplitInv, Iter!IteratorInv, Iter!ResultsInv
  <2>2. k \in 1 .. Len(results) /\ k # Len(results)
    BY <1>2
  <2> QED  BY <2>1, <2>2 DEF Iter!KeptStringIsLast
<1>5. Grown
  <2>1. CASE Findings' = Findings
    BY <2>1 DEF Grown
  <2>2. CASE FindingAdded
    BY <2>2, FindingsTypes DEF FindingAdded, Grown
  <2> QED  BY <2>1, <2>2
<1>6. ASSUME NEW k \in 1 .. Taken
      PROVE  \E m \in 1 .. Len(Findings') : IsFindingOf(Findings'[m], results[k])
  <2>1. PICK m \in 1 .. Len(Findings) : IsFindingOf(Findings[m], results[k])
    BY <1>1, <1>4 DEF TakenInv
  <2>2. m \in 1 .. Len(Findings') /\ Findings'[m] = Findings[m]
    BY <1>5 DEF Grown
  <2> QED  BY <2>1, <2>2
<1>7. CASE Chunk.s_is_to_be_filtered_again
  <2>1. last_window_leftover' = SubSeq(text, Chunk.from, Len(text))
    BY <1>1, <1>7, NewLeftover DEF IInv
  <2>2. ASSUME NEW k \in 1 .. Taken + 1
        PROVE  IF results[k].s_is_to_be_filtered_again
               THEN last_window_leftover' = SubSeq(text, results[k].from, Len(text))
               ELSE \E m \in 1 .. Len(Findings') : IsFindingOf(Findings'[m], results[k])
    <3>1. k \in 1 .. Taken \/ k = Taken + 1
      BY <1>2
    <3> QED  BY <1>3, <1>4, <1>6, <1>7, <2>1, <3>1
  <2> QED  BY <1>1, <1>2, <1>3, <1>7, <2>2 DEF TakenInv, IsFindingOf
<1>8. CASE ~Chunk.s_is_to_be_filtered_again
  <2>1. FindingAdded /\ Findings' = Append(Findings, NewFinding)
    <3>1. v' = Append(v, NewFinding) /\ printed' = printed
      BY <1>8 DEF TakeChunk, returned_vars
    <3>2. Findings' # Findings
      <4>1. Len(Findings') = Len(Findings) + 1
        <5>1. NewFinding \in FindingType
          BY <1>1, NewFindingFacts DEF IInv
        <5> QED  BY <3>1, <5>1, FindingsTypes DEF Findings
      <4> QED  BY <4>1, FindingsTypes
    <3> QED  BY <3>2 DEF FindingAdded
  <2>2. Len(Findings) + 1 \in 1 .. Len(Findings') /\ Findings'[Len(Findings) + 1] = NewFinding
    BY <2>1, FindingsTypes
  <2>3. IsFindingOf(NewFinding, results[Taken + 1])
    BY <1>1, <1>3, NewFindingFacts DEF IInv, IsFindingOf
  <2>4. ASSUME NEW k \in 1 .. Taken + 1
        PROVE  /\ ~results[k].s_is_to_be_filtered_again
               /\ \E m \in 1 .. Len(Findings') : IsFindingOf(Findings'[m], results[k])
    <3>1. k \in 1 .. Taken \/ k = Taken + 1
      BY <1>2
    <3> QED  BY <1>3, <1>4, <1>6, <1>8, <2>2, <2>3, <3>1
  <2> QED  BY <1>1, <1>2, <1>8, <2>4 DEF TakenInv, IsFindingOf
<1> QED  BY <1>7, <1>8

\* What the iterator's invariant says of the text.
LEMMA TextLines ==
  ASSUME IInv, PendingInv, Iter!LinesInv, NearSplitInv, step = "split", pc = "exhausted",
         NoGrep, ~SameBlock, CharsMin \in 1 .. LineLen
  PROVE  /\ \A s, t \in 1 .. Len(text) :
               /\ s = 1 \/ ~SP!PassesFilter(text[s - 1].lead)
               /\ s <= t /\ \A k \in s .. t : SP!PassesFilter(text[k].lead)
               /\ t + 1 - s <= LineLen
               /\ t + 1 - s >= CharsMin \/ (t = Len(text) /\ ~InvalidBytesAfter)
               => \E k \in 1 .. Len(results) :
                     results[k].from = s /\ results[k].nb >= t + 1 - s
         /\ \A k \in 1 .. Len(results) :
               /\ results[k].from + results[k].nb = Len(text) + 1
               /\ results[k].nb < LineLen
               /\ ~InvalidBytesAfter
               => \/ results[k].s_completes_previous_s
                  \/ results[k].s_is_to_be_filtered_again
<1>1. /\ inp = Leads(text) /\ chars_min_nb = CharsMin /\ grep_char = filter_grep_char
      /\ invalid_bytes_after_inp = InvalidBytesAfter
      /\ require_same_unicode_block = SameBlock
  BY DEF IInv, SplitInv, NearSplitInv
<1>2. Iter!Plain
  BY <1>1 DEF Iter!Plain, Iter!Lossless, Iter!NoGrep, NoGrep, CharMax
<1>3. Len(inp) = Len(text) /\ \A k \in 1 .. Len(text) : inp[k] = text[k].lead
  BY <1>1, TextTypes DEF IInv, TypeOK
<1>4. Len(text) \in Nat
  BY TextTypes DEF IInv, TypeOK
<1>5. \A lead : Iter!PassesFilter(lead) <=> SP!PassesFilter(lead)
  BY DEF Iter!PassesFilter, SP!PassesFilter, Iter!IsMultibyte, SP!IsMultibyte
<1>6. ASSUME NEW s \in 1 .. Len(text), NEW t \in 1 .. Len(text),
             s = 1 \/ ~SP!PassesFilter(text[s - 1].lead),
             s <= t, \A k \in s .. t : SP!PassesFilter(text[k].lead),
             t + 1 - s <= LineLen,
             t + 1 - s >= CharsMin \/ (t = Len(text) /\ ~InvalidBytesAfter)
      PROVE  \E k \in 1 .. Len(results) : results[k].from = s /\ results[k].nb >= t + 1 - s
  <2>1. Iter!Begins(s)
    <3>1. CASE s = 1
      BY <3>1 DEF Iter!Begins
    <3>2. CASE s # 1
      <4>1. s - 1 \in 1 .. Len(text)
        BY <1>4, <3>2
      <4>2. inp[s - 1] = text[s - 1].lead
        BY <1>3, <4>1
      <4> QED  BY <1>5, <1>6, <3>2, <4>2 DEF Iter!Begins
    <3> QED  BY <3>1, <3>2
  <2>2. \A k \in s .. t : Iter!PassesFilter(inp[k])
    <3>1. \A k \in s .. t : k \in 1 .. Len(text)
      BY <1>4
    <3> QED  BY <1>3, <1>5, <1>6, <3>1
  <2>3. Iter!FirstLine(s, t)
    BY <1>1, <1>3, <1>6, <2>1, <2>2 DEF Iter!FirstLine, CharMax
  <2>4. Iter!InAResult(s, t)
    BY <1>2, <1>3, <1>6, <2>3 DEF Iter!LinesInv, Iter!FirstLinesInv
  <2> QED  BY <2>4 DEF Iter!InAResult
<1>7. ASSUME NEW k \in 1 .. Len(results), results[k].from + results[k].nb = Len(text) + 1,
             results[k].nb < LineLen, ~InvalidBytesAfter
      PROVE  results[k].s_completes_previous_s \/ results[k].s_is_to_be_filtered_again
  BY <1>1, <1>2, <1>3, <1>7 DEF Iter!LinesInv, Iter!TailsInv, Iter!EndOf, CharMax
<1> QED  BY <1>6, <1>7

\* A string that reaches over the border of what is pending goes on there.
LEMMA OverBorder ==
  ASSUME IInv, PendingInv, SuffixInv, NEW i \in 1 .. Passed,
         NEW j \in Passed + 1 .. Len(stream), IsString(i, j)
  PROVE  Passed > 0 /\ GoesOn /\ IsString(i, Passed)
<1>1. /\ Passed \in Nat /\ Len(stream) \in Nat /\ Passed + Len(Pending) = Len(stream)
      /\ Pending \in Seq(Char)
  BY LostTypes
<1>2. /\ i \in Nat /\ i >= 1 /\ i <= Passed /\ j \in Nat /\ Passed < j /\ j <= Len(stream)
  BY <1>1
<1>3. Passed \in i .. j - 1 /\ Passed > 0 /\ Len(Pending) >= 1
  BY <1>1, <1>2
<1>4. stream[Passed].end = stream[Passed + 1].at
  BY <1>3 DEF IsString
<1>5. Pending # <<>> /\ Pending[1] = stream[Passed + 1]
  BY <1>1, <1>3 DEF SuffixInv
<1>6. \A k \in i .. Passed : k \in i .. j
  BY <1>1, <1>2
<1>7. \A k \in i .. Passed - 1 : k \in i .. j - 1
  BY <1>1, <1>2
<1>8. IsString(i, Passed)
  BY <1>6, <1>7 DEF IsString
<1> QED  BY <1>3, <1>4, <1>5, <1>8 DEF GoesOn

\* A string that starts in the text starts there for the iterator, too.
LEMMA StartsInText ==
  ASSUME IInv, PendingInv, SuffixInv, step = "split",
         NEW s \in 1 .. Len(text), StartsString(Passed + s)
  PROVE  s = 1 \/ ~SP!PassesFilter(text[s - 1].lead)
<1> SUFFICES ASSUME s # 1 PROVE ~SP!PassesFilter(text[s - 1].lead)
  OBVIOUS
<1>1. Pending = text /\ Passed \in Nat /\ Len(text) \in Nat
  BY LostTypes DEF Pending
<1>2. s - 1 \in 1 .. Len(text) - 1 /\ s - 1 \in 1 .. Len(text)
      /\ (Passed + s) - 1 = Passed + (s - 1) /\ Passed + s # 1 /\ s = (s - 1) + 1
  BY <1>1
<1>3. text[s - 1] = stream[Passed + (s - 1)] /\ text[s] = stream[Passed + s]
  BY <1>1, <1>2 DEF SuffixInv
<1>4. text[s - 1].end = text[s].at
  BY <1>1, <1>2 DEF PendingInv, Contiguous
<1> QED  BY <1>2, <1>3, <1>4 DEF StartsString

\* When the iterator is exhausted, what is left over is the end of its text.
LEMMA KeptChunk ==
  ASSUME IInv, TakenInv, step = "split", pc = "exhausted", last_window_leftover # <<>>
  PROVE  /\ Len(results) >= 1 /\ results[Len(results)].s_is_to_be_filtered_again
         /\ results[Len(results)].from = Len(text) + 1 - Len(last_window_leftover)
         /\ results[Len(results)].from + results[Len(results)].nb = Len(text) + 1
         /\ ~InvalidBytesAfter
<1> DEFINE n == Len(results)
           from == results[n].from
<1>1. Taken = n /\ n \in Nat
  BY TakenType DEF Taken
<1>2. n \in 1 .. n /\ results[n].s_is_to_be_filtered_again
      /\ last_window_leftover = SubSeq(text, from, Len(text))
  BY <1>1 DEF TakenInv
<1>3. /\ from \in Nat /\ from >= 1 /\ results[n].nb \in Nat
      /\ results[n].nb >= 1 /\ from + results[n].nb <= Len(text) + 1 /\ Len(text) \in Nat
  BY <1>2, ResultBounds
<1>4. text \in Seq(Char)
  BY TextTypes DEF IInv, TypeOK
<1>5. Iter!KeptStringIsLast /\ Iter!KeptInv
      /\ inp = Leads(text) /\ invalid_bytes_after_inp = InvalidBytesAfter
  BY DEF IInv, SplitInv, Iter!IteratorInv, Iter!ResultsInv
<1>6. from + results[n].nb = Len(text) + 1 /\ ~InvalidBytesAfter
  <2>1. Len(inp) = Len(text)
    BY <1>5, TextTypes DEF IInv, TypeOK
  <2> QED  BY <1>2, <1>5, <2>1 DEF Iter!KeptStringIsLast, Iter!KeptInv, Iter!EndOf
<1> HIDE DEF from, n
<1>7. Len(last_window_leftover) = Len(text) + 1 - from
  <2>1. from \in 1 .. Len(text)
    BY <1>3
  <2> QED  BY <1>2, <1>3, <1>4, <2>1
<1>8. from = Len(text) + 1 - Len(last_window_leftover)
  BY <1>3, <1>7
<1>9. n >= 1
  BY <1>1, <1>2
<1> QED  BY <1>2, <1>6, <1>8, <1>9 DEF from, n

\* A result that is not kept has become a finding, with all of its characters.
LEMMA ResultIsFound ==
  ASSUME IInv, PendingInv, SuffixInv, TakenInv, step = "split", pc = "exhausted",
         NEW k \in 1 .. Len(results), ~results[k].s_is_to_be_filtered_again
  PROVE  /\ \A s \in results[k].from .. results[k].from + results[k].nb - 1 :
               Found(stream[Passed + s])
         /\ results[k].s_completes_previous_s => TakenIn(Passed + results[k].from)
<1> DEFINE from == results[k].from
           nb == results[k].nb
<1>1. Taken = Len(results)
  BY DEF Taken
<1>2. PICK m \in 1 .. Len(Findings) : IsFindingOf(Findings[m], results[k])
  BY <1>1 DEF TakenInv
<1>3. /\ from \in Nat /\ from >= 1 /\ nb \in Nat /\ nb >= 1
      /\ from + nb <= Len(text) + 1 /\ Len(text) \in Nat
  BY ResultBounds
<1>4. Pending = text /\ Passed \in Nat /\ text \in Seq(Char)
  BY LostTypes DEF Pending
<1> DEFINE to == from + nb - 1
           u == SubSeq(text, from, to)
<1>5. from \in 1 .. Len(text) /\ to \in from .. Len(text)
  BY <1>3
<1>6. Findings[m].s = u /\ Findings[m].s_completes_previous_s = results[k].s_completes_previous_s
  BY <1>2 DEF IsFindingOf
<1> HIDE DEF from, to, nb
<1>7. /\ InOrder(text) /\ Contiguous(text)
  BY <1>4 DEF PendingInv
<1>8. /\ u[1] = text[from] /\ Len(u) = to + 1 - from
      /\ \A d \in 1 .. Len(u) : u[d] = text[from + d - 1]
  BY <1>4, <1>5, <1>7, OrderedPart
<1> HIDE DEF u
<1>9. ASSUME NEW s \in from .. to PROVE Found(stream[Passed + s])
  <2>1. text[s] = stream[Passed + s]
    <3>1. s \in 1 .. Len(text)
      BY <1>3, <1>5
    <3> QED  BY <1>4, <3>1 DEF SuffixInv
  <2> DEFINE d == s + 1 - from
  <2>2. d \in 1 .. Len(u) /\ from + d - 1 = s
    BY <1>3, <1>5, <1>8
  <2> HIDE DEF d
  <2>3. u[d] = stream[Passed + s]
    BY <1>8, <2>1, <2>2
  <2> QED  BY <1>6, <2>2, <2>3 DEF Found, In
<1>10. ASSUME results[k].s_completes_previous_s PROVE TakenIn(Passed + from)
  <2>1. text[from] = stream[Passed + from]
    BY <1>4, <1>5 DEF SuffixInv
  <2> QED  BY <1>6, <1>8, <1>10, <2>1 DEF TakenIn
<1> QED  BY <1>9, <1>10 DEF from, nb, to

\* What is not kept of the text is no longer pending.
LEMMA ChunksSuffix ==
  ASSUME IInv, PendingInv, SuffixInv, GapInv, AfterChunks
  PROVE  /\ SuffixInv' /\ GapInv' /\ stream' = stream /\ NextPos' = NextPos
         /\ Pending' = last_window_leftover /\ Pending = text
         /\ Passed' = Passed + (Len(text) - Len(last_window_leftover))
         /\ Len(last_window_leftover) \in 0 .. Len(text)
<1> DEFINE leftover == last_window_leftover
           m == Len(text) - Len(leftover)
<1>1. /\ step = "split" /\ stream' = stream /\ decoder' = decoder
      /\ consumed_bytes' = consumed_bytes /\ decoder_read' = decoder_read
      /\ step' \in {"decode", "window"}
  BY DEF AfterChunks, ss_vars, call_vars, IInv, TypeOK
<1>2. Pending' = leftover /\ Pending = text /\ NextPos' = NextPos
  BY <1>1, AfterChunksPending DEF Pending
<1>3. /\ text \in Seq(Char) /\ leftover \in Seq(Char)
      /\ Passed \in Nat /\ Len(stream) \in Nat /\ Passed + Len(text) = Len(stream)
      /\ Len(text) \in Nat /\ Len(leftover) \in Nat
  BY <1>2, LostTypes, TextTypes DEF IInv, TypeOK
<1>4. /\ Len(leftover) <= Len(text)
      /\ leftover # <<>> => leftover = SubSeq(text, Len(text) + 1 - Len(leftover), Len(text))
  <2>1. CASE leftover = <<>>
    BY <1>3, <2>1
  <2>2. CASE leftover # <<>>
    BY <1>1, <2>2 DEF IInv, LeftoverInv
  <2> QED  BY <2>1, <2>2
<1>5. m \in Nat /\ Passed' = Passed + m /\ Passed' = Len(stream) - Len(leftover)
  <2>1. Passed' = Len(stream) - Len(leftover)
    BY <1>1, <1>2 DEF Passed
  <2> QED  BY <1>3, <1>4, <2>1
<1>6. SuffixInv'
  <2> SUFFICES ASSUME NEW k \in 1 .. Len(leftover) PROVE leftover[k] = stream[Passed' + k]
    <3>1. Len(leftover) <= Len(stream)
      BY <1>3, <1>4
    <3> QED  BY <1>1, <1>2, <3>1 DEF SuffixInv
  <2>1. leftover # <<>> /\ Len(leftover) >= 1
    BY <1>3
  <2>2. leftover = SubSeq(text, m + 1, Len(text))
    <3>1. Len(text) + 1 - Len(leftover) = m + 1
      BY <1>3, <1>4
    <3> QED  BY <1>4, <2>1, <3>1
  <2>3. m + 1 \in 1 .. Len(text) /\ Len(text) + 1 - (m + 1) = Len(leftover)
    BY <1>3, <1>4, <1>5, <2>1
  <2>4. leftover[k] = text[m + k] /\ m + k \in 1 .. Len(text)
    <3> HIDE DEF m
    <3>1. leftover[k] = text[m + 1 + k - 1]
      BY <1>3, <2>2, <2>3
    <3>2. m + 1 + k - 1 = m + k /\ m + k \in 1 .. Len(text)
      BY <1>3, <1>4, <1>5, <2>3
    <3> QED  BY <3>1, <3>2
  <2>5. text[m + k] = stream[Passed + (m + k)]
    BY <1>2, <2>4 DEF SuffixInv
  <2>6. Passed' + k = Passed + (m + k)
    BY <1>3, <1>5
  <2> QED  BY <2>4, <2>5, <2>6
<1>7. GapInv'
  <2>1. StreamEnd' = StreamEnd
    BY <1>1 DEF StreamEnd, StreamPos
  <2> QED  BY <1>1, <1>2, <2>1 DEF GapInv, NoBytes
<1> QED  BY <1>1, <1>2, <1>3, <1>4, <1>5, <1>6, <1>7

\* The strings of the text are found by now, unless they are kept.
LEMMA ChunksSettled ==
  ASSUME IInv, PendingInv, Iter!LinesInv, NearSplitInv, SuffixInv, GapInv,
         SettledInv, TakenInv, NoGrep, ~SameBlock, CharsMin \in 1 .. LineLen,
         AfterChunks, Findings' = Findings
  PROVE  SettledInv'
<1> DEFINE d == Len(text) - Len(last_window_leftover)
<1>1. /\ step = "split" /\ pc = "exhausted" /\ stream' = stream /\ Pending = text
      /\ Passed' = Passed + d /\ Len(last_window_leftover) \in 0 .. Len(text)
  BY ChunksSuffix DEF AfterChunks
<1>2. /\ Passed \in Nat /\ Len(stream) \in Nat /\ Passed + Len(text) = Len(stream)
      /\ Len(text) \in Nat /\ LineLen \in Nat /\ CharsMin \in Nat /\ text \in Seq(Char)
  BY <1>1, LostTypes
<1>3. d \in Nat /\ d <= Len(text)
  BY <1>1, <1>2
<1>4. \A i : TakenIn(i)' <=> TakenIn(i)
  BY <1>1 DEF TakenIn
<1> SUFFICES ASSUME NEW i \in 1 .. Passed + d, StartsString(i), ~TakenIn(i),
                    NEW j \in i .. Len(stream), IsFirstLine(i, j), NEW k \in i .. j
             PROVE  Found(stream[k])
  BY <1>1, <1>4, StringsStay DEF SettledInv, Found, In
<1>5. CASE i \in 1 .. Passed
  BY <1>5 DEF SettledInv
<1>6. CASE i > Passed
  <2> DEFINE s == i - Passed
             t == j - Passed
  <2>1. /\ s \in 1 .. Len(text) /\ t \in 1 .. Len(text) /\ s <= t /\ s <= d
        /\ Passed + s = i /\ t + 1 - s = j + 1 - i
    BY <1>2, <1>3, <1>6
  <2> HIDE DEF s, t, d
  <2>2. s = 1 \/ ~SP!PassesFilter(text[s - 1].lead)
    BY <1>1, <2>1, StartsInText
  <2>3. ASSUME NEW q \in s .. t PROVE SP!PassesFilter(text[q].lead)
    <3>1. Passed + q \in i .. j /\ q \in 1 .. Len(text)
      BY <1>2, <2>1 DEF t
    <3>2. text[q] = stream[Passed + q]
      BY <1>1, <3>1 DEF SuffixInv
    <3> QED  BY <3>1, <3>2 DEF IsFirstLine, IsString
  <2>4. t + 1 - s <= LineLen /\ t + 1 - s >= CharsMin
    BY <1>2, <2>1 DEF IsFirstLine
  <2>5. PICK r \in 1 .. Len(results) : results[r].from = s /\ results[r].nb >= t + 1 - s
    BY <1>1, <2>1, <2>2, <2>3, <2>4, TextLines
  <2>6. ~results[r].s_is_to_be_filtered_again
    <3> SUFFICES ASSUME results[r].s_is_to_be_filtered_again PROVE FALSE
      OBVIOUS
    <3>1. last_window_leftover = SubSeq(text, s, Len(text))
      BY <1>1, <2>5 DEF TakenInv, Taken
    <3>2. Len(last_window_leftover) = Len(text) + 1 - s
      BY <1>2, <2>1, <3>1
    <3>3. d = s - 1
      BY <1>2, <2>1, <3>2 DEF d
    <3> QED  BY <2>1, <3>3
  <2>7. \A q \in s .. s + results[r].nb - 1 : Found(stream[Passed + q])
    BY <1>1, <2>5, <2>6, ResultIsFound
  <2>8. k - Passed \in s .. s + results[r].nb - 1 /\ Passed + (k - Passed) = k
    <3>1. results[r].nb \in Nat
      BY <1>1, ResultBounds
    <3>2. k - Passed \in s .. t /\ Passed + (k - Passed) = k
      BY <1>2, <1>3 DEF s, t
    <3> QED  BY <2>1, <2>5, <3>1, <3>2
  <2> QED  BY <2>7, <2>8
<1> QED  BY <1>2, <1>3, <1>5, <1>6

\* A result that reaches to the end of the text.
LEMMA ResultToTheEnd ==
  ASSUME IInv, step = "split", NEW r \in 1 .. Len(results), NEW line \in Nat,
         results[r].nb >= Len(text) + 1 - results[r].from,
         Len(text) + 1 - results[r].from < line
  PROVE  results[r].from + results[r].nb = Len(text) + 1 /\ results[r].nb < line
<1> DEFINE from == results[r].from
           nb == results[r].nb
           len == Len(text)
<1>1. /\ from \in Nat /\ nb \in Nat /\ len \in Nat /\ from + nb <= len + 1
      /\ nb >= len + 1 - from /\ len + 1 - from < line
  BY ResultBounds
<1> HIDE DEF from, nb, len
<1>2. from + nb = len + 1
  BY <1>1
<1>3. nb = len + 1 - from
  BY <1>1, <1>2
<1> QED  BY <1>1, <1>2, <1>3 DEF from, nb, len

\* In a text that may go on, a string that reaches to its end, or to the string that
\* is kept, has a full line already, or continues a finding.
LEMMA TextBorder ==
  ASSUME IInv, PendingInv, Iter!LinesInv, NearSplitInv, SuffixInv, TakenInv,
         NoGrep, ~SameBlock, CharsMin \in 1 .. LineLen,
         step = "split", pc = "exhausted", ~InvalidBytesAfter,
         NEW d \in Nat, d = Len(text) - Len(last_window_leftover),
         NEW s \in 1 .. d, StartsString(Passed + s),
         \A q \in s .. d : SP!PassesFilter(text[q].lead)
  PROVE  d + 1 - s >= LineLen \/ TakenIn(Passed + s)
<1> SUFFICES ASSUME d + 1 - s < LineLen PROVE TakenIn(Passed + s)
  <2>1. LineLen \in Nat
    BY ConstantTypes
  <2> QED  BY <2>1
<1>1. /\ Len(text) \in Nat /\ LineLen \in Nat /\ CharsMin \in Nat
      /\ Len(last_window_leftover) \in Nat
      /\ text \in Seq(Char)
  BY ConstantTypes, TextTypes DEF IInv, TypeOK
<1>2. d <= Len(text) /\ s \in 1 .. Len(text) /\ s <= d
  BY <1>1
<1>3. s = 1 \/ ~SP!PassesFilter(text[s - 1].lead)
  BY <1>2, StartsInText
<1>4. CASE last_window_leftover = <<>>
  <2>1. d = Len(text)
    BY <1>1, <1>4
  <2>2. PICK r \in 1 .. Len(results) : results[r].from = s /\ results[r].nb >= d + 1 - s
    <3>1. d \in 1 .. Len(text) /\ s <= d /\ d + 1 - s <= LineLen
      BY <1>1, <1>2, <2>1
    <3> QED  BY <1>2, <1>3, <2>1, <3>1, TextLines
  <2>3. /\ results[r].nb \in Nat /\ results[r].from + results[r].nb <= Len(text) + 1
    BY ResultBounds
  <2>4. results[r].from + results[r].nb = Len(text) + 1 /\ results[r].nb < LineLen
    <3>1. results[r].nb >= Len(text) + 1 - results[r].from
          /\ Len(text) + 1 - results[r].from < LineLen
      BY <2>1, <2>2
    <3> QED  BY <1>1, <3>1, ResultToTheEnd
  <2>5. results[r].s_completes_previous_s \/ results[r].s_is_to_be_filtered_again
    BY <2>4, TextLines
  <2>6. ~results[r].s_is_to_be_filtered_again
    <3> SUFFICES ASSUME results[r].s_is_to_be_filtered_again PROVE FALSE
      OBVIOUS
    <3>1. last_window_leftover = SubSeq(text, s, Len(text))
      BY <2>2 DEF TakenInv, Taken
    <3>2. Len(last_window_leftover) = Len(text) + 1 - s
      BY <1>1, <1>2, <3>1
    <3> QED  BY <1>1, <1>2, <1>4, <3>2
  <2> QED  BY <2>2, <2>5, <2>6, ResultIsFound
<1>5. CASE last_window_leftover # <<>>
  <2> DEFINE n == Len(results)
             t == IF Len(text) + 1 - s <= LineLen THEN Len(text) ELSE s + LineLen - 1
  <2>1. /\ n >= 1 /\ results[n].from = Len(text) + 1 - Len(last_window_leftover)
        /\ results[n].from + results[n].nb = Len(text) + 1
    BY <1>5, KeptChunk
  <2>2. n \in Nat
    BY ResultsOrder
  <2>3. results[n].from = d + 1 /\ n \in 1 .. n /\ d < Len(text)
    <3>1. Len(last_window_leftover) >= 1
      BY <1>1, <1>5
    <3> QED  BY <1>1, <2>1, <2>2, <3>1
  <2>4. /\ t \in 1 .. Len(text) /\ s <= t /\ d < t /\ t + 1 - s <= LineLen
        /\ t + 1 - s >= CharsMin \/ t = Len(text)
    BY <1>1, <1>2, <2>3
  <2> HIDE DEF t
  <2>5. Iter!ResultsAreStrings /\ inp = Leads(text)
    BY DEF IInv, SplitInv, Iter!IteratorInv, Iter!ResultsInv
  <2>6. ASSUME NEW q \in d + 1 .. Len(text) PROVE SP!PassesFilter(text[q].lead)
    <3>1. Iter!Homogeneous(Iter!PlacesOf(results[n]))
      BY <2>3, <2>5 DEF Iter!ResultsAreStrings
    <3>2. q \in Iter!PlacesOf(results[n])
      <4>1. results[n].nb \in Nat /\ results[n].from \in Nat
        BY <2>3, ResultsOrder
      <4> QED  BY <1>1, <2>1, <2>3, <4>1 DEF Iter!PlacesOf
    <3>3. inp[q] = text[q].lead
      <4>1. q \in 1 .. Len(text)
        BY <1>1
      <4> QED  BY <2>5, <4>1, TextTypes DEF IInv, TypeOK
    <3> QED  BY <3>1, <3>2, <3>3
             DEF Iter!Homogeneous, Iter!PassesFilter, SP!PassesFilter, Iter!IsMultibyte,
                 SP!IsMultibyte
  <2>7. ASSUME NEW q \in s .. t PROVE SP!PassesFilter(text[q].lead)
    <3>1. q \in s .. d \/ q \in d + 1 .. Len(text)
      BY <1>1, <1>2, <2>4
    <3> QED  BY <2>6, <3>1
  <2>8. PICK r \in 1 .. n : results[r].from = s /\ results[r].nb >= t + 1 - s
    BY <1>2, <1>3, <2>4, <2>7, TextLines
  <2>9. r < n
    <3>1. r # n
      BY <1>2, <2>3, <2>8
    <3> QED  BY <2>2, <3>1
  <2>10. results[r].from + results[r].nb <= results[n].from
    BY <2>3, <2>8, <2>9, ResultsApart
  <2>11. results[r].nb \in Nat
    BY ResultBounds
  <2> HIDE DEF n
  <2>12. s + results[r].nb <= d + 1
    BY <2>3, <2>8, <2>10
  <2> QED  BY <1>1, <1>2, <2>4, <2>8, <2>11, <2>12
<1> QED  BY <1>4, <1>5

\* What has passed goes on behind a call of the decoder: the text was not ended by an
\* invalid byte or by the end of the stream.
LEMMA ChunksGoOn ==
  ASSUME IInv, PendingInv, FlushInv, SuffixInv, GapInv, AfterChunks,
         decoder_result # "OutputFull", Passed' > 0, GoesOn'
  PROVE  /\ ~InvalidBytesAfter
         /\ Len(last_window_leftover) = Len(text) => Passed > 0 /\ GoesOn
         /\ last_window_leftover = <<>> =>
               /\ decoder_read = decoder_input_end /\ ~Closed
               /\ Len(stream) > 0 /\ stream[Len(stream)].end = NextPos
<1>1. /\ step = "split" /\ stream' = stream /\ NextPos' = NextPos
      /\ Pending' = last_window_leftover /\ Pending = text
      /\ Passed' = Passed + (Len(text) - Len(last_window_leftover))
      /\ Len(last_window_leftover) \in 0 .. Len(text)
  BY ChunksSuffix DEF AfterChunks
<1>2. /\ Passed \in Nat /\ Len(stream) \in Nat /\ Passed + Len(text) = Len(stream)
      /\ text \in Seq(Char) /\ Len(text) \in Nat
  BY <1>1, LostTypes
<1>3. Closed' <=> Closed
  BY DEF AfterChunks, call_vars, param_vars, Closed
<1>4. decoder_result \in {"InputEmpty", "Malformed"}
  BY DEF IInv, TypeOK
<1>5. ASSUME last_window_leftover = <<>>
      PROVE  /\ decoder_read = decoder_input_end /\ ~Closed /\ decoder_result # "Malformed"
             /\ Len(stream) > 0 /\ stream[Len(stream)].end = NextPos
  <2>1. Passed' = Len(stream) /\ Len(stream) > 0
    <3>1. Len(last_window_leftover) = 0
      BY <1>5
    <3>2. Passed' = Len(stream)
      BY <1>1, <1>2, <3>1
    <3> QED  BY <3>2
  <2>2. stream[Len(stream)].end = NextPos /\ ~Closed
    BY <1>1, <1>3, <1>5, <2>1 DEF GoesOn
  <2>3. decoder_result # "Malformed"
    <3>1. NextPos \in Nat
      BY PendingTypes
    <3> QED  BY <1>1, <2>1, <2>2, <3>1 DEF GapInv
  <2>4. decoder_read = decoder_input_end
    BY <1>1, <1>4, <2>3 DEF FlushInv
  <2> QED  BY <2>1, <2>2, <2>3, <2>4
<1>6. ~InvalidBytesAfter
  <2>1. CASE last_window_leftover # <<>>
    BY <1>1, <2>1 DEF IInv, LeftoverInv
  <2>2. CASE last_window_leftover = <<>>
    BY <1>5, <2>2 DEF InvalidBytesAfter, Closed
  <2> QED  BY <2>1, <2>2
<1>7. ASSUME Len(last_window_leftover) = Len(text) PROVE Passed > 0 /\ GoesOn
  <2>1. Pending' = Pending
    <3>1. CASE last_window_leftover = <<>>
      BY <1>1, <1>2, <1>7, <3>1
    <3>2. CASE last_window_leftover # <<>>
      <4>1. last_window_leftover = SubSeq(text, Len(text) + 1 - Len(text), Len(text))
        BY <1>1, <1>7, <3>2 DEF IInv, LeftoverInv
      <4>2. Len(text) + 1 - Len(text) = 1 /\ SubSeq(text, 1, Len(text)) = text
        BY <1>2
      <4> QED  BY <1>1, <4>1, <4>2
    <3> QED  BY <3>1, <3>2
  <2>2. Passed' = Passed
    BY <1>1, <1>2, <1>7
  <2> QED  BY <1>1, <1>3, <2>1, <2>2 DEF GoesOn
<1> QED  BY <1>5, <1>6, <1>7

LEMMA ChunksBoundary ==
  ASSUME IInv, PendingInv, FlushInv, Iter!LinesInv, NearSplitInv, SuffixInv, GapInv,
         BoundaryInv, TakenInv, NoGrep, ~SameBlock, CharsMin \in 1 .. LineLen,
         AfterChunks, Findings' = Findings, decoder_result # "OutputFull"
  PROVE  BoundaryInv'
<1> DEFINE d == Len(text) - Len(last_window_leftover)
<1>1. /\ step = "split" /\ pc = "exhausted" /\ stream' = stream /\ Pending = text
      /\ Passed' = Passed + d /\ Len(last_window_leftover) \in 0 .. Len(text)
      /\ Pending' = last_window_leftover /\ NextPos' = NextPos
  BY ChunksSuffix DEF AfterChunks
<1>2. /\ Passed \in Nat /\ Len(stream) \in Nat /\ Passed + Len(text) = Len(stream)
      /\ Len(text) \in Nat /\ LineLen \in Nat /\ CharsMin \in Nat /\ text \in Seq(Char)
  BY <1>1, LostTypes
<1>3. d \in Nat /\ d <= Len(text)
  BY <1>1, <1>2
<1>4. \A i : TakenIn(i)' <=> TakenIn(i)
  BY <1>1 DEF TakenIn
<1> HIDE DEF d
<1> SUFFICES ASSUME Passed + d > 0, GoesOn', NEW i \in 1 .. Passed + d,
                    IsString(i, Passed + d), StartsString(i)
             PROVE  (Passed + d) + 1 - i >= LineLen \/ TakenIn(i)
  <2>1. PICK n \in Nat : n = Passed + d
    BY <1>2, <1>3
  <2> QED  BY <1>1, <1>4, <2>1, StringsStay DEF BoundaryInv
<1>5. CASE i \in 1 .. Passed
  <2>1. Passed > 0 /\ GoesOn /\ IsString(i, Passed)
    <3>1. CASE d > 0
      <4>1. Passed + d \in Passed + 1 .. Len(stream)
        BY <1>2, <1>3, <3>1
      <4> QED  BY <1>5, <4>1, OverBorder
    <3>2. CASE d = 0
      <4>1. Passed + d = Passed /\ Passed > 0
        BY <1>2, <1>5, <3>2
      <4>2. Len(last_window_leftover) = Len(text) /\ Passed' > 0
        BY <1>1, <1>2, <3>2, <4>1 DEF d
      <4>3. GoesOn
        BY <4>2, ChunksGoOn
      <4> QED  BY <4>1, <4>3
    <3> QED  BY <1>3, <3>1, <3>2
  <2>2. Passed + 1 - i >= LineLen \/ TakenIn(i)
    BY <1>5, <2>1 DEF BoundaryInv
  <2> QED  BY <1>2, <1>3, <1>5, <2>2
<1>6. CASE i > Passed
  <2> DEFINE s == i - Passed
  <2>1. s \in 1 .. d /\ Passed + s = i /\ d + 1 - s = (Passed + d) + 1 - i
    BY <1>2, <1>3, <1>6
  <2> HIDE DEF s
  <2>2. ~InvalidBytesAfter
    <3>1. Passed' > 0
      BY <1>1
    <3> QED  BY <3>1, ChunksGoOn
  <2>3. ASSUME NEW q \in s .. d PROVE SP!PassesFilter(text[q].lead)
    <3>1. Passed + q \in i .. Passed + d /\ q \in 1 .. Len(text)
      BY <1>2, <1>3, <2>1
    <3>2. text[q] = stream[Passed + q]
      BY <1>1, <3>1 DEF SuffixInv
    <3> QED  BY <3>1, <3>2 DEF IsString
  <2>4. d + 1 - s >= LineLen \/ TakenIn(Passed + s)
    BY <1>1, <1>3, <2>1, <2>2, <2>3, TextBorder DEF d
  <2> QED  BY <2>1, <2>4
<1> QED  BY <1>2, <1>3, <1>5, <1>6

\* The iterator that from() makes keeps its own invariant.
LEMMA NextKeepsLines ==
  ASSUME IInv, Iter!LinesInv, [Next]_vars
  PROVE  Iter!LinesInv'
<1>1. Iter!IteratorInv
  BY DEF IInv, SplitInv
<1>2. ASSUME UNCHANGED split_vars PROVE Iter!LinesInv'
  BY <1>2, SameIterator, IterAssumptions, Iter!UnchangedKeepsLines
<1>3. CASE StartSplit
  <2>1. CASE SplitStartUnderflows
    BY <1>2, <1>3, <2>1 DEF StartSplit
  <2>2. CASE ~SplitStartUnderflows
    <3>1. SP!New(Leads(last_window_leftover \o text), CharsMin, SameBlock,
                 cut_flag, InvalidBytesAfter, filter_grep_char)
      BY <1>3, <2>2 DEF StartSplit
    <3>2. Iter!New(Leads(last_window_leftover \o text), CharsMin, SameBlock,
                   cut_flag, InvalidBytesAfter, filter_grep_char)
      BY <3>1 DEF SP!New, Iter!New
    <3> QED  BY <3>2, IterAssumptions, Iter!NewEstablishesLines
  <2> QED  BY <2>1, <2>2
<1>4. CASE Split
  <2>1. Iter!NextStep
    BY <1>4, IterSteps DEF Split
  <2> QED  BY <1>1, <2>1, IterAssumptions, Iter!NextStepKeepsLines
<1>5. CASE TakeChunk
  <2>1. Iter!CallNext
    BY <1>5, IterSteps DEF TakeChunk
  <2> QED  BY <1>1, <2>1, IterAssumptions, Iter!CallNextKeepsLines
<1>6. CASE Decode
  <2>1. Decoding
    BY <1>6 DEF Decode, DecodeChar, CompleteChar, StartChar, ContinueChar, InputEmpty,
                Malformed, OutputFull
  <2> QED  BY <1>2, <2>1 DEF Decoding
<1>7. CASE Begin \/ OpenWindow \/ EndSlice \/ AfterChunks \/ Stopped \/ UNCHANGED vars
  <2>1. UNCHANGED split_vars
    BY <1>7 DEF Begin, OpenWindow, EndSlice, AfterChunks, Stopped, vars
  <2> QED  BY <1>2, <2>1
<1> QED  BY <1>3, <1>4, <1>5, <1>6, <1>7 DEF Next, ScanStep

LEMMA NextKeepsLost ==
  ASSUME IInv, IInv', PendingInv, FlushInv, NearSplitInv, OverflowIsTold, Iter!LinesInv,
         LostInv, ~SameBlock, CharsMin \in 1 .. LineLen, [Next]_vars
  PROVE  LostInv'
<1>1. NoGrep' => NoGrep
  BY GrepCharStays DEF NoGrep
<1>2. Whole' => Whole /\ (Findings' = Findings \/ FindingAdded)
  BY WholeStep
<1>3. Whole' => Grown
  <2>1. CASE Findings' = Findings
    BY <2>1 DEF Grown
  <2>2. CASE FindingAdded
    BY <2>2, FindingsTypes DEF FindingAdded, Grown
  <2> QED  BY <1>2, <2>1, <2>2
<1>4. SuffixInv /\ GapInv /\ (NoGrep' /\ Whole' => SettledInv /\ BoundaryInv /\ TakenInv)
  BY <1>1, <1>2 DEF LostInv
<1>5. CASE Decode
  <2>1. step' \in {"decode", "decoded"}
    BY <1>5 DEF Decode, DecodeChar, CompleteChar, StartChar, ContinueChar, InputEmpty,
                Malformed, OutputFull, Decoding, Write, EndCall
  <2>2. TakenInv'
    BY <2>1 DEF TakenInv
  <2> QED  BY <1>3, <1>4, <1>5, <2>2, DecodeSettled DEF LostInv
<1>6. CASE Moving
  <2>1. /\ SuffixInv' /\ GapInv'
        /\ NoGrep' /\ Whole' => SettledInv' /\ BoundaryInv'
    BY <1>3, <1>4, <1>6, MoveSettled
  <2>2. ASSUME NoGrep', Whole' PROVE TakenInv'
    <3>1. CASE Begin \/ OpenWindow \/ EndSlice
      <4>1. step' # "split"
        BY <3>1 DEF Begin, OpenWindow, EndSlice
      <4> QED  BY <4>1 DEF TakenInv
    <3>2. CASE StartSplit
      BY <3>2, StartSplitTaken
    <3>3. CASE Split
      BY <1>4, <2>2, <3>3, SplitKeepsTaken
    <3>4. CASE TakeChunk
      BY <1>2, <1>4, <2>2, <3>4, TakeChunkKeepsTaken
    <3>5. CASE UNCHANGED vars
      <4>1. UNCHANGED <<step, results, pc, text, last_window_leftover, printed, v>>
        BY <3>5 DEF vars, split_vars, collection_vars, returned_vars
      <4>2. Findings' = Findings /\ Taken' = Taken
        BY <4>1 DEF Findings, Taken
      <4>3. TakenInv
        BY <1>4, <2>2
      <4> QED  BY <4>1, <4>2, <4>3 DEF TakenInv, IsFindingOf
    <3> QED  BY <1>6, <3>1, <3>2, <3>3, <3>4, <3>5 DEF Moving
  <2> QED  BY <2>1, <2>2 DEF LostInv
<1>7. CASE AfterChunks
  <2>1. SuffixInv' /\ GapInv'
    BY <1>4, <1>7, ChunksSuffix
  <2>2. step' # "split" /\ ~TakeChunk
    BY <1>7, AfterChunksPending DEF AfterChunks, TakeChunk
  <2>3. ASSUME NoGrep', Whole' PROVE SettledInv' /\ BoundaryInv'
    <3>1. Findings' = Findings /\ NoGrep /\ SettledInv /\ BoundaryInv /\ TakenInv
      BY <1>1, <1>2, <1>4, <2>2, <2>3 DEF FindingAdded
    <3>2. decoder_result # "OutputFull"
      BY <1>7, <2>3 DEF AfterChunks, Whole
    <3>3. SettledInv'
      BY <1>4, <1>7, <3>1, ChunksSettled
    <3>4. BoundaryInv'
      BY <1>4, <1>7, <3>1, <3>2, ChunksBoundary
    <3> QED  BY <3>3, <3>4
  <2>4. TakenInv'
    BY <2>2 DEF TakenInv
  <2> QED  BY <2>1, <2>3, <2>4 DEF LostInv
<1> QED  BY <1>5, <1>6, <1>7 DEF Next, ScanStep, Stopped, Moving

LEMMA LostInvariant ==
  ASSUME ~SameBlock, CharsMin \in 1 .. LineLen
  PROVE  Spec => []LostInv
<1>1. Init => LostInv /\ Iter!LinesInv
  <2> SUFFICES ASSUME Init PROVE LostInv /\ Iter!LinesInv
    OBVIOUS
  <2>1. /\ step = "idle" /\ decoder = NoBytes /\ last_scan_run_leftover = <<>>
        /\ stream = <<>> /\ SP!NoIterator
    BY DEF Init
  <2>2. Pending = <<>> /\ Len(stream) = 0 /\ Passed = 0
    BY <2>1 DEF Pending, Passed
  <2>3. SuffixInv /\ GapInv /\ SettledInv /\ BoundaryInv /\ TakenInv
    BY <2>1, <2>2 DEF SuffixInv, GapInv, SettledInv, BoundaryInv, TakenInv
  <2>4. Iter!LinesInv
    BY <2>1, SameIterator, IterAssumptions, Iter!NoIteratorHasLines
  <2> QED  BY <2>3, <2>4 DEF LostInv
<1>2. /\ StreamInv /\ StreamInv' /\ FlushInv /\ NearInv /\ ContInv
      /\ LostInv /\ Iter!LinesInv /\ [Next]_vars
      => LostInv' /\ Iter!LinesInv'
  BY NextKeepsLost, NextKeepsLines DEF StreamInv, NearInv, ContInv
<1> QED  BY <1>1, <1>2, StreamInvariant, FlushInvariant, NearInvariant,
            ContInvariant, PTL DEF Spec

\* Of every string that has MIN characters the first line is printed, or kept while
\* the string may go on, wherever windows, slices and calls of the decoder cut it --
\* unless its start was taken for the completion of the string before it.
THEOREM FirstLineIsNotLost ==
  ASSUME ~SameBlock, CharsMin >= 1
  PROVE  Spec => []FirstLineNotLost
<1>1. CASE CharsMin > LineLen
  <2>1. FirstLineNotLost
    <3>1. CharsMin .. LineLen = {}
      BY <1>1, ConstantTypes
    <3> QED  BY <3>1 DEF FirstLineNotLost
  <2> QED  BY <2>1, PTL
<1>2. CASE CharsMin \in 1 .. LineLen
  <2>1. StreamInv /\ ContInv /\ LostInv => FirstLineNotLost
    <3> SUFFICES ASSUME StreamInv, ContInv, LostInv, step = "idle", NoGrep, ~incomplete,
                        NEW i \in 1 .. Len(stream), NEW j \in 1 .. Len(stream),
                        IsString(i, j), StartsString(i), ~TakenForCompletion(i),
                        j + 1 - i \in CharsMin .. LineLen, NEW k \in i .. j
                 PROVE  Kept(stream[k])
      BY DEF FirstLineNotLost
    <3>1. Findings = printed
      <4>1. v = <<>>
        BY DEF StreamInv, IInv, CollectionInv
      <4>2. printed \o <<>> = printed
        BY FindingsTypes DEF StreamInv
      <4> QED  BY <4>1, <4>2 DEF Findings
    <3>2. SettledInv /\ SuffixInv
      BY DEF LostInv, ContInv, OverflowIsTold, Whole
    <3>3. /\ Passed \in Nat /\ Len(stream) \in Nat /\ Passed + Len(Pending) = Len(stream)
          /\ Pending = last_scan_run_leftover
      BY <3>2, LostTypes DEF StreamInv, Pending
    <3>4. CASE i <= Passed
      <4>1. i \in 1 .. Passed /\ j \in i .. Len(stream)
        BY <3>3, <3>4
      <4>2. ~TakenIn(i) /\ IsFirstLine(i, j)
        BY <3>1 DEF TakenIn, TakenForCompletion, IsFirstLine
      <4>3. Found(stream[k])
        BY <3>2, <4>1, <4>2 DEF SettledInv
      <4> QED  BY <3>1, <4>3 DEF Found, Kept
    <3>5. CASE i > Passed
      <4> DEFINE d == k - Passed
      <4>1. d \in 1 .. Len(Pending) /\ Passed + d = k
        BY <3>3, <3>5
      <4> HIDE DEF d
      <4>2. Pending[d] = stream[k]
        BY <3>2, <4>1 DEF SuffixInv
      <4> QED  BY <3>3, <4>1, <4>2 DEF Kept, In
    <3> QED  BY <3>3, <3>4, <3>5
  <2> QED  BY <1>2, <2>1, StreamInvariant, ContInvariant, LostInvariant, PTL
<1>3. CharsMin \in 1 .. LineLen \/ CharsMin > LineLen
  BY ConstantTypes
<1> QED  BY <1>1, <1>2, <1>3

-----------------------------------------------------------------------------
(* Strings of any length, in an encoding with one byte per character.      *)

OneBytePerChar == \A c \in Chars : c.width = 1

\* The string that ends what has passed goes on in what is pending, or may go on.
Joined == Passed > 0 /\ GoesOn /\ SP!PassesFilter(stream[Passed].lead)

\* Of what has passed all strings are found, however long they are: those with MIN
\* characters, and the last one even if it is shorter, when it may go on.
FoundInv ==
    \A i, j \in 1 .. Passed :
        /\ i <= j /\ IsString(i, j)
        /\ j + 1 - i >= CharsMin \/ (j = Passed /\ Joined)
        => \A k \in i .. j : Found(stream[k])

\* If it may go on, it is known to be cut, and so the next text continues it.
JoinInv ==
    IF step = "split"
    THEN \E continue \in BOOLEAN : Iter!ContinueInv(continue) /\ (Joined => continue)
    ELSE Joined => FlagSet

\* A string that was printed and may be cut sets the flag.
CutFlagInv ==
    /\ step = "split" /\ Taken # 0
    /\ results[Taken].s_is_maybe_cut /\ ~results[Taken].s_is_to_be_filtered_again
    => cut_flag

\* A call of the decoder that writes nothing, and so clears the flag, comes behind an
\* invalid byte or the end.  (A window that the first bytes of a character fill would
\* be another one: with one byte per character there is none.)
EmptyCallInv ==
    /\ step \in {"decode", "decoded", "split"} /\ text = <<>>
    /\ decoder_read = decoder_input_end /\ ~Closed /\ Len(stream) > 0
    => stream[Len(stream)].end < NextPos

\* A decoder of such an encoding never keeps the first bytes of a character.
CompletedInv ==
    /\ decoder = NoBytes
    /\ EmptyCallInv /\ CutFlagInv
    /\ NoGrep /\ Whole => FoundInv /\ JoinInv

LEMMA FoundStays ==
  ASSUME Passed \in Nat, FoundInv, BorderStays, Grown
  PROVE  FoundInv' /\ (Joined' => Joined)
<1>1. PICK n \in Nat : n = Passed
  OBVIOUS
<1>2. /\ Passed' = n
      /\ n > 0 /\ GoesOn' => GoesOn
      /\ \A k \in 1 .. n : stream'[k] = stream[k]
      /\ \A i, j \in 1 .. n : IsString(i, j)' <=> IsString(i, j)
  BY <1>1 DEF BorderStays
<1>3. Joined' => Joined
  <2> SUFFICES ASSUME Joined' PROVE Joined
    OBVIOUS
  <2>1. n > 0 /\ GoesOn' /\ SP!PassesFilter(stream'[n].lead)
    BY <1>2 DEF Joined, SP!PassesFilter
  <2>2. n \in 1 .. n
    BY <2>1
  <2>3. stream'[n] = stream[n]
    BY <1>2, <2>2
  <2> QED  BY <1>1, <1>2, <2>1, <2>3 DEF Joined, SP!PassesFilter
<1>4. FoundInv'
  <2> SUFFICES ASSUME NEW i \in 1 .. n, NEW j \in 1 .. n, i <= j, IsString(i, j)',
                      j + 1 - i >= CharsMin \/ (j = n /\ Joined'), NEW k \in i .. j
               PROVE  Found(stream[k])'
    BY <1>2 DEF FoundInv
  <2>1. k \in 1 .. n
    OBVIOUS
  <2>2. IsString(i, j) /\ stream'[k] = stream[k]
    BY <1>2, <2>1
  <2>3. Found(stream[k])
    BY <1>1, <1>3, <2>2 DEF FoundInv
  <2>4. PICK f \in 1 .. Len(Findings) : In(stream[k], Findings[f].s)
    BY <2>3 DEF Found
  <2>5. f \in 1 .. Len(Findings') /\ Findings'[f] = Findings[f]
    BY DEF Grown
  <2> QED  BY <2>2, <2>4, <2>5 DEF Found, In
<1> QED  BY <1>3, <1>4

\* With one byte per character the decoder keeps nothing, and ends a call without
\* reading unless it meets an invalid byte.
LEMMA DecodeOneByte ==
  ASSUME IInv, IInv', PendingInv, GapInv, OneBytePerChar, decoder = NoBytes, EmptyCallInv, Decode
  PROVE  decoder' = NoBytes /\ EmptyCallInv'
<1>1. Decoding
  BY DEF Decode, DecodeChar, CompleteChar, StartChar, ContinueChar, InputEmpty,
         Malformed, OutputFull
<1>2. /\ step = "decode" /\ decoder_read \in Nat /\ decoder_input_end \in Nat
      /\ UNCHANGED <<is_last_window, is_last_input_buffer, decoder_input_end>>
  BY <1>1, DecodingFrame DEF IInv, TypeOK
<1>3. ASSUME NEW char \in Char, Write(char) PROVE EmptyCallInv'
  <2>1. text' = Append(text, char)
    BY <1>3 DEF Write
  <2>2. text' # <<>>
    <3>1. text \in Seq(Char)
      BY TextTypes DEF IInv, TypeOK
    <3>2. Append(text, char) # <<>>
      BY <3>1
    <3> QED  BY <2>1, <3>2
  <2> QED  BY <2>2 DEF EmptyCallInv
<1>4. CASE DecodeChar
  <2>1. PICK c \in Chars :
           Write([lead |-> c.lead, at |-> StreamPos, end |-> StreamPos + c.width])
    BY <1>4 DEF DecodeChar
  <2>2. [lead |-> c.lead, at |-> StreamPos, end |-> StreamPos + c.width] \in Char
    <3>1. c.lead \in SP!LeadingBytes /\ c.width \in Nat /\ StreamPos \in Nat
      BY <1>2, ConstantTypes DEF IInv, TypeOK, StreamPos
    <3> QED  BY <3>1 DEF Char
  <2> QED  BY <1>3, <1>4, <2>1, <2>2 DEF DecodeChar
<1>5. ~CompleteChar /\ ~StartChar /\ ~ContinueChar
  <2>1. decoder.left = 0
    BY DEF NoBytes
  <2>2. ~CompleteChar
    BY <2>1 DEF CompleteChar
  <2>3. ~StartChar
    <3>1. \A c \in Chars : c.width = 1
      BY DEF OneBytePerChar
    <3>2. Available \in Int
      BY <1>2 DEF Available
    <3> SUFFICES ASSUME StartChar PROVE FALSE
      OBVIOUS
    <3>3. Available > 0 /\ \E c \in Chars : c.width > Available
      BY DEF StartChar
    <3> QED  BY <3>1, <3>2, <3>3
  <2>4. ~ContinueChar
    <3>1. Available \in Int
      BY <1>2 DEF Available
    <3> QED  BY <2>1, <3>1 DEF ContinueChar
  <2> QED  BY <2>2, <2>3, <2>4
<1>6. CASE InputEmpty \/ OutputFull
  <2>1. /\ step' = "decoded" /\ text' = text /\ stream' = stream
        /\ decoder' = decoder /\ decoder_read' = decoder_read
        /\ consumed_bytes' = consumed_bytes
    BY <1>1, <1>6, DecodingFrame DEF InputEmpty, OutputFull, EndCall
  <2>2. NextPos' = NextPos /\ (Closed' <=> Closed)
    BY <1>2, <2>1 DEF NextPos, NoBytes, StreamEnd, StreamPos, Closed
  <2> QED  BY <1>2, <2>1, <2>2 DEF EmptyCallInv, NoBytes
<1>7. CASE Malformed
  <2>1. /\ decoder' = NoBytes /\ step' = "decoded" /\ decoder_result' = "Malformed"
        /\ stream' = stream
    BY <1>7 DEF Malformed, EndCall
  <2>2. NextPos < NextPos'
    BY <2>1, DecodeStep
  <2>3. /\ stream \in Seq(Char) /\ NextPos \in Nat
        /\ Len(stream) > 0 => stream[Len(stream)].end <= NextPos
    BY PendingTypes DEF PendingInv, GapInv
  <2>4. Len(stream) > 0 => stream[Len(stream)].end \in Nat
    <3>1. Len(stream) > 0 => stream[Len(stream)] \in Char
      BY <2>3
    <3> QED  BY <3>1 DEF Char
  <2>5. NextPos' \in Nat
    BY NextPosType DEF IInv
  <2>6. Len(stream) > 0 => stream[Len(stream)].end < NextPos'
    <3> SUFFICES ASSUME Len(stream) > 0 PROVE stream[Len(stream)].end < NextPos'
      OBVIOUS
    <3>1. PICK e \in Nat : e = stream[Len(stream)].end /\ e <= NextPos
      BY <2>3, <2>4
    <3>2. e < NextPos'
      BY <2>2, <2>3, <2>5, <3>1
    <3> QED  BY <3>1, <3>2
  <2> QED  BY <2>1, <2>6 DEF EmptyCallInv
<1> QED  BY <1>4, <1>5, <1>6, <1>7 DEF Decode

\* Between the calls of the decoder the flag goes from the call to the slice and back,
\* and into the iterator.
LEMMA MoveCompleted ==
  ASSUME IInv, IInv', PendingInv, SuffixInv, GapInv, FlushInv,
         decoder = NoBytes, EmptyCallInv, CutFlagInv, Moving
  PROVE  /\ decoder' = NoBytes /\ EmptyCallInv' /\ CutFlagInv'
         /\ FoundInv /\ JoinInv /\ Grown => FoundInv' /\ JoinInv'
<1>1. /\ stream' = stream /\ decoder' = decoder /\ StreamEnd' = StreamEnd
      /\ Closed => Closed'
  BY MoveFacts
<1>2. NextPos' = NextPos
  BY <1>1 DEF NextPos, NoBytes
<1>3. EmptyCallInv'
  <2>1. CASE Begin \/ EndSlice
    <3>1. step' \notin {"decode", "decoded", "split"}
      BY <2>1 DEF Begin, EndSlice
    <3> QED  BY <3>1 DEF EmptyCallInv
  <2>2. CASE OpenWindow
    <3>1. /\ step = "window" /\ decoder_input_start < slice_len
          /\ decoder_read' = decoder_read
          /\ decoder_input_end' \in {decoder_input_start + 2 * LineLen, slice_len}
      BY <2>2 DEF OpenWindow, call_vars
    <3>2. decoder_read = decoder_input_start
      BY <3>1 DEF IInv, WindowInv
    <3>3. decoder_input_start \in Nat /\ slice_len \in Nat /\ LineLen \in Nat \ {0}
      BY ConstantTypes DEF IInv, TypeOK
    <3>4. decoder_read' # decoder_input_end'
      BY <3>1, <3>2, <3>3
    <3> QED  BY <3>4 DEF EmptyCallInv
  <2>3. CASE StartSplit
    <3>1. /\ step = "decoded" /\ step' \in {"split", "panicked"}
          /\ step' = "split" => text' = last_window_leftover \o text
          /\ UNCHANGED <<decoder_read, decoder_input_end>>
      BY <2>3 DEF StartSplit, window_vars, call_vars
    <3>2. step' = "split" /\ text' = <<>> => text = <<>>
      <4>1. text \in Seq(Char) /\ last_window_leftover \in Seq(Char)
        BY TextTypes DEF IInv, TypeOK
      <4>2. last_window_leftover \o text = <<>> => text = <<>>
        BY <4>1
      <4> QED  BY <3>1, <4>2
    <3> QED  BY <1>1, <1>2, <3>1, <3>2 DEF EmptyCallInv
  <2>4. CASE Split \/ TakeChunk \/ UNCHANGED vars
    <3>1. UNCHANGED <<step, text, decoder_read, decoder_input_end>>
      BY <2>4 DEF Split, TakeChunk, window_vars, call_vars, vars
    <3> QED  BY <1>1, <1>2, <3>1 DEF EmptyCallInv
  <2> QED  BY <2>1, <2>2, <2>3, <2>4 DEF Moving
<1>4. CutFlagInv'
  <2>1. CASE Begin \/ OpenWindow \/ EndSlice
    <3>1. step' # "split"
      BY <2>1 DEF Begin, OpenWindow, EndSlice
    <3> QED  BY <3>1 DEF CutFlagInv
  <2>2. CASE StartSplit
    <3> SUFFICES ASSUME step' = "split" PROVE CutFlagInv'
      BY DEF CutFlagInv
    <3>1. SP!New(Leads(last_window_leftover \o text), CharsMin, SameBlock,
                 cut_flag, InvalidBytesAfter, filter_grep_char)
      BY <2>2 DEF StartSplit
    <3>2. results' = <<>> /\ pc' = "loop"
      BY <3>1 DEF SP!New
    <3>3. Taken' = 0
      BY <3>2 DEF Taken
    <3> QED  BY <3>3 DEF CutFlagInv
  <2>3. CASE Split
    <3>1. step' = step /\ cut_flag' = cut_flag
      BY <2>3 DEF Split
    <3>2. Taken' = Taken /\ (Taken # 0 => results'[Taken] = results[Taken])
      BY <2>3, SplitTaken, TakenType
    <3> QED  BY <3>1, <3>2 DEF CutFlagInv
  <2>4. CASE TakeChunk
    <3>1. /\ pc = "returned" /\ pc' = "loop" /\ results' = results
          /\ ~Chunk.s_is_to_be_filtered_again => cut_flag' = Chunk.s_is_maybe_cut
      BY <2>4 DEF TakeChunk, SP!CallNext, SP!iterator_vars
    <3>2. Taken' = Len(results)
      BY <3>1 DEF Taken
    <3> QED  BY <3>1, <3>2 DEF CutFlagInv, Chunk
  <2>5. CASE UNCHANGED vars
    <3>1. UNCHANGED <<step, results, pc, cut_flag>>
      BY <2>5 DEF vars, split_vars
    <3> QED  BY <3>1 DEF CutFlagInv, Taken
  <2> QED  BY <2>1, <2>2, <2>3, <2>4, <2>5 DEF Moving
<1>5. ASSUME FoundInv, JoinInv, Grown PROVE FoundInv' /\ JoinInv'
  <2>1. FoundInv' /\ (Joined' => Joined)
    <3>1. Passed \in Nat /\ BorderStays
      BY LostTypes, MoveSettled
    <3> QED  BY <1>5, <3>1, FoundStays
  <2>2. CASE Begin \/ OpenWindow \/ EndSlice
    <3>1. step # "split" /\ step' # "split" /\ FlagSet' = FlagSet
      BY <2>2 DEF Begin, OpenWindow, EndSlice, FlagSet, ss_vars
    <3> QED  BY <1>5, <2>1, <3>1 DEF JoinInv
  <2>3. CASE StartSplit
    <3>1. step = "decoded"
      BY <2>3 DEF StartSplit
    <3>2. Joined => cut_flag
      BY <1>5, <3>1 DEF JoinInv, FlagSet
    <3>3. CASE SplitStartUnderflows
      <4>1. step' = "panicked" /\ cut_flag' = cut_flag
        BY <2>3, <3>3 DEF StartSplit
      <4> QED  BY <2>1, <3>2, <4>1 DEF JoinInv, FlagSet
    <3>4. CASE ~SplitStartUnderflows
      <4>1. PICK continue \in BOOLEAN : continue = cut_flag
        BY DEF IInv, TypeOK
      <4>2. /\ step' = "split"
            /\ SP!New(Leads(last_window_leftover \o text), CharsMin, SameBlock,
                      continue, InvalidBytesAfter, filter_grep_char)
        BY <2>3, <3>4, <4>1 DEF StartSplit
      <4>3. Iter!New(Leads(last_window_leftover \o text), CharsMin, SameBlock,
                     continue, InvalidBytesAfter, filter_grep_char)
        BY <4>2 DEF SP!New, Iter!New
      <4>4. Iter!ContinueInv(continue)'
        BY <4>3, IterAssumptions, Iter!NewEstablishesRuns
      <4> QED  BY <2>1, <3>2, <4>1, <4>2, <4>4 DEF JoinInv
    <3> QED  BY <3>3, <3>4
  <2>4. CASE Split \/ TakeChunk
    <3>1. step = "split" /\ step' = "split"
      BY <2>4 DEF Split, TakeChunk
    <3>2. PICK continue \in BOOLEAN : Iter!ContinueInv(continue) /\ (Joined => continue)
      BY <1>5, <3>1 DEF JoinInv
    <3>3. Iter!IteratorInv
      BY DEF IInv, SplitInv
    <3>4. Iter!ContinueInv(continue)'
      <4>1. CASE Split
        <5>1. Iter!NextStep
          BY <4>1, IterSteps DEF Split
        <5> QED  BY <3>2, <3>3, <5>1, IterAssumptions, Iter!NextStepKeepsRuns
      <4>2. CASE TakeChunk
        <5>1. Iter!CallNext
          BY <4>2, IterSteps DEF TakeChunk
        <5> QED  BY <3>2, <3>3, <5>1, IterAssumptions, Iter!CallNextKeepsRuns
      <4> QED  BY <2>4, <4>1, <4>2
    <3> QED  BY <2>1, <3>1, <3>2, <3>4 DEF JoinInv
  <2>5. CASE UNCHANGED vars
    <3>1. UNCHANGED <<step, cut_flag, last_run_str_was_printed_and_is_maybe_cut_str>>
      BY <2>5 DEF vars, ss_vars
    <3>2. CASE step = "split"
      <4>1. PICK continue \in BOOLEAN : Iter!ContinueInv(continue) /\ (Joined => continue)
        BY <1>5, <3>2 DEF JoinInv
      <4>2. UNCHANGED split_vars
        BY <2>5 DEF vars
      <4>3. Iter!ContinueInv(continue)'
        BY <4>1, <4>2, SameIterator, IterAssumptions, Iter!UnchangedKeepsRuns
      <4> QED  BY <2>1, <3>1, <3>2, <4>1, <4>3 DEF JoinInv
    <3>3. CASE step # "split"
      BY <1>5, <2>1, <3>1, <3>3 DEF JoinInv, FlagSet
    <3> QED  BY <3>2, <3>3
  <2> QED  BY <2>1, <2>2, <2>3, <2>4, <2>5 DEF Moving
<1> QED  BY <1>1, <1>3, <1>4, <1>5 DEF NoBytes

\* What the iterator's invariant says of the runs in the text.
LEMMA TextRuns ==
  ASSUME IInv, PendingInv, NearSplitInv, step = "split", pc = "exhausted",
         NoGrep, ~SameBlock, CharsMin \in 1 .. LineLen,
         NEW continue \in BOOLEAN, Iter!ContinueInv(continue)
  PROVE  /\ \A s, t \in 1 .. Len(text) :
               /\ s <= t /\ \A k \in s .. t : SP!PassesFilter(text[k].lead)
               /\ \/ t + 1 - s >= CharsMin
                  \/ t = Len(text) /\ ~InvalidBytesAfter
                  \/ s = 1 /\ continue
               => \A q \in s .. t : \E k \in 1 .. Len(results) :
                     q \in results[k].from .. results[k].from + results[k].nb - 1
         /\ \A k \in 1 .. Len(results) :
               /\ results[k].from + results[k].nb = Len(text) + 1 /\ ~InvalidBytesAfter =>
                     results[k].s_is_maybe_cut
               /\ results[k].s_is_to_be_filtered_again =>
                     /\ continue => results[k].from # 1
                     /\ \A s \in 1 .. results[k].from - 1 :
                           \E q \in s .. Len(text) : ~SP!PassesFilter(text[q].lead)
<1>1. /\ inp = Leads(text) /\ chars_min_nb = CharsMin /\ grep_char = filter_grep_char
      /\ invalid_bytes_after_inp = InvalidBytesAfter
      /\ require_same_unicode_block = SameBlock
  BY DEF IInv, SplitInv, NearSplitInv
<1>2. Iter!Lossless
  BY <1>1 DEF Iter!Lossless, Iter!NoGrep, NoGrep, CharMax
<1>3. Len(inp) = Len(text) /\ \A k \in 1 .. Len(text) : inp[k] = text[k].lead
  BY <1>1, TextTypes DEF IInv, TypeOK
<1>4. Len(text) \in Nat
  BY TextTypes DEF IInv, TypeOK
<1>5. \A lead : Iter!PassesFilter(lead) <=> SP!PassesFilter(lead)
  BY DEF Iter!PassesFilter, SP!PassesFilter, Iter!IsMultibyte, SP!IsMultibyte
<1>6. ASSUME NEW s \in 1 .. Len(text), NEW t \in 1 .. Len(text)
      PROVE  Iter!IsRun(s, t) <=> \A k \in s .. t : SP!PassesFilter(text[k].lead)
  <2>1. \A k \in s .. t : k \in 1 .. Len(text)
    BY <1>4
  <2> QED  BY <1>1, <1>3, <1>5, <2>1 DEF Iter!IsRun
<1>7. ASSUME NEW s \in 1 .. Len(text), NEW t \in 1 .. Len(text), s <= t,
             \A k \in s .. t : SP!PassesFilter(text[k].lead),
             \/ t + 1 - s >= CharsMin
             \/ t = Len(text) /\ ~InvalidBytesAfter
             \/ s = 1 /\ continue,
             NEW q \in s .. t
      PROVE  \E k \in 1 .. Len(results) :
                q \in results[k].from .. results[k].from + results[k].nb - 1
  <2>1. Iter!Qualifies(s, t, continue)
    BY <1>1, <1>3, <1>6, <1>7 DEF Iter!Qualifies
  <2>2. Iter!Covered(q)
    BY <1>2, <1>3, <1>7, <2>1 DEF Iter!ContinueInv, Iter!RunsInv
  <2> QED  BY <2>2 DEF Iter!Covered, Iter!PlacesOf
<1>8. ASSUME NEW k \in 1 .. Len(results),
             results[k].from + results[k].nb = Len(text) + 1, ~InvalidBytesAfter
      PROVE  results[k].s_is_maybe_cut
  BY <1>1, <1>3, <1>8 DEF Iter!ContinueInv, Iter!EndsInv, Iter!EndOf
<1>9. ASSUME NEW k \in 1 .. Len(results), results[k].s_is_to_be_filtered_again, continue
      PROVE  results[k].from # 1
  <2> SUFFICES ASSUME results[k].from = 1 PROVE FALSE
    OBVIOUS
  <2>1. Iter!KeptInv
    BY DEF IInv, SplitInv, Iter!IteratorInv, Iter!ResultsInv
  <2>2. ~results[k].s_completes_previous_s
    BY <1>9, <2>1 DEF Iter!KeptInv
  <2>3. k = 1
    <3> SUFFICES ASSUME k # 1 PROVE FALSE
      OBVIOUS
    <3>1. Len(results) \in Nat
      BY ResultsOrder
    <3>2. 1 \in 1 .. Len(results) /\ 1 < k
      BY <3>1
    <3>3. results[1].from + results[1].nb <= results[k].from
      BY <3>2, ResultsApart
    <3>4. /\ results[1].from \in Nat /\ results[1].from >= 1
          /\ results[1].nb \in Nat /\ results[1].nb >= 1
      BY <3>2, ResultBounds
    <3> QED  BY <3>3, <3>4
  <2>4. results # <<>>
    <3>1. Len(results) \in Nat /\ Len(results) # 0
      BY ResultsOrder
    <3> QED  BY <3>1
  <2>5. results[1].s_completes_previous_s
    BY <1>9, <2>3, <2>4 DEF Iter!ContinueInv, Iter!FlagInv
  <2> QED  BY <2>2, <2>3, <2>5
<1>10. ASSUME NEW k \in 1 .. Len(results), results[k].s_is_to_be_filtered_again,
              NEW s \in 1 .. results[k].from - 1
       PROVE  \E q \in s .. Len(text) : ~SP!PassesFilter(text[q].lead)
  <2>1. ~Iter!IsRun(s, Len(text))
    BY <1>2, <1>3, <1>10 DEF Iter!ContinueInv, Iter!EndsInv
  <2>2. s \in 1 .. Len(text) /\ Len(text) \in 1 .. Len(text)
    <3>1. /\ results[k].from \in Nat /\ results[k].nb \in Nat /\ results[k].nb >= 1
          /\ results[k].from + results[k].nb <= Len(text) + 1
      BY ResultBounds
    <3> QED  BY <1>4, <3>1
  <2> QED  BY <1>6, <2>1, <2>2
<1> QED  BY <1>7, <1>8, <1>9, <1>10

\* What the results cover, but for the one that is kept, is found.
LEMMA PlaceIsFound ==
  ASSUME IInv, PendingInv, SuffixInv, TakenInv, step = "split", pc = "exhausted",
         NEW k \in 1 .. Len(results),
         NEW q \in results[k].from .. results[k].from + results[k].nb - 1
  PROVE  /\ results[k].s_is_to_be_filtered_again =>
               /\ last_window_leftover # <<>>
               /\ q > Len(text) - Len(last_window_leftover)
         /\ ~results[k].s_is_to_be_filtered_again => Found(stream[Passed + q])
<1>1. CASE ~results[k].s_is_to_be_filtered_again
  BY <1>1, ResultIsFound
<1>2. CASE results[k].s_is_to_be_filtered_again
  <2>1. last_window_leftover = SubSeq(text, results[k].from, Len(text))
    BY <1>2 DEF TakenInv, Taken
  <2>2. text \in Seq(Char)
    BY TextTypes DEF IInv, TypeOK
  <2>3. PICK from \in Nat : from = results[k].from
    BY ResultBounds
  <2>4. from \in 1 .. Len(text) /\ Len(text) \in Nat /\ q \in Nat /\ q >= from
    BY <2>3, ResultBounds
  <2>5. Len(last_window_leftover) = Len(text) + 1 - from
    BY <2>1, <2>2, <2>3, <2>4
  <2>6. Len(last_window_leftover) >= 1 /\ q > Len(text) - Len(last_window_leftover)
    BY <2>4, <2>5
  <2> QED  BY <1>2, <2>2, <2>6
<1> QED  BY <1>1, <1>2

\* A string that goes on in the leftover is not broken by it: it starts there.
LEMMA NothingBeforeKept ==
  ASSUME IInv, PendingInv, NearSplitInv, SuffixInv, TakenInv,
         step = "split", pc = "exhausted", NoGrep, ~SameBlock, CharsMin \in 1 .. LineLen,
         NEW continue \in BOOLEAN, Iter!ContinueInv(continue), last_window_leftover # <<>>,
         NEW d \in Nat, d = Len(text) - Len(last_window_leftover)
  PROVE  /\ d = 0 => ~continue
         /\ \A s \in 1 .. d : \E q \in s .. d : ~SP!PassesFilter(text[q].lead)
<1> DEFINE n == Len(results)
<1>1. /\ n \in 1 .. n /\ n \in Nat /\ results[n].s_is_to_be_filtered_again
      /\ results[n].from = Len(text) + 1 - Len(last_window_leftover)
      /\ results[n].from + results[n].nb = Len(text) + 1
  BY KeptChunk, ResultsOrder
<1>2. Len(text) \in Nat /\ Len(last_window_leftover) \in Nat
  BY TextTypes DEF IInv, TypeOK
<1>3. results[n].from = d + 1 /\ results[n].nb \in Nat /\ results[n].from \in Nat
  BY <1>1, <1>2, ResultBounds
<1>4. d = 0 => ~continue
  BY <1>1, <1>3, TextRuns
<1>5. ASSUME NEW s \in 1 .. d PROVE \E q \in s .. d : ~SP!PassesFilter(text[q].lead)
  <2>1. s \in 1 .. results[n].from - 1
    BY <1>3
  <2>2. PICK q \in s .. Len(text) : ~SP!PassesFilter(text[q].lead)
    BY <1>1, <2>1, TextRuns
  <2>3. q \notin d + 1 .. Len(text)
    <3> SUFFICES ASSUME q \in d + 1 .. Len(text) PROVE FALSE
      OBVIOUS
    <3>1. Iter!ResultsAreStrings /\ inp = Leads(text)
      BY DEF IInv, SplitInv, Iter!IteratorInv, Iter!ResultsInv
    <3>2. Iter!Homogeneous(Iter!PlacesOf(results[n]))
      BY <1>1, <3>1 DEF Iter!ResultsAreStrings
    <3>3. q \in Iter!PlacesOf(results[n])
      BY <1>1, <1>2, <1>3 DEF Iter!PlacesOf
    <3>4. inp[q] = text[q].lead
      <4>1. q \in 1 .. Len(text)
        BY <1>2
      <4> QED  BY <3>1, <4>1, TextTypes DEF IInv, TypeOK
    <3> QED  BY <2>2, <3>2, <3>3, <3>4
             DEF Iter!Homogeneous, Iter!PassesFilter, SP!PassesFilter, Iter!IsMultibyte,
                 SP!IsMultibyte
  <2>4. q \in s .. d
    BY <1>2, <2>3
  <2> QED  BY <2>2, <2>4
<1> QED  BY <1>4, <1>5

\* The strings that have passed now are found, and the last one is known to be cut if
\* it may go on.
LEMMA ChunksCompleted ==
  ASSUME IInv, PendingInv, FlushInv, NearSplitInv, SuffixInv, GapInv, TakenInv,
         EmptyCallInv, CutFlagInv, FoundInv, JoinInv,
         NoGrep, ~SameBlock, CharsMin \in 1 .. LineLen,
         AfterChunks, Findings' = Findings, decoder_result # "OutputFull"
  PROVE  FoundInv' /\ JoinInv'
<1>1. /\ step = "split" /\ pc = "exhausted" /\ stream' = stream /\ Pending = text
      /\ Passed' = Passed + (Len(text) - Len(last_window_leftover))
      /\ Len(last_window_leftover) \in 0 .. Len(text)
      /\ Pending' = last_window_leftover /\ NextPos' = NextPos
  BY ChunksSuffix DEF AfterChunks
<1>2. /\ Passed \in Nat /\ Len(stream) \in Nat /\ Passed + Len(text) = Len(stream)
      /\ Len(text) \in Nat /\ LineLen \in Nat /\ CharsMin \in Nat /\ text \in Seq(Char)
      /\ last_window_leftover \in Seq(Char)
  BY <1>1, LostTypes, TextTypes DEF IInv, TypeOK
<1>3. PICK d \in Nat : /\ d = Len(text) - Len(last_window_leftover) /\ d <= Len(text)
                       /\ Passed' = Passed + d
  <2>1. /\ Len(text) - Len(last_window_leftover) \in Nat
        /\ Len(text) - Len(last_window_leftover) <= Len(text)
    BY <1>1, <1>2
  <2> QED  BY <1>1, <2>1
<1>4. PICK continue \in BOOLEAN : Iter!ContinueInv(continue) /\ (Joined => continue)
  BY <1>1 DEF JoinInv
<1>5. PICK n \in Nat : n = Passed
  BY <1>2
<1>6. \A c : Found(c)' <=> Found(c)
  BY DEF Found, In
<1>7. Joined' => /\ n + d > 0 /\ GoesOn' /\ Passed' > 0
                 /\ SP!PassesFilter(stream[n + d].lead)
  BY <1>1, <1>3, <1>5 DEF Joined, SP!PassesFilter
<1>8. ASSUME NEW q \in 1 .. Len(text) PROVE text[q] = stream[n + q]
  BY <1>1, <1>5, <1>8 DEF SuffixInv
<1>9. ASSUME NEW q \in 1 .. d, NEW s \in 1 .. q, NEW t \in q .. Len(text),
             \A k \in s .. t : SP!PassesFilter(text[k].lead),
             \/ t + 1 - s >= CharsMin
             \/ t = Len(text) /\ ~InvalidBytesAfter
             \/ s = 1 /\ continue
      PROVE  Found(stream[n + q])
  <2>1. s \in 1 .. Len(text) /\ t \in 1 .. Len(text) /\ s <= t /\ q \in s .. t
    BY <1>2, <1>3
  <2>2. PICK k \in 1 .. Len(results) :
           q \in results[k].from .. results[k].from + results[k].nb - 1
    BY <1>1, <1>4, <1>9, <2>1, TextRuns
  <2>3. ~results[k].s_is_to_be_filtered_again
    BY <1>1, <1>3, <2>2, PlaceIsFound
  <2> QED  BY <1>1, <1>5, <2>2, <2>3, PlaceIsFound
<1>10. FoundInv'
  <2> SUFFICES ASSUME NEW i \in 1 .. n + d, NEW j \in 1 .. n + d, i <= j, IsString(i, j),
                      j + 1 - i >= CharsMin \/ (j = n + d /\ Joined'), NEW k \in i .. j
               PROVE  Found(stream[k])
    BY <1>1, <1>3, <1>5, <1>6, StringsStay DEF FoundInv
  <2>1. CASE j \in 1 .. n
    <3>1. i \in 1 .. n
      BY <2>1
    <3>2. j + 1 - i >= CharsMin \/ (j = n /\ Joined)
      <4> SUFFICES ASSUME j = n + d, Joined' PROVE j = n /\ Joined
        OBVIOUS
      <4>1. d = 0 /\ j = n /\ n \in i .. j /\ Len(last_window_leftover) = Len(text)
        BY <1>1, <1>2, <1>3, <2>1
      <4>2. Passed > 0 /\ GoesOn
        BY <1>7, <4>1, ChunksGoOn
      <4>3. SP!PassesFilter(stream[n].lead)
        BY <4>1 DEF IsString
      <4> QED  BY <1>5, <4>1, <4>2, <4>3 DEF Joined
    <3> QED  BY <1>5, <2>1, <3>1, <3>2 DEF FoundInv
  <2>2. CASE i \in 1 .. n /\ j \in n + 1 .. n + d
    <3>1. j \in Passed + 1 .. Len(stream) /\ i \in 1 .. Passed
      BY <1>2, <1>3, <1>5, <2>2
    <3>2. Passed > 0 /\ GoesOn /\ IsString(i, Passed)
      BY <3>1, OverBorder
    <3>3. n \in i .. j /\ n \in 1 .. n /\ i <= n
      BY <2>2
    <3>4. Joined
      <4>1. SP!PassesFilter(stream[n].lead)
        BY <3>3 DEF IsString
      <4> QED  BY <1>5, <3>2, <4>1 DEF Joined
    <3>5. CASE k \in i .. n
      BY <1>5, <2>2, <3>2, <3>3, <3>4, <3>5 DEF FoundInv
    <3>6. CASE k \in n + 1 .. j
      <4>1. PICK q \in 1 .. d : k = n + q
        <5>1. k - n \in 1 .. d /\ k = n + (k - n)
          BY <2>2, <3>6
        <5> QED  BY <5>1
      <4>2. PICK t \in q .. d : j = n + t
        <5>1. j - n \in q .. d /\ j = n + (j - n)
          BY <2>2, <3>6, <4>1
        <5> QED  BY <5>1
      <4>3. ASSUME NEW m \in 1 .. t PROVE SP!PassesFilter(text[m].lead)
        <5>1. m \in 1 .. Len(text) /\ n + m \in i .. j
          BY <1>2, <1>3, <2>2, <4>2
        <5> QED  BY <1>8, <5>1 DEF IsString
      <4>4. 1 \in 1 .. q /\ t \in q .. Len(text)
        BY <1>2, <1>3
      <4>5. continue
        BY <1>4, <3>4
      <4> QED  BY <1>9, <4>1, <4>3, <4>4, <4>5
    <3>7. k \in i .. n \/ k \in n + 1 .. j
      BY <2>2
    <3> QED  BY <3>5, <3>6, <3>7
  <2>3. CASE i \in n + 1 .. n + d
    <3>1. PICK s \in 1 .. d : i = n + s
      <4>1. i - n \in 1 .. d /\ i = n + (i - n)
        BY <2>3
      <4> QED  BY <4>1
    <3>2. PICK t \in s .. d : j = n + t
      <4>1. j - n \in s .. d /\ j = n + (j - n)
        BY <2>3, <3>1
      <4> QED  BY <4>1
    <3>3. PICK q \in s .. t : k = n + q
      <4>1. k - n \in s .. t /\ k = n + (k - n)
        BY <3>1, <3>2
      <4> QED  BY <4>1
    <3>4. ASSUME NEW m \in s .. t PROVE SP!PassesFilter(text[m].lead)
      <4>1. m \in 1 .. Len(text) /\ n + m \in i .. j
        BY <1>2, <1>3, <3>1, <3>2
      <4> QED  BY <1>8, <4>1 DEF IsString
    <3>5. \/ t + 1 - s >= CharsMin
          \/ t = Len(text) /\ ~InvalidBytesAfter
      <4>1. t + 1 - s = j + 1 - i
        BY <3>1, <3>2
      <4> SUFFICES ASSUME j = n + d, Joined' PROVE t = Len(text) /\ ~InvalidBytesAfter
        BY <4>1
      <4>2. t = d
        BY <3>2
      <4>3. ~InvalidBytesAfter
        BY <1>7, ChunksGoOn
      <4>4. last_window_leftover = <<>>
        <5> SUFFICES ASSUME last_window_leftover # <<>> PROVE FALSE
          OBVIOUS
        <5>1. PICK m \in s .. d : ~SP!PassesFilter(text[m].lead)
          BY <1>1, <1>3, <1>4, NothingBeforeKept
        <5> QED  BY <3>4, <4>2, <5>1
      <4>5. d = Len(text)
        BY <1>2, <1>3, <4>4
      <4> QED  BY <4>2, <4>3, <4>5
    <3>6. q \in 1 .. d /\ s \in 1 .. q /\ t \in q .. Len(text)
      BY <1>2, <1>3
    <3> QED  BY <1>9, <3>3, <3>4, <3>5, <3>6
  <2>4. j \in 1 .. n \/ (i \in 1 .. n /\ j \in n + 1 .. n + d) \/ i \in n + 1 .. n + d
    OBVIOUS
  <2> QED  BY <2>1, <2>2, <2>3, <2>4
<1>11. JoinInv'
  <2>1. step' # "split" /\ step' # "idle" /\ cut_flag' = cut_flag
    BY DEF AfterChunks, IInv, TypeOK
  <2> SUFFICES ASSUME Joined' PROVE cut_flag
    BY <2>1 DEF JoinInv, FlagSet
  <2>2. ~InvalidBytesAfter
    BY <1>7, ChunksGoOn
  <2>3. last_window_leftover = <<>>
    <3> SUFFICES ASSUME last_window_leftover # <<>> PROVE FALSE
      OBVIOUS
    <3>1. CASE d = 0
      <4>1. Len(last_window_leftover) = Len(text)
        BY <1>1, <1>2, <1>3, <3>1
      <4>2. Passed > 0 /\ GoesOn
        BY <1>7, <4>1, ChunksGoOn
      <4>3. Joined
        BY <1>5, <1>7, <3>1, <4>2 DEF Joined
      <4> QED  BY <1>1, <1>3, <1>4, <3>1, <4>3, NothingBeforeKept
    <3>2. CASE d # 0
      <4>1. d \in 1 .. d /\ d \in 1 .. Len(text)
        BY <1>2, <1>3, <3>2
      <4>2. PICK q \in d .. d : ~SP!PassesFilter(text[q].lead)
        BY <1>1, <1>3, <1>4, <4>1, NothingBeforeKept
      <4> QED  BY <1>7, <1>8, <4>1, <4>2
    <3> QED  BY <3>1, <3>2
  <2>4. d = Len(text)
    BY <1>2, <1>3, <2>3
  <2>5. text # <<>>
    <3> SUFFICES ASSUME text = <<>> PROVE FALSE
      OBVIOUS
    <3>1. /\ decoder_read = decoder_input_end /\ ~Closed
          /\ Len(stream) > 0 /\ stream[Len(stream)].end = NextPos
      BY <1>7, <2>3, ChunksGoOn
    <3>2. stream[Len(stream)].end < NextPos
      BY <1>1, <3>1 DEF EmptyCallInv
    <3>3. NextPos \in Nat
      BY PendingTypes
    <3> QED  BY <3>1, <3>2, <3>3
  <2> DEFINE e == Len(text)
  <2>6. e \in 1 .. e /\ e \in Nat /\ SP!PassesFilter(text[e].lead)
    <3>1. e \in 1 .. e
      BY <1>2, <2>5
    <3> QED  BY <1>2, <1>7, <1>8, <2>4, <3>1
  <2>7. PICK k \in 1 .. Len(results) :
           e \in results[k].from .. results[k].from + results[k].nb - 1
    <3>1. \A m \in e .. e : SP!PassesFilter(text[m].lead)
      BY <2>6
    <3>2. e <= e /\ e \in e .. e
      BY <2>6
    <3> QED  BY <1>1, <1>4, <2>2, <2>6, <3>1, <3>2, TextRuns
  <2>8. /\ results[k].from \in Nat /\ results[k].nb \in Nat
        /\ results[k].from + results[k].nb = e + 1
    <3>1. /\ results[k].from \in Nat /\ results[k].nb \in Nat
          /\ results[k].from + results[k].nb <= e + 1
      BY <1>1, ResultBounds
    <3> QED  BY <2>6, <2>7, <3>1
  <2>9. results[k].s_is_maybe_cut
    BY <1>1, <1>4, <2>2, <2>8, TextRuns
  <2>10. ~results[k].s_is_to_be_filtered_again
    BY <1>1, <2>3, <2>7, PlaceIsFound
  <2>11. k = Len(results) /\ Len(results) \in Nat /\ Len(results) # 0
    <3>1. Len(results) \in Nat
      BY ResultsOrder
    <3> SUFFICES ASSUME k # Len(results) PROVE FALSE
      BY <3>1
    <3>2. Len(results) \in 1 .. Len(results) /\ k < Len(results)
      BY <3>1
    <3>3. results[k].from + results[k].nb <= results[Len(results)].from
      BY <3>2, ResultsApart
    <3>4. /\ results[Len(results)].from \in Nat
          /\ results[Len(results)].nb \in Nat /\ results[Len(results)].nb >= 1
          /\ results[Len(results)].from + results[Len(results)].nb <= e + 1
      BY <1>1, <3>2, ResultBounds
    <3> HIDE DEF e
    <3> QED  BY <2>6, <2>8, <3>3, <3>4
  <2>12. Taken = k /\ Taken # 0
    BY <1>1, <2>11 DEF Taken
  <2> QED  BY <1>1, <2>9, <2>10, <2>12 DEF CutFlagInv
<1> QED  BY <1>10, <1>11

LEMMA NextKeepsCompleted ==
  ASSUME IInv, IInv', PendingInv, FlushInv, NearSplitInv, OverflowIsTold, LostInv,
         CompletedInv, OneBytePerChar, ~SameBlock, CharsMin \in 1 .. LineLen, [Next]_vars
  PROVE  CompletedInv'
<1>1. NoGrep' => NoGrep
  BY GrepCharStays DEF NoGrep
<1>2. Whole' => Whole /\ (Findings' = Findings \/ FindingAdded)
  BY WholeStep
<1>3. Whole' => Grown
  <2>1. CASE Findings' = Findings
    BY <2>1 DEF Grown
  <2>2. CASE FindingAdded
    BY <2>2, FindingsTypes DEF FindingAdded, Grown
  <2> QED  BY <1>2, <2>1, <2>2
<1>4. /\ SuffixInv /\ GapInv
      /\ NoGrep' /\ Whole' => TakenInv /\ FoundInv /\ JoinInv
  BY <1>1, <1>2 DEF LostInv, CompletedInv
<1>5. decoder = NoBytes /\ EmptyCallInv /\ CutFlagInv
  BY DEF CompletedInv
<1>6. CASE Decode
  <2>1. decoder' = NoBytes /\ EmptyCallInv'
    BY <1>4, <1>5, <1>6, DecodeOneByte
  <2>2. Decoding
    BY <1>6 DEF Decode, DecodeChar, CompleteChar, StartChar, ContinueChar, InputEmpty,
                Malformed, OutputFull
  <2>3. step = "decode" /\ step' \in {"decode", "decoded"} /\ cut_flag' = cut_flag
    BY <1>6, <2>2 DEF Decoding, Decode, DecodeChar, CompleteChar, StartChar, ContinueChar,
                      InputEmpty, Malformed, OutputFull, Write, EndCall
  <2>4. CutFlagInv'
    BY <2>3 DEF CutFlagInv
  <2>5. ASSUME NoGrep', Whole' PROVE FoundInv' /\ JoinInv'
    <3>1. Passed \in Nat /\ BorderStays
      BY <1>4, <1>6, LostTypes, DecodeSettled
    <3>2. FoundInv' /\ (Joined' => Joined)
      BY <1>3, <1>4, <2>5, <3>1, FoundStays
    <3> QED  BY <1>4, <2>3, <2>5, <3>2 DEF JoinInv, FlagSet
  <2> QED  BY <2>1, <2>4, <2>5 DEF CompletedInv, NoBytes
<1>7. CASE Moving
  BY <1>3, <1>4, <1>5, <1>7, MoveCompleted DEF CompletedInv, NoBytes
<1>8. CASE AfterChunks
  <2>1. /\ step = "split" /\ stream' = stream /\ NextPos' = NextPos
    BY <1>4, <1>8, ChunksSuffix DEF AfterChunks
  <2>2. /\ UNCHANGED <<decoder, decoder_result, decoder_read, decoder_input_end,
                       is_last_window, is_last_input_buffer>>
        /\ step' \in {"decode", "window"}
        /\ decoder_result = "InputEmpty" /\ step' = "decode" =>
              is_last_window /\ is_last_input_buffer
    BY <1>8 DEF AfterChunks, ss_vars, call_vars, param_vars, IInv, TypeOK
  <2>3. EmptyCallInv'
    <3> SUFFICES ASSUME step' = "decode", decoder_read = decoder_input_end, ~Closed,
                        Len(stream) > 0
                 PROVE  stream[Len(stream)].end < NextPos
      BY <2>1, <2>2 DEF EmptyCallInv, Closed
    <3>1. decoder_result # "InputEmpty"
      BY <2>2 DEF Closed
    <3>2. decoder_result # "OutputFull"
      <4>1. decoder_read \in Nat
        BY DEF IInv, TypeOK
      <4> QED  BY <2>1, <4>1 DEF IInv, WindowInv
    <3>3. decoder_result = "Malformed"
      BY <3>1, <3>2 DEF IInv, TypeOK
    <3> QED  BY <1>4, <2>1, <3>3 DEF GapInv
  <2>4. step' # "split" /\ ~TakeChunk
    BY <1>8, <2>2 DEF AfterChunks, TakeChunk
  <2>5. CutFlagInv'
    BY <2>4 DEF CutFlagInv
  <2>6. ASSUME NoGrep', Whole' PROVE FoundInv' /\ JoinInv'
    <3>1. Findings' = Findings /\ NoGrep
      BY <1>1, <1>2, <2>4, <2>6 DEF FindingAdded
    <3>2. decoder_result # "OutputFull"
      BY <1>8, <2>6 DEF AfterChunks, Whole
    <3> QED  BY <1>4, <1>5, <1>8, <2>6, <3>1, <3>2, ChunksCompleted
  <2> QED  BY <1>5, <2>2, <2>3, <2>5, <2>6 DEF CompletedInv, NoBytes
<1> QED  BY <1>6, <1>7, <1>8 DEF Next, ScanStep, Stopped, Moving

LEMMA CompletedInvariant ==
  ASSUME OneBytePerChar, ~SameBlock, CharsMin \in 1 .. LineLen
  PROVE  Spec => []CompletedInv
<1>1. Init => CompletedInv
  <2> SUFFICES ASSUME Init PROVE CompletedInv
    OBVIOUS
  <2>1. /\ step = "idle" /\ decoder = NoBytes /\ last_scan_run_leftover = <<>>
        /\ stream = <<>>
    BY DEF Init
  <2>2. Pending = <<>> /\ Len(stream) = 0 /\ Passed = 0
    BY <2>1 DEF Pending, Passed
  <2> QED  BY <2>1, <2>2
           DEF CompletedInv, EmptyCallInv, CutFlagInv, FoundInv, JoinInv, Joined
<1>2. /\ StreamInv /\ StreamInv' /\ FlushInv /\ NearInv /\ ContInv /\ LostInv
      /\ CompletedInv /\ [Next]_vars
      => CompletedInv'
  BY NextKeepsCompleted DEF StreamInv, NearInv, ContInv
<1> QED  BY <1>1, <1>2, StreamInvariant, FlushInvariant, NearInvariant,
            ContInvariant, LostInvariant, PTL DEF Spec

\* In an encoding with one byte per character, all of a string that has MIN characters
\* is printed or kept, however long it is and however many windows and slices it spans
\* -- unless a collection was marked as incomplete.
THEOREM CutStringsAreCompleted ==
  ASSUME OneBytePerChar, ~SameBlock, CharsMin \in 1 .. LineLen
  PROVE  Spec => []CutStringIsCompleted
<1>1. StreamInv /\ ContInv /\ LostInv /\ CompletedInv => CutStringIsCompleted
  <2> SUFFICES ASSUME StreamInv, ContInv, LostInv, CompletedInv,
                      step = "idle", NoGrep, ~incomplete,
                      NEW i \in 1 .. Len(stream), NEW j \in 1 .. Len(stream),
                      IsString(i, j), j + 1 - i >= CharsMin, NEW k \in i .. j
               PROVE  Kept(stream[k])
    BY DEF CutStringIsCompleted
  <2>1. Findings = printed
    <3>1. v = <<>>
      BY DEF StreamInv, IInv, CollectionInv
    <3>2. printed \o <<>> = printed
      BY FindingsTypes DEF StreamInv
    <3> QED  BY <3>1, <3>2 DEF Findings
  <2>2. FoundInv /\ SuffixInv
    BY DEF CompletedInv, LostInv, ContInv, OverflowIsTold, Whole
  <2>3. /\ Passed \in Nat /\ Len(stream) \in Nat /\ Passed + Len(Pending) = Len(stream)
        /\ Pending = last_scan_run_leftover
    BY <2>2, LostTypes DEF StreamInv, Pending
  <2>4. CASE k > Passed
    <3>1. PICK d \in 1 .. Len(Pending) : Passed + d = k
      <4>1. k - Passed \in 1 .. Len(Pending) /\ Passed + (k - Passed) = k
        BY <2>3, <2>4
      <4> QED  BY <4>1
    <3>2. Pending[d] = stream[k]
      BY <2>2, <3>1 DEF SuffixInv
    <3> QED  BY <2>3, <3>1, <3>2 DEF Kept, In
  <2>5. CASE k <= Passed
    <3>1. i \in 1 .. Passed /\ i <= j
      BY <2>3, <2>5
    <3>2. Found(stream[k])
      <4>1. CASE j <= Passed
        <5>1. j \in 1 .. Passed
          BY <2>3, <4>1
        <5> QED  BY <2>2, <3>1, <5>1 DEF FoundInv
      <4>2. CASE j > Passed
        <5>1. j \in Passed + 1 .. Len(stream)
          BY <2>3, <4>2
        <5>2. Passed > 0 /\ GoesOn /\ IsString(i, Passed)
          BY <2>2, <3>1, <5>1, OverBorder DEF StreamInv
        <5>3. Passed \in i .. j /\ Passed \in 1 .. Passed /\ i <= Passed /\ k \in i .. Passed
          BY <2>3, <2>5, <3>1, <4>2
        <5>4. Joined
          BY <5>2, <5>3 DEF Joined, IsString
        <5> QED  BY <2>2, <3>1, <5>2, <5>3, <5>4 DEF FoundInv
      <4> QED  BY <2>3, <4>1, <4>2
    <3> QED  BY <2>1, <3>2 DEF Found, Kept
  <2> QED  BY <2>3, <2>4, <2>5
<1> QED  BY <1>1, StreamInvariant, ContInvariant, LostInvariant, CompletedInvariant, PTL

\* In an encoding with one byte per character, what is kept for the next slice is the
\* beginning of a string, never the tail of one that was printed in part: a tail
\* finds the cut flag set and is printed, whatever length it has.
THEOREM KeptStringsAreBeginnings ==
  ASSUME OneBytePerChar, ~SameBlock, CharsMin \in 1 .. LineLen
  PROVE  Spec => []KeptStringIsABeginning
<1>1. StreamInv /\ ContInv /\ LostInv /\ CompletedInv /\ KeptOrCutInv
      => KeptStringIsABeginning
  <2> SUFFICES ASSUME StreamInv, ContInv, LostInv, CompletedInv, KeptOrCutInv,
                      step = "idle", NoGrep, ~incomplete, last_scan_run_leftover # <<>>
               PROVE  StartsString(Len(stream) + 1 - Len(last_scan_run_leftover))
    BY DEF KeptStringIsABeginning
  <2>1. JoinInv /\ SuffixInv
    BY DEF CompletedInv, LostInv, ContInv, OverflowIsTold, Whole
  <2>2. /\ Passed \in Nat /\ Len(stream) \in Nat /\ Passed + Len(Pending) = Len(stream)
        /\ Pending = last_scan_run_leftover /\ Len(Pending) \in Nat
        /\ Pending # <<>> /\ Passed # Len(stream)
    BY <2>1, LostTypes DEF StreamInv, Pending
  <2>3. ~Joined
    BY <2>1 DEF JoinInv, FlagSet, KeptOrCutInv
  <2>4. Pending[1] = stream[Passed + 1]
    <3>1. 1 \in 1 .. Len(Pending)
      BY <2>2
    <3> QED  BY <2>1, <3>1 DEF SuffixInv
  <2>5. Len(stream) + 1 - Len(last_scan_run_leftover) = Passed + 1
    BY <2>2
  <2>6. (Passed + 1) - 1 = Passed /\ (Passed = 0 \/ Passed > 0)
    BY <2>2
  <2>7. StartsString(Passed + 1)
    BY <2>2, <2>3, <2>4, <2>6 DEF Joined, GoesOn, StartsString
  <2> QED  BY <2>5, <2>7
<1> QED  BY <1>1, StreamInvariant, ContInvariant, LostInvariant, CompletedInvariant,
            KeptOrCutInvariant, PTL

=============================================================================
