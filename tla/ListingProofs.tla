----------------------------- MODULE ListingProofs -----------------------------
(***************************************************************************)
(* Proofs about Listing, for every number of scanners its u8 can number    *)
(* and every number of inputs the Slicer's u8 can number.                  *)
(*                                                                         *)
(* Printing reads what the Slicer has left behind: all that is true of the *)
(* Slicer on its own is true of it here, and the labels of a line are those*)
(* of the slice that is still in the buffer (LineInv), whose bytes are the *)
(* last ones that were delivered (WhereInv).                               *)
(***************************************************************************)
EXTENDS Listing, SlicerProofs

\* Whether print() panics on a finding of scanner m in the current slice.
Panics(m) ==
    \/ FileIsShown /\ Overflows(item.id, 64)
    \/ ScannerIsShown /\ Overflows(m, 97)

\* The line printed last is one of the current slice.
LineInv ==
    \/ line = NoLine
    \/ /\ item.kind = "some" /\ item.len > 0
       /\ \E m \in Finders, start \in Starts :
            line = IF Panics(m) THEN PanicLine(m)
                   ELSE Line(IF FileIsShown THEN <<FileLabel(item.id)>> ELSE <<>>,
                             IF ScannerIsShown THEN <<ScannerLabel(m)>> ELSE <<>>,
                             m, start)

\* No byte delivered so far is of an input that is still to be opened, and the
\* bytes of the current slice are the last ones, and are of the current input.
WhereInv ==
    /\ \A p \in 1 .. Len(delivered) : delivered[p][1] <= current_input_idx
    /\ item.kind = "some" =>
          \A p \in 1 .. Len(delivered) :
              p + item.len > Len(delivered) => delivered[p][1] = current_input_idx

LInv == IInv /\ LineInv /\ WhereInv

-----------------------------------------------------------------------------
(* LInv is an inductive invariant.                                         *)

\* Listing does with the Slicer what the Slicer's specification allows.
LEMMA StepIsASlicerStep == [ListingNext]_vars => [Next]_slicer_vars
BY DEF ListingNext, PrintFinding, Read, Stopped, vars, Next, slicer_vars

LEMMA LineStep ==
  ASSUME LineInv, [ListingNext]_vars
  PROVE  LineInv'
<1>1. CASE PrintFinding
  <2>1. /\ item.kind = "some" /\ item.len > 0
        /\ UNCHANGED <<item, delivered, build_vars>>
    BY <1>1 DEF PrintFinding, slicer_vars
  <2>2. PICK m \in Finders, start \in Starts :
          line' = IF Panics(m) THEN PanicLine(m)
                  ELSE Line(IF FileIsShown THEN <<FileLabel(item.id)>> ELSE <<>>,
                            IF ScannerIsShown THEN <<ScannerLabel(m)>> ELSE <<>>, m, start)
    BY <1>1 DEF PrintFinding, Panics
  <2>3. /\ Panics(m)' = Panics(m)
        /\ FileIsShown' = FileIsShown /\ ScannerIsShown' = ScannerIsShown
        /\ Starts' = Starts
    BY <2>1 DEF Panics, FileIsShown, ScannerIsShown, Overflows, build_vars, Starts
  <2> QED  BY <2>1, <2>2, <2>3 DEF LineInv, FileLabel, ScannerLabel, AddU8
<1>2. CASE Read
  BY <1>2 DEF Read, LineInv, NoLine
<1>3. CASE UNCHANGED vars
  <2>1. UNCHANGED <<line, item, delivered, build_vars>>
    BY <1>3 DEF vars, slicer_vars
  <2>2. /\ \A m \in Finders : Panics(m)' = Panics(m)
        /\ FileIsShown' = FileIsShown /\ ScannerIsShown' = ScannerIsShown
        /\ Starts' = Starts
    BY <2>1 DEF Panics, FileIsShown, ScannerIsShown, Overflows, build_vars, Starts
  <2>3. CASE line = NoLine
    BY <2>1, <2>3 DEF LineInv, NoLine
  <2>4. CASE line # NoLine
    <3>1. PICK m \in Finders, start \in Starts :
            line = IF Panics(m) THEN PanicLine(m)
                   ELSE Line(IF FileIsShown THEN <<FileLabel(item.id)>> ELSE <<>>,
                             IF ScannerIsShown THEN <<ScannerLabel(m)>> ELSE <<>>, m, start)
      BY <2>4 DEF LineInv
    <3>2. item.kind = "some" /\ item.len > 0
      BY <2>4 DEF LineInv
    <3> QED  BY <2>1, <2>2, <3>1, <3>2 DEF LineInv, FileLabel, ScannerLabel, AddU8
  <2> QED  BY <2>3, <2>4
<1> QED  BY <1>1, <1>2, <1>3 DEF ListingNext, Stopped

\* A read() appends the bytes of its slice; the switch to the next input leaves an
\* empty slice behind.
LEMMA WhereStep ==
  ASSUME IInv, WhereInv, [Next]_slicer_vars
  PROVE  WhereInv'
<1>0. /\ current_input_idx \in Nat /\ Len(delivered) \in Nat
      /\ \A p \in 1 .. Len(delivered) : delivered[p] \in Sources \X Nat
      /\ \A i \in Sources : i \in Nat
  BY SourcesAreNat DEF IInv, TypeOK, Byte
<1>1. CASE ReadSome
  <2>1. PICK n \in 1 .. BufLen : Reads(n)
    BY <1>1, ReadSomeReads
  <2>2. /\ n \in Nat /\ Len(delivered') = Len(delivered) + n
        /\ \A p \in 1 .. Len(delivered) : delivered'[p] = delivered[p]
        /\ \A j \in 1 .. n : delivered'[Len(delivered) + j][1] = current_input_idx
    <3>1. /\ n \in Nat /\ Len(delivered') = Len(delivered) + n
          /\ \A p \in 1 .. Len(delivered) : delivered'[p] = delivered[p]
          /\ \A j \in 1 .. n :
               delivered'[Len(delivered) + j] = <<current_input_idx, ReadSoFar + j>>
      BY <2>1, ReadsAppends DEF IInv
    <3>2. ASSUME NEW j \in 1 .. n
          PROVE  delivered'[Len(delivered) + j][1] = current_input_idx
      <4>1. delivered'[Len(delivered) + j] = <<current_input_idx, ReadSoFar + j>>
        BY <3>1
      <4> QED  BY <4>1
    <3> QED  BY <3>1, <3>2
  <2>3. current_input_idx' = current_input_idx /\ item'.len = n
    BY <2>1 DEF Reads, Some
  <2>4. ASSUME NEW p \in 1 .. Len(delivered'), p > Len(delivered)
        PROVE  delivered'[p][1] = current_input_idx
    <3>1. PICK j \in 1 .. n : p = Len(delivered) + j
      <4>1. p - Len(delivered) \in 1 .. n /\ p = Len(delivered) + (p - Len(delivered))
        BY <1>0, <2>2, <2>4
      <4> QED  BY <4>1
    <3> QED  BY <2>2, <3>1
  <2>5. \A p \in 1 .. Len(delivered') : delivered'[p][1] <= current_input_idx
    <3> TAKE p \in 1 .. Len(delivered')
    <3>1. CASE p > Len(delivered)
      BY <1>0, <2>4, <3>1
    <3>2. CASE ~(p > Len(delivered))
      <4>1. p \in 1 .. Len(delivered)
        BY <1>0, <2>2, <3>2
      <4> QED  BY <2>2, <4>1 DEF WhereInv
    <3> QED  BY <3>1, <3>2
  <2>6. ASSUME NEW p \in 1 .. Len(delivered'), p + n > Len(delivered')
        PROVE  p > Len(delivered)
    BY <1>0, <2>2, <2>6
  <2> QED  BY <2>3, <2>4, <2>5, <2>6 DEF WhereInv
<1>2. CASE SwitchInput
  <2>1. /\ current_input_idx' = current_input_idx + 1
        /\ delivered' = delivered /\ item'.len = 0
    BY <1>2 DEF SwitchInput, Some
  <2>2. \A p \in 1 .. Len(delivered') : delivered'[p][1] <= current_input_idx'
    <3> TAKE p \in 1 .. Len(delivered')
    <3>1. delivered[p][1] <= current_input_idx /\ delivered[p][1] \in Nat
      BY <1>0, <2>1 DEF WhereInv
    <3> QED  BY <1>0, <2>1, <3>1
  <2>3. \A p \in 1 .. Len(delivered') : ~(p + 0 > Len(delivered'))
    BY <1>0, <2>1
  <2> QED  BY <2>1, <2>2, <2>3 DEF WhereInv
<1>3. CASE EndInput \/ ReadError
  <2>1. UNCHANGED <<current_input_idx, delivered>> /\ item'.kind # "some"
    BY <1>3 DEF EndInput, ReadError, None, Panic
  <2> QED  BY <2>1 DEF WhereInv
<1>4. CASE UNCHANGED slicer_vars
  BY <1>4 DEF slicer_vars, WhereInv
<1> QED  BY <1>1, <1>2, <1>3, <1>4 DEF Next, NextItem

LEMMA ListingInvariant == ListingSpec => []LInv
<1>1. ListingInit => LInv
  <2> SUFFICES ASSUME ListingInit  PROVE LInv
    OBVIOUS
  <2>1. IInv /\ LineInv
    BY InitIInv DEF ListingInit, LineInv
  <2>2. Len(delivered) = 0 /\ item.kind # "some"
    BY DEF ListingInit, Init, NotCalled
  <2> QED  BY <2>1, <2>2 DEF LInv, WhereInv
<1>2. LInv /\ [ListingNext]_vars => LInv'
  BY NextKeepsIInv, StepIsASlicerStep, LineStep, WhereStep DEF LInv
<1> QED  BY <1>1, <1>2, PTL DEF ListingSpec

-----------------------------------------------------------------------------
(* The arithmetic of print() and help().                                   *)

\* help() prints one byte for the numbers of ASCII and two for the others.
LEMMA Utf8OfAByte ==
  ASSUME NEW c \in Nat, NEW x, Utf8(c) = <<x>>
  PROVE  c % 256 < 128 /\ x = c % 256
BY DEF Utf8

\* The letter of an input leads to this input in the legend only.
LEMMA FileLabelIsInjective ==
  ASSUME NEW id \in 1 .. 255, NEW n \in 0 .. 254,
         InputLegend(n) = <<FileLabel(id)>>
  PROVE  n + 1 = id
<1>1. FileLabel(id) = (n + 65) % 256
  BY Utf8OfAByte DEF InputLegend
<1>2. (n + 65) % 256 = (id + 64) % 256
  BY <1>1 DEF FileLabel, AddU8
<1>3. n + 65 = id + 64
  <2>1. CASE n + 65 < 256 /\ id + 64 < 256
    BY <1>2, <2>1
  <2>2. CASE n + 65 < 256 /\ id + 64 >= 256
    <3>1. (n + 65) % 256 = n + 65 /\ (id + 64) % 256 = id - 192
      BY <2>2
    <3> QED  BY <1>2, <3>1
  <2>3. CASE n + 65 >= 256 /\ id + 64 < 256
    <3>1. (n + 65) % 256 = n - 191 /\ (id + 64) % 256 = id + 64
      BY <2>3
    <3> QED  BY <1>2, <3>1
  <2>4. CASE n + 65 >= 256 /\ id + 64 >= 256
    <3>1. (n + 65) % 256 = n - 191 /\ (id + 64) % 256 = id - 192
      BY <2>4
    <3> QED  BY <1>2, <3>1
  <2> QED  BY <2>1, <2>2, <2>3, <2>4
<1> QED  BY <1>3

LEMMA FileLabelIsInTheLegend ==
  ASSUME NEW id \in 1 .. 63
  PROVE  InputLegend(id - 1) = <<FileLabel(id)>>
<1>1. (id - 1) + 65 = id + 64 /\ (id + 64) % 256 = id + 64 /\ id + 64 < 128
  OBVIOUS
<1> QED  BY <1>1 DEF InputLegend, FileLabel, AddU8, Utf8

LEMMA ScannerLabelIsInjective ==
  ASSUME NEW m \in 0 .. 255, NEW n \in 0 .. 255,
         EncodingLegend(n) = <<ScannerLabel(m)>>
  PROVE  n = m
<1>1. ScannerLabel(m) = (n + 97) % 256
  BY Utf8OfAByte DEF EncodingLegend
<1>2. (n + 97) % 256 = (m + 97) % 256
  BY <1>1 DEF ScannerLabel, AddU8
<1> QED  BY <1>2

LEMMA ScannerLabelIsInTheLegend ==
  ASSUME NEW m \in 0 .. 30
  PROVE  EncodingLegend(m) = <<ScannerLabel(m)>>
<1>1. (m + 97) % 256 = m + 97 /\ m + 97 < 128
  OBVIOUS
<1> QED  BY <1>1 DEF EncodingLegend, ScannerLabel, AddU8, Utf8

\* Of a slice with bytes, the label is the input they come from, which is the
\* current one.
LEMMA LabelIsTheSlicesInput ==
  ASSUME IInv, NInputs < 256, item.kind = "some", item.len > 0
  PROVE  /\ item.id = SliceInput /\ current_input_idx = SliceInput
         /\ NInputs > 1 => SliceInput \in 1 .. NInputs
<1>1. item.len \in Nat /\ current_input_idx \in Sources
  BY BufLenIsPositive DEF IInv, TypeOK, None, NotCalled, Panic
<1>2. 1 \in 1 .. item.len
  BY <1>1
<1>3. /\ input_buffer[1][1] = item.id
      /\ input_buffer[1][1] = current_input_idx
  BY <1>2, IInvLabels DEF IInv, LabelTellsSource, LabelInv
<1>4. NInputs > 1 => current_input_idx \in 1 .. NInputs
  BY <1>1, SourcesAreNat DEF Sources
<1> QED  BY <1>3, <1>4 DEF SliceInput

-----------------------------------------------------------------------------

LEMMA LInvNamesTheSlice ==
  ASSUME LInv, NInputs < 256
  PROVE  LegendNamesTheSlice
<1>0. CASE line = NoLine
  BY <1>0 DEF LegendNamesTheSlice, NoLine
<1>1. CASE line # NoLine
  <2>1. item.kind = "some" /\ item.len > 0
    BY <1>1 DEF LInv, LineInv
  <2>2. /\ item.id = SliceInput /\ current_input_idx = SliceInput
        /\ FileIsShown => SliceInput \in 1 .. NInputs
    BY <2>1, LabelIsTheSlicesInput DEF LInv, FileIsShown
  <2>3. PICK m \in Finders, start \in Starts :
          line = IF Panics(m) THEN PanicLine(m)
                 ELSE Line(IF FileIsShown THEN <<FileLabel(SliceInput)>> ELSE <<>>,
                           IF ScannerIsShown THEN <<ScannerLabel(m)>> ELSE <<>>, m, start)
    BY <1>1, <2>2 DEF LInv, LineInv
  <2>4. m \in 0 .. NMissions - 1 /\ NMissions \in 1 .. 256 /\ NInputs \in Nat
    BY ListingAssumption, SourcesAreNat
  <2>5. CASE Panics(m)
    <3>1. line.kind = "panic" /\ line.mission_id = m
      BY <2>3, <2>5 DEF PanicLine
    <3>2. SliceInput >= 192 \/ m >= 159
      BY <2>2, <2>4, <2>5 DEF Panics, Overflows
    <3> QED  BY <3>1, <3>2 DEF LegendNamesTheSlice
  <2>6. CASE ~Panics(m)
    <3>1. /\ line.kind = "line" /\ line.mission_id = m /\ line.start = start
          /\ FileIsShown => line.file = <<FileLabel(SliceInput)>>
          /\ ScannerIsShown => line.scanner = <<ScannerLabel(m)>>
      BY <2>3, <2>6 DEF Line
    <3>2. ASSUME FileIsShown
          PROVE  /\ \A n \in 0 .. NInputs - 1 : InputLegend(n) = line.file => n + 1 = SliceInput
                 /\ SliceInput <= 63 => InputLegend(SliceInput - 1) = line.file
      <4>1. SliceInput \in 1 .. 255 /\ line.file = <<FileLabel(SliceInput)>>
        BY <2>2, <2>4, <3>1, <3>2
      <4>2. \A n \in 0 .. NInputs - 1 : n \in 0 .. 254
        BY <2>4
      <4>3. \A n \in 0 .. NInputs - 1 : InputLegend(n) = line.file => n + 1 = SliceInput
        BY <4>1, <4>2, FileLabelIsInjective
      <4>4. SliceInput <= 63 => InputLegend(SliceInput - 1) = line.file
        <5>1. SliceInput <= 63 => SliceInput \in 1 .. 63
          BY <4>1
        <5> QED  BY <4>1, <5>1, FileLabelIsInTheLegend
      <4> QED  BY <4>3, <4>4
    <3>3. ASSUME ScannerIsShown
          PROVE  /\ \A n \in 0 .. NMissions - 1 :
                       EncodingLegend(n) = line.scanner => n = line.mission_id
                 /\ line.mission_id < 31 =>
                       EncodingLegend(line.mission_id) = line.scanner
      <4>1. m \in 0 .. 255 /\ line.scanner = <<ScannerLabel(m)>>
        BY <2>4, <3>1, <3>3
      <4>2. \A n \in 0 .. NMissions - 1 : n \in 0 .. 255
        BY <2>4
      <4>3. \A n \in 0 .. NMissions - 1 : EncodingLegend(n) = line.scanner => n = m
        BY <4>1, <4>2, ScannerLabelIsInjective
      <4>4. m < 31 => EncodingLegend(m) = line.scanner
        <5>1. m < 31 => m \in 0 .. 30
          BY <4>1
        <5> QED  BY <4>1, <5>1, ScannerLabelIsInTheLegend
      <4> QED  BY <3>1, <4>3, <4>4
    <3>4. /\ Origin <= SliceInput
          /\ line.start + item.len > Len(delivered) => Origin = SliceInput
      BY <2>1, <2>2, <3>1 DEF LInv, WhereInv, Starts, Origin
    <3> QED  BY <3>1, <3>2, <3>3, <3>4 DEF LegendNamesTheSlice
  <2> QED  BY <2>5, <2>6
<1> QED  BY <1>0, <1>1

\* The letters in front of a printed string are, in the legend that --debug-option
\* prints, those of the scanner it comes from and of the input of the slice it was
\* returned with, up to the point where the legend leaves ASCII; it begins in this
\* input, or, if it was kept, in one before it, and never in one behind it; and
\* print() does not panic before a u8 overflows.  (Finding::print in finding.rs,
\* help() in help.rs.)
THEOREM LegendLeadsToTheSlice ==
  ASSUME NInputs < 256
  PROVE  ListingSpec => []LegendNamesTheSlice
<1>1. LInv => LegendNamesTheSlice
  BY LInvNamesTheSlice
<1> QED  BY <1>1, ListingInvariant, PTL

\* With findings printed between the slices, the Slicer keeps its promises: the
\* inputs are delivered without a gap, to their end, under their labels.
THEOREM SlicesUnderListing ==
  ASSUME NInputs < 256
  PROVE  ListingSpec => [](GaplessDelivery /\ CompleteAtEnd /\ LabelTellsSource)
<1>1. LInv => GaplessDelivery /\ CompleteAtEnd /\ LabelTellsSource
  BY IInvCompletes, IInvLabels DEF LInv, IInv
<1> QED  BY <1>1, ListingInvariant, PTL

=============================================================================
