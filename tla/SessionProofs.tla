---------------------------- MODULE SessionProofs ----------------------------
(***************************************************************************)
(* Proofs about one scanner at work on all inputs, for any number of       *)
(* inputs of any length, any of which may be missing or fail, and every    *)
(* behaviour of the modelled decoder.                                      *)
(*                                                                         *)
(* A step of the loop is a step of the Slicer, of the scanner, or of both: *)
(* what is proved of each of them alone holds here.  What neither of them  *)
(* knows is that the scanner's count of consumed bytes and the Slicer's    *)
(* bytes and labels run in step (InStepInv, SliceInv); with it the label of*)
(* every finding is the file that the byte at its position is from.        *)
(***************************************************************************)
EXTENDS Session, ScannerProofs

\* The proofs about the Slicer.
Sl == INSTANCE SlicerProofs

\* The scanner has counted what the Slicer has delivered, but for the slice that it
\* is working on.
InStepInv ==
    /\ step = "idle" => Len(delivered) = consumed_bytes
    /\ step # "idle" => /\ item.kind = "some"
                        /\ slice_len = item.len
                        /\ Len(delivered) = consumed_bytes + slice_len

\* The bytes of that slice are of the file that its label names.
SliceInv ==
    step # "idle" =>
        \A b \in 1 .. Len(delivered) :
            consumed_bytes < b => delivered[b][1] = input_file_id

\* The findings that are not yet returned have the label of the slice, the others
\* that of the byte at their position.
LabelsInv ==
    /\ \A i \in 1 .. Len(v) : v[i].input_file_id = input_file_id
    /\ \A i \in 1 .. Len(printed) :
          /\ printed[i].position < Len(delivered)
          /\ OriginOf(printed[i].position) = printed[i].input_file_id

SessionInv == InStepInv /\ SliceInv /\ LabelsInv

-----------------------------------------------------------------------------
(* The parts.                                                              *)

LEMMA SlicerGiven == Sl!SlicerAssumption
BY SessionAssumption DEF Sl!SlicerAssumption, Sl!InputsOK, S!InputsOK, Sl!Sources, S!Sources

LEMMA SameSlicer ==
  /\ S!Init => Sl!Init
  /\ S!ReadSome => Sl!ReadSome
  /\ S!SwitchInput => Sl!SwitchInput
  /\ S!EndInput => Sl!EndInput
  /\ S!ReadError => Sl!ReadError
<1> USE DEF Sl!IsLastInput, S!IsLastInput, Sl!OpenReader, S!OpenReader,
            Sl!FirstIdx, S!FirstIdx, Sl!Some, S!Some, Sl!FileId, S!FileId,
            Sl!ByteAt, S!ByteAt, Sl!None, S!None, Sl!Panic, S!Panic,
            Sl!NotCalled, S!NotCalled, Sl!NoByte, S!NoByte
<1>1. S!Init => Sl!Init
  BY DEF Sl!Init, S!Init
<1>2. S!ReadSome => Sl!ReadSome
  BY DEF Sl!ReadSome, S!ReadSome
<1>3. S!SwitchInput => Sl!SwitchInput
  BY DEF Sl!SwitchInput, S!SwitchInput
<1>4. S!EndInput => Sl!EndInput
  BY DEF Sl!EndInput, S!EndInput
<1>5. S!ReadError => Sl!ReadError
  BY DEF Sl!ReadError, S!ReadError
<1> QED  BY <1>1, <1>2, <1>3, <1>4, <1>5

LEMMA StepIsSlicerStep == [SessionNext]_session_vars => [Sl!Next]_(Sl!slicer_vars)
<1> SUFFICES ASSUME [SessionNext]_session_vars PROVE [Sl!Next]_(Sl!slicer_vars)
  OBVIOUS
<1> USE DEF Sl!slicer_vars, slicer_vars, InputEnded, S!Panic, Sl!Panic, S!None, Sl!None
<1>1. CASE Feed
  BY <1>1, SameSlicer DEF Feed, Sl!Next, Sl!NextItem
<1>2. CASE EndOfInput
  BY <1>2, SameSlicer DEF EndOfInput, Sl!Next, Sl!NextItem
<1>3. CASE Scan
  BY <1>3 DEF Scan
<1>4. CASE Ended \/ UNCHANGED session_vars
  BY <1>4 DEF Ended, session_vars
<1> QED  BY <1>1, <1>2, <1>3, <1>4 DEF SessionNext

LEMMA StepIsScannerStep == [SessionNext]_session_vars => [Next]_vars
BY DEF SessionNext, Feed, EndOfInput, Scan, Ended, session_vars, Next

\* The loop runs the Slicer and the scanner as each of them is specified: what is
\* true of them alone is true here.
THEOREM SessionRunsItsParts == SessionSpec => Sl!Spec /\ Spec
<1>1. SessionInit => Sl!Init /\ Init
  BY SameSlicer DEF SessionInit
<1> QED  BY <1>1, StepIsSlicerStep, StepIsScannerStep, PTL
         DEF SessionSpec, Spec, Sl!Spec

LEMMA PartsInvariant == SessionSpec => [](Sl!IInv /\ IInv)
BY SessionRunsItsParts, SlicerGiven, Sl!InductiveInvariant, InductiveInvariant, PTL

LEMMA FewInputs ==
  ASSUME NInputs < 256, Sl!IInv
  PROVE  /\ Sl!FileId(current_input_idx) = current_input_idx
         /\ delivered \in Seq(Sl!Byte) /\ Len(delivered) \in Nat
<1>1. current_input_idx \in 0 .. 255
  BY SlicerGiven, Sl!SourcesAreNat DEF Sl!IInv, Sl!TypeOK, Sl!Sources
<1>2. delivered \in Seq(Sl!Byte)
  BY DEF Sl!IInv, Sl!TypeOK
<1>3. Len(delivered) \in Nat
  BY <1>2
<1>4. Sl!FileId(current_input_idx) = current_input_idx
  BY <1>1 DEF Sl!FileId
<1> QED  BY <1>2, <1>3, <1>4

LEMMA PositionsAreNat ==
  ASSUME NEW s \in Seq(FindingType), NEW i \in 1 .. Len(s)
  PROVE  s[i].position \in Nat
<1>1. s[i] \in FindingType
  BY ElementOfSeq
<1> QED  BY <1>1 DEF FindingType

-----------------------------------------------------------------------------
(* The steps.                                                              *)

LEMMA InitSessionInv == SessionInit => SessionInv
BY DEF SessionInit, Init, S!Init, SessionInv, InStepInv, SliceInv, LabelsInv

\* A new slice is behind all bytes delivered before, and under the label of its file.
LEMMA FeedKeeps ==
  ASSUME NInputs < 256, Sl!IInv, Sl!IInv', IInv, SessionInv, Feed
  PROVE  SessionInv'
<1>1. /\ step = "idle" /\ step' # "idle"
      /\ slice_len' = item'.len /\ input_file_id' = item'.id
      /\ UNCHANGED <<consumed_bytes, v, printed>>
  BY DEF Feed, Begin, returned_vars
<1>2. v = <<>>
  BY <1>1 DEF IInv, CollectionInv
<1>3. /\ Len(delivered) \in Nat /\ Len(delivered) = consumed_bytes
      /\ consumed_bytes \in Nat
  BY <1>1, FewInputs DEF SessionInv, InStepInv
<1>4. /\ item'.kind = "some" /\ item'.len \in Nat
      /\ Len(delivered') = Len(delivered) + item'.len
      /\ \A b \in 1 .. Len(delivered) : delivered'[b] = delivered[b]
      /\ \A j \in 1 .. item'.len :
            delivered'[Len(delivered) + j][1] = input_file_id'
  <2>1. CASE S!ReadSome
    <3>1. PICK n \in 1 .. BufLen : Sl!Reads(n)
      BY <2>1, SameSlicer, SlicerGiven, Sl!ReadSomeReads
    <3>2. /\ n \in Nat \ {0} /\ n <= BufLen
          /\ Len(delivered') = Len(delivered) + n
          /\ \A b \in 1 .. Len(delivered) : delivered'[b] = delivered[b]
          /\ \A j \in 1 .. n : delivered'[Len(delivered) + j]
                                 = <<current_input_idx, Sl!ReadSoFar + j>>
      BY <3>1, SlicerGiven, Sl!ReadsAppends DEF Sl!IInv
    <3>3. item' = Sl!Some(n, Sl!FileId(current_input_idx), FALSE)
      BY <3>1 DEF Sl!Reads
    <3>4. item'.kind = "some" /\ item'.len = n /\ item'.id = current_input_idx
      BY <3>3, FewInputs DEF Sl!Some
    <3>5. \A j \in 1 .. n : delivered'[Len(delivered) + j][1] = input_file_id'
      BY <1>1, <3>2, <3>4
    <3> QED  BY <3>2, <3>4, <3>5
  <2>2. CASE S!SwitchInput
    <3>1. item'.kind = "some" /\ item'.len = 0 /\ delivered' = delivered
      BY <2>2 DEF S!SwitchInput, S!Some
    <3> QED  BY <1>3, <3>1
  <2> QED  BY <2>1, <2>2 DEF Feed
<1>5. InStepInv'
  BY <1>1, <1>3, <1>4 DEF InStepInv
<1>6. SliceInv'
  <2> SUFFICES ASSUME NEW b \in 1 .. Len(delivered'), consumed_bytes < b
               PROVE  delivered'[b][1] = input_file_id'
    BY <1>1 DEF SliceInv
  <2> DEFINE j == b - Len(delivered)
  <2>1. j \in 1 .. item'.len /\ Len(delivered) + j = b
    BY <1>3, <1>4
  <2> QED  BY <1>4, <2>1
<1>7. LabelsInv'
  <2>1. \A i \in 1 .. Len(v') : FALSE
    BY <1>1, <1>2
  <2> SUFFICES ASSUME NEW i \in 1 .. Len(printed)
               PROVE  /\ printed[i].position < Len(delivered')
                      /\ delivered'[printed[i].position + 1][1] = printed[i].input_file_id
    BY <1>1, <2>1 DEF LabelsInv, OriginOf
  <2>2. /\ printed[i].position < Len(delivered)
        /\ delivered[printed[i].position + 1][1] = printed[i].input_file_id
    BY DEF SessionInv, LabelsInv, OriginOf
  <2>3. printed[i].position \in Nat
    BY PositionsAreNat DEF IInv, TypeOK
  <2>4. printed[i].position + 1 \in 1 .. Len(delivered)
    BY <1>3, <2>2, <2>3
  <2> QED  BY <1>3, <1>4, <2>2, <2>3, <2>4
<1> QED  BY <1>5, <1>6, <1>7 DEF SessionInv

\* The slice is done: its findings are returned.
LEMMA EndSliceLabels ==
  ASSUME IInv, SessionInv, EndSlice, UNCHANGED slicer_vars, Len(delivered) \in Nat
  PROVE  SessionInv'
<1>1. /\ step = "window" /\ step' = "idle"
      /\ printed' = printed \o v /\ v' = <<>>
      /\ consumed_bytes' = consumed_bytes + decoder_input_start
      /\ decoder_input_start >= slice_len
      /\ delivered' = delivered
  BY DEF EndSlice, slicer_vars
<1>2. /\ printed \in Seq(FindingType) /\ v \in Seq(FindingType)
      /\ decoder_input_start \in 0 .. slice_len /\ slice_len \in Nat
      /\ consumed_bytes \in Nat
  BY ConstantTypes DEF IInv, TypeOK
<1>3. Len(delivered) = consumed_bytes + slice_len /\ consumed_bytes' = Len(delivered)
  BY <1>1, <1>2 DEF SessionInv, InStepInv
<1>4. InStepInv' /\ SliceInv'
  BY <1>1, <1>3 DEF InStepInv, SliceInv
<1>5. LabelsInv'
  <2> SUFFICES ASSUME NEW i \in 1 .. Len(printed')
               PROVE  /\ printed'[i].position < Len(delivered)
                      /\ delivered[printed'[i].position + 1][1] = printed'[i].input_file_id
    BY <1>1 DEF LabelsInv, OriginOf
  <2>1. CASE i <= Len(printed)
    <3>1. i \in 1 .. Len(printed) /\ printed'[i] = printed[i]
      BY <1>1, <1>2, <2>1
    <3> QED  BY <3>1 DEF SessionInv, LabelsInv, OriginOf
  <2>2. CASE i > Len(printed)
    <3> DEFINE k == i - Len(printed)
    <3>1. k \in 1 .. Len(v) /\ printed'[i] = v[k]
      BY <1>1, <1>2, <2>2
    <3> HIDE DEF k
    <3>2. /\ v[k].input_file_id = input_file_id
          /\ consumed_bytes <= v[k].position
          /\ v[k].position < consumed_bytes + slice_len
      BY <3>1 DEF SessionInv, LabelsInv, IInv, CollectionInv
    <3>3. v[k].position \in Nat
      BY <1>2, <3>1, PositionsAreNat
    <3>4. v[k].position + 1 \in 1 .. Len(delivered) /\ consumed_bytes < v[k].position + 1
      BY <1>2, <1>3, <3>2, <3>3
    <3>5. delivered[v[k].position + 1][1] = input_file_id
      BY <1>1, <3>4 DEF SessionInv, SliceInv
    <3> QED  BY <1>3, <3>1, <3>2, <3>5
  <2> QED  BY <1>2, <2>1, <2>2
<1> QED  BY <1>4, <1>5 DEF SessionInv

\* All other steps of the scanner leave its count and what is printed alone, and a
\* new finding gets the label of the slice.
LEMMA ScanKeeps ==
  ASSUME IInv, SessionInv, Scan, Len(delivered) \in Nat
  PROVE  SessionInv'
<1>1. ScanStep /\ UNCHANGED slicer_vars
  BY DEF Scan
<1>2. CASE EndSlice
  BY <1>1, <1>2, EndSliceLabels
<1>3. CASE ~EndSlice
  <2>1. /\ step # "idle" /\ step' # "idle"
        /\ UNCHANGED <<consumed_bytes, printed, slice_len, input_file_id>>
        /\ v' \in {v, <<>>} \/ v' = Append(v, NewFinding)
    <3> USE DEF ss_vars, param_vars, returned_vars, collection_vars
    <3>1. CASE OpenWindow
      BY <3>1 DEF OpenWindow
    <3>2. CASE Decode
      <4>1. Decoding /\ step' \in {step, "decoded"}
        BY <3>2 DEF Decode, DecodeChar, CompleteChar, StartChar, ContinueChar,
                    InputEmpty, Malformed, OutputFull, Write, EndCall
      <4> QED  BY <4>1 DEF Decoding
    <3>3. CASE StartSplit
      BY <3>3 DEF StartSplit
    <3>4. CASE Split
      BY <3>4 DEF Split
    <3>5. CASE TakeChunk
      BY <3>5 DEF TakeChunk
    <3>6. CASE AfterChunks
      BY <3>6 DEF AfterChunks, IInv, TypeOK
    <3> QED  BY <1>1, <1>3, <3>1, <3>2, <3>3, <3>4, <3>5, <3>6 DEF ScanStep
  <2>2. delivered' = delivered /\ item' = item
    BY <1>1 DEF slicer_vars
  <2>3. InStepInv' /\ SliceInv'
    BY <2>1, <2>2 DEF SessionInv, InStepInv, SliceInv
  <2>4. \A i \in 1 .. Len(v') : v'[i].input_file_id = input_file_id
    <3>1. CASE v' = v \/ v' = <<>>
      BY <3>1 DEF SessionInv, LabelsInv
    <3>2. CASE v' = Append(v, NewFinding)
      <4>1. v \in Seq(FindingType)
        BY DEF IInv, TypeOK
      <4>2. NewFinding.input_file_id = input_file_id
        BY DEF NewFinding
      <4>3. /\ Len(v') = Len(v) + 1
            /\ \A i \in 1 .. Len(v) : v'[i] = v[i]
            /\ v'[Len(v) + 1] = NewFinding
        BY <3>2, <4>1
      <4> QED  BY <4>1, <4>2, <4>3 DEF SessionInv, LabelsInv
    <3> QED  BY <2>1, <3>1, <3>2
  <2>5. LabelsInv'
    BY <2>1, <2>2, <2>4 DEF SessionInv, LabelsInv, OriginOf
  <2> QED  BY <2>3, <2>5 DEF SessionInv
<1> QED  BY <1>2, <1>3

LEMMA SessionNextKeeps ==
  ASSUME NInputs < 256, Sl!IInv, Sl!IInv', IInv, SessionInv, [SessionNext]_session_vars
  PROVE  SessionInv'
<1>1. Len(delivered) \in Nat
  BY FewInputs
<1>2. CASE Feed
  BY <1>2, FeedKeeps
<1>3. CASE Scan
  BY <1>1, <1>3, ScanKeeps
<1>4. CASE EndOfInput
  <2>1. /\ step = "idle"
        /\ UNCHANGED <<step, consumed_bytes, slice_len, input_file_id, v, printed, delivered>>
    BY <1>4 DEF EndOfInput, vars, ss_vars, param_vars, collection_vars, returned_vars,
                S!EndInput, S!ReadError
  <2> QED  BY <2>1 DEF SessionInv, InStepInv, SliceInv, LabelsInv, OriginOf
<1>5. CASE Ended \/ UNCHANGED session_vars
  <2>1. UNCHANGED <<step, consumed_bytes, slice_len, input_file_id, v, printed, delivered, item>>
    BY <1>5 DEF Ended, session_vars, slicer_vars, vars, ss_vars, param_vars,
                collection_vars, returned_vars
  <2> QED  BY <2>1 DEF SessionInv, InStepInv, SliceInv, LabelsInv, OriginOf
<1> QED  BY <1>2, <1>3, <1>4, <1>5 DEF SessionNext

LEMMA SessionInvariant ==
  ASSUME NInputs < 256
  PROVE  SessionSpec => []SessionInv
<1>1. Sl!IInv /\ IInv /\ (Sl!IInv /\ IInv)' /\ SessionInv /\ [SessionNext]_session_vars
        => SessionInv'
  BY SessionNextKeeps
<1> QED  BY <1>1, PartsInvariant, InitSessionInv, PTL DEF SessionSpec

-----------------------------------------------------------------------------

\* The byte at a finding's position is a byte of the file that its label names,
\* with up to 255 inputs, whatever files a string reaches over, are missing, empty
\* or read in pieces.
THEOREM LabelsFitPositions ==
  ASSUME NInputs < 256
  PROVE  SessionSpec => []PositionAndLabelAgree
<1>1. Sl!IInv /\ IInv /\ SessionInv => PositionAndLabelAgree
  <2> SUFFICES ASSUME Sl!IInv, IInv, SessionInv, NEW i \in 1 .. Len(Findings)
               PROVE  OriginOf(Findings[i].position) = Findings[i].input_file_id
    BY DEF PositionAndLabelAgree
  <2>1. /\ printed \in Seq(FindingType) /\ v \in Seq(FindingType)
        /\ consumed_bytes \in Nat /\ slice_len \in Nat
    BY ConstantTypes DEF IInv, TypeOK
  <2>2. CASE i <= Len(printed)
    <3>1. i \in 1 .. Len(printed) /\ Findings[i] = printed[i]
      BY <2>1, <2>2 DEF Findings
    <3> QED  BY <3>1 DEF SessionInv, LabelsInv
  <2>3. CASE i > Len(printed)
    <3> DEFINE k == i - Len(printed)
    <3>1. k \in 1 .. Len(v) /\ Findings[i] = v[k]
      BY <2>1, <2>3 DEF Findings
    <3> HIDE DEF k
    <3>2. /\ step # "idle"
          /\ v[k].input_file_id = input_file_id
          /\ consumed_bytes <= v[k].position
          /\ v[k].position < consumed_bytes + slice_len
      BY <3>1 DEF SessionInv, LabelsInv, IInv, CollectionInv
    <3>3. v[k].position \in Nat
      BY <2>1, <3>1, PositionsAreNat
    <3>4. Len(delivered) = consumed_bytes + slice_len
      BY <3>2 DEF SessionInv, InStepInv
    <3>5. v[k].position + 1 \in 1 .. Len(delivered) /\ consumed_bytes < v[k].position + 1
      BY <2>1, <3>2, <3>3, <3>4
    <3>6. delivered[v[k].position + 1][1] = input_file_id
      BY <3>2, <3>5 DEF SessionInv, SliceInv
    <3> QED  BY <3>1, <3>2, <3>6 DEF OriginOf
  <2> QED  BY <2>1, <2>2, <2>3
<1> QED  BY <1>1, PartsInvariant, SessionInvariant, PTL

=============================================================================
