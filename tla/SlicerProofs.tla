----------------------------- MODULE SlicerProofs -----------------------------
(***************************************************************************)
(* Proofs about Slicer, for every number of inputs, inputs of every length,*)
(* any of which may be impossible to open or to read, and a buffer of every*)
(* length.                                                                 *)
(*                                                                         *)
(* GaplessDelivery speaks of the bytes already delivered.  What makes a    *)
(* step keep it is where the delivered bytes end: at the reader's place    *)
(* (EndInv).  CompleteAtEnd needs to know what has been delivered while the*)
(* inputs are read (PrefixInv), and why the iterator ends (StopInv).       *)
(***************************************************************************)
EXTENDS Slicer, SequenceTheorems, TLAPS

\* The members of the Slicer that are changed together agree.
ReaderInv ==
    /\ reader.input = current_input_idx
    /\ reader.left <= Size[reader.input]
    /\ reader.input \notin Openable => reader.left = 0
    /\ current_input_is_last = IsLastInput(current_input_idx)

\* How many bytes of the current input have been read.
ReadSoFar == Size[current_input_idx] - reader.left

\* The delivered bytes end where the reader is: with the byte it has read last,
\* or with the last byte of an input that is followed by empty ones only.
EndInv ==
    IF delivered = <<>>
    THEN /\ \A k \in Sources : k < current_input_idx => ~Contributes(k)
         /\ current_input_idx \in Openable => ReadSoFar = 0
    ELSE LET b == delivered[Len(delivered)]
         IN  \/ b = <<current_input_idx, ReadSoFar>>
             \/ /\ b[1] < current_input_idx
                /\ b[2] = Size[b[1]]
                /\ NothingBetween(b[1], current_input_idx)
                /\ current_input_idx \in Openable => ReadSoFar = 0

\* Byte k of input i has been read.
WasRead(i, k) ==
    \/ i < current_input_idx
    \/ i = current_input_idx /\ k <= ReadSoFar

\* Every byte that was read has been delivered.
PrefixInv ==
    \A i \in Openable : \A k \in 1 .. Size[i] :
        WasRead(i, k) => \E p \in 1 .. Len(delivered) : delivered[p] = <<i, k>>

\* The iterator has ended because the last input is read to its end.
StopInv == item = None => reader.left = 0 /\ current_input_is_last

\* The slice in the buffer is of the current input, and so is its label.
LabelInv ==
    item.kind = "some" =>
        /\ item.id = FileId(current_input_idx)
        /\ \A j \in 1 .. item.len : input_buffer[j][1] = current_input_idx

IInv == /\ TypeOK
        /\ ReaderInv
        /\ GaplessDelivery /\ EndInv
        /\ PrefixInv /\ StopInv
        /\ LabelInv

-----------------------------------------------------------------------------
(* The inputs and the items.                                               *)

LEMMA BufLenIsPositive == BufLen \in Nat \ {0}
BY SlicerAssumption DEF InputsOK

LEMMA SourcesAreNat == NInputs \in Nat /\ \A i \in Sources : i \in Nat
BY SlicerAssumption DEF InputsOK, Sources

LEMMA SizesAreNat == \A i \in Sources : Size[i] \in Nat
BY SlicerAssumption DEF InputsOK

LEMMA OpenableAreSources == Openable \subseteq Sources
BY SlicerAssumption DEF InputsOK

LEMMA FirstInputIsASource == FirstIdx \in Sources
BY SourcesAreNat DEF FirstIdx, Sources

LEMMA NoInputBeforeTheFirst == \A k \in Sources : ~(k < FirstIdx)
BY SourcesAreNat DEF FirstIdx, Sources

LEMMA LastInputIsTheGreatest ==
  ASSUME NEW i \in Sources, IsLastInput(i), NEW k \in Sources
  PROVE  k <= i
BY SourcesAreNat DEF Sources, IsLastInput

ItemType == [kind : {"some"}, len : 0 .. BufLen, id : 0 .. 255, is_last : BOOLEAN]

LEMMA ItemsAreTyped ==
  ASSUME NEW n \in 0 .. BufLen, NEW idx \in Nat
  PROVE  /\ Some(n, FileId(idx), FALSE) \in ItemType
         /\ Some(n, FileId(idx), FALSE).kind = "some"
         /\ Some(n, FileId(idx), FALSE).len = n
         /\ Some(n, FileId(idx), FALSE).id = FileId(idx)
         /\ Some(n, FileId(idx), FALSE) # None
BY BufLenIsPositive DEF Some, FileId, ItemType, None

\* A file that was opened has all its bytes to give, any other has none.
LEMMA OpenedReader ==
  ASSUME NEW i \in Sources
  PROVE  /\ OpenReader(i) \in [input : Sources, left : Nat]
         /\ OpenReader(i).input = i
         /\ OpenReader(i).left <= Size[i]
         /\ i \in Openable => OpenReader(i).left = Size[i]
         /\ i \notin Openable => OpenReader(i).left = 0
BY SizesAreNat DEF OpenReader

LEMMA ReadSoFarIsNat ==
  ASSUME TypeOK, ReaderInv
  PROVE  /\ current_input_idx \in Sources
         /\ current_input_idx \in Nat
         /\ Size[current_input_idx] \in Nat
         /\ reader.left \in Nat
         /\ ReadSoFar \in 0 .. Size[current_input_idx]
         /\ delivered \in Seq(Byte)
         /\ Len(delivered) \in Nat
<1>1. /\ reader.input \in Sources /\ reader.left \in Nat
      /\ delivered \in Seq(Byte) /\ current_input_idx \in Sources
  BY DEF TypeOK
<1> QED  BY <1>1, SourcesAreNat, SizesAreNat DEF ReaderInv, ReadSoFar

-----------------------------------------------------------------------------
(* A read() that has filled the buffer with n bytes.                       *)

\* What one call of read() does, with n for its result.
Reads(n) ==
    /\ n \in 1 .. BufLen
    /\ n <= reader.left
    /\ reader' = [reader EXCEPT !.left = @ - n]
    /\ input_buffer' = [j \in 1 .. BufLen |->
           IF j <= n THEN ByteAt(reader, j) ELSE input_buffer[j]]
    /\ item' = Some(n, FileId(current_input_idx), FALSE)
    /\ delivered' = delivered \o [j \in 1 .. n |-> ByteAt(reader, j)]
    /\ UNCHANGED <<current_input_idx, current_input_is_last>>

LEMMA ReadSomeReads == ReadSome => \E n \in 1 .. BufLen : Reads(n)
BY DEF ReadSome, Reads

\* The new bytes follow the delivered ones, and are the next n of the input.
LEMMA ReadsAppends ==
  ASSUME TypeOK, ReaderInv, NEW n, Reads(n)
  PROVE  /\ n \in Nat \ {0} /\ n <= BufLen
         /\ current_input_idx \in Openable
         /\ delivered' \in Seq(Byte)
         /\ Len(delivered') = Len(delivered) + n
         /\ \A i \in 1 .. Len(delivered) : delivered'[i] = delivered[i]
         /\ \A j \in 1 .. n :
              delivered'[Len(delivered) + j] = <<current_input_idx, ReadSoFar + j>>
         /\ \A j \in 1 .. n : input_buffer'[j] = <<current_input_idx, ReadSoFar + j>>
<1> DEFINE new == [j \in 1 .. n |-> ByteAt(reader, j)]
<1>1. n \in Nat \ {0} /\ n <= BufLen
  BY BufLenIsPositive DEF Reads
<1>2. \A j \in Nat : /\ ByteAt(reader, j) = <<current_input_idx, ReadSoFar + j>>
                     /\ ByteAt(reader, j) \in Byte
  BY ReadSoFarIsNat DEF ByteAt, ReadSoFar, ReaderInv, Byte
<1>3. \A j \in 1 .. n : new[j] = <<current_input_idx, ReadSoFar + j>> /\ new[j] \in Byte
  BY <1>1, <1>2
<1>4. new \in Seq(Byte) /\ Len(new) = n
  BY <1>1, <1>3
<1>5. delivered' = delivered \o new
  BY DEF Reads
<1>6. \A j \in 1 .. n : input_buffer'[j] = <<current_input_idx, ReadSoFar + j>>
  BY <1>1, <1>2, BufLenIsPositive DEF Reads
<1> HIDE DEF new
<1>7. /\ delivered' \in Seq(Byte)
      /\ Len(delivered') = Len(delivered) + n
      /\ \A i \in 1 .. Len(delivered) + n : delivered'[i] =
            IF i <= Len(delivered) THEN delivered[i] ELSE new[i - Len(delivered)]
  BY <1>4, <1>5, ReadSoFarIsNat, ConcatProperties
<1>8. \A j \in 1 .. n :
        delivered'[Len(delivered) + j] = <<current_input_idx, ReadSoFar + j>>
  <2> TAKE j \in 1 .. n
  <2>1. /\ Len(delivered) + j \in 1 .. Len(delivered) + n
        /\ ~(Len(delivered) + j <= Len(delivered))
        /\ Len(delivered) + j - Len(delivered) = j
    BY <1>1, ReadSoFarIsNat
  <2> QED  BY <1>3, <1>7, <2>1
<1>9. current_input_idx \in Openable
  BY <1>1, ReadSoFarIsNat DEF Reads, ReaderInv
<1>10. \A i \in 1 .. Len(delivered) : delivered'[i] = delivered[i]
  BY <1>1, <1>7, ReadSoFarIsNat
<1> QED  BY <1>1, <1>6, <1>7, <1>8, <1>9, <1>10

LEMMA ReadsKeepsTypes ==
  ASSUME TypeOK, ReaderInv, NEW n, Reads(n)
  PROVE  /\ TypeOK' /\ ReaderInv' /\ LabelInv' /\ StopInv'
         /\ ReadSoFar' = ReadSoFar + n
<1>1. /\ n \in Nat \ {0} /\ n <= BufLen
      /\ delivered' \in Seq(Byte)
      /\ \A j \in 1 .. n : input_buffer'[j] = <<current_input_idx, ReadSoFar + j>>
  BY ReadsAppends
<1>2. n \in 0 .. BufLen /\ current_input_idx \in Nat
  BY <1>1, BufLenIsPositive, ReadSoFarIsNat
<1>3. /\ item' = Some(n, FileId(current_input_idx), FALSE)
      /\ UNCHANGED <<current_input_idx, current_input_is_last>>
  BY DEF Reads
<1>4. /\ item' \in ItemType /\ item'.kind = "some" /\ item'.len = n
      /\ item'.id = FileId(current_input_idx) /\ item' # None
  BY <1>2, <1>3, ItemsAreTyped
<1>5. input_buffer' \in [1 .. BufLen -> Byte \cup {NoByte}]
  <2>1. \A j \in 1 .. BufLen : input_buffer[j] \in Byte \cup {NoByte}
    BY DEF TypeOK
  <2>2. \A j \in Nat : ByteAt(reader, j) \in Byte
    BY ReadSoFarIsNat DEF ByteAt, Byte, ReaderInv, ReadSoFar
  <2> QED  BY <2>1, <2>2, BufLenIsPositive DEF Reads
<1>6. /\ reader' \in [input : Sources, left : Nat]
      /\ reader'.input = reader.input
      /\ reader'.left = reader.left - n
  <2>1. reader \in [input : Sources, left : Nat]
    BY DEF TypeOK
  <2>2. reader.left - n \in Nat
    BY <1>1, <2>1 DEF Reads
  <2> QED  BY <2>1, <2>2 DEF Reads
<1>7. ReaderInv' /\ ReadSoFar' = ReadSoFar + n
  <2>1. reader.input \in Openable
    BY ReadsAppends DEF ReaderInv
  <2> QED  BY <1>1, <1>3, <1>6, <2>1, ReadSoFarIsNat DEF ReaderInv, ReadSoFar, IsLastInput
<1>8. TypeOK'
  BY <1>1, <1>3, <1>4, <1>5, <1>6 DEF TypeOK, ItemType
<1>9. LabelInv' /\ StopInv'
  <2>1. \A j \in 1 .. n : input_buffer'[j][1] = current_input_idx'
    BY <1>1, <1>3
  <2>2. item'.id = FileId(current_input_idx')
    BY <1>3, <1>4
  <2> QED  BY <1>4, <2>1, <2>2 DEF LabelInv, StopInv, FileId, None
<1> QED  BY <1>7, <1>8, <1>9

\* The first new byte is the next one of the concatenated inputs.
LEMMA ReadsIsGapless ==
  ASSUME IInv, NEW n, Reads(n)
  PROVE  GaplessDelivery' /\ EndInv'
<1>1. /\ n \in Nat \ {0}
      /\ current_input_idx \in Openable
      /\ delivered' \in Seq(Byte)
      /\ Len(delivered') = Len(delivered) + n
      /\ \A i \in 1 .. Len(delivered) : delivered'[i] = delivered[i]
      /\ \A j \in 1 .. n :
           delivered'[Len(delivered) + j] = <<current_input_idx, ReadSoFar + j>>
  BY ReadsAppends DEF IInv
<1>2. /\ current_input_idx \in Nat
      /\ ReadSoFar \in Nat
      /\ delivered \in Seq(Byte)
      /\ Len(delivered) \in Nat
  BY ReadSoFarIsNat DEF IInv
<1>3. ReadSoFar' = ReadSoFar + n /\ current_input_idx' = current_input_idx
  BY ReadsKeepsTypes DEF IInv, Reads
<1>4. delivered'[Len(delivered) + 1] = <<current_input_idx, ReadSoFar + 1>>
  BY <1>1
<1>5. \A p \in 1 .. Len(delivered') - 1 :
        IsNextByte(delivered'[p], delivered'[p + 1])
  <2> TAKE p \in 1 .. Len(delivered') - 1
  <2>1. CASE p < Len(delivered)
    <3>1. p \in 1 .. Len(delivered) - 1 /\ p + 1 \in 1 .. Len(delivered)
      BY <1>2, <2>1
    <3>2. IsNextByte(delivered[p], delivered[p + 1])
      BY <3>1 DEF IInv, GaplessDelivery
    <3>3. delivered'[p] = delivered[p] /\ delivered'[p + 1] = delivered[p + 1]
      BY <1>1, <1>2, <2>1, <3>1
    <3> QED  BY <3>2, <3>3
  <2>2. CASE p = Len(delivered)
    <3>1. /\ delivered # <<>>
          /\ delivered'[p] = delivered[Len(delivered)]
          /\ delivered'[p + 1] = <<current_input_idx, ReadSoFar + 1>>
      BY <1>1, <1>2, <1>4, <2>2, EmptySeq
    <3> QED  BY <1>1, <1>2, <3>1 DEF IInv, EndInv, IsNextByte
  <2>3. CASE p > Len(delivered)
    <3> DEFINE j == p - Len(delivered)
    <3>1. j \in 1 .. n /\ j + 1 \in 1 .. n
      BY <1>1, <1>2, <2>3
    <3>2. /\ delivered'[Len(delivered) + j] = <<current_input_idx, ReadSoFar + j>>
          /\ delivered'[Len(delivered) + (j + 1)]
               = <<current_input_idx, ReadSoFar + (j + 1)>>
      BY <1>1, <3>1
    <3>3. Len(delivered) + j = p /\ Len(delivered) + (j + 1) = p + 1
      BY <1>2
    <3> QED
      <4>1. /\ delivered'[p] = <<current_input_idx, ReadSoFar + j>>
            /\ delivered'[p + 1] = <<current_input_idx, (ReadSoFar + j) + 1>>
        BY <1>2, <3>1, <3>2, <3>3, SMTT(30)
      <4> QED  BY <4>1 DEF IsNextByte
  <2> QED  BY <1>1, <1>2, <2>1, <2>2, <2>3
<1>6. /\ delivered'[1][2] = 1
      /\ \A k \in Sources : k < delivered'[1][1] => ~Contributes(k)
  <2>1. CASE delivered = <<>>
    BY <1>1, <1>2, <1>4, <2>1 DEF IInv, EndInv
  <2>2. CASE delivered # <<>>
    <3>1. delivered'[1] = delivered[1]
      BY <1>1, <1>2, <2>2, EmptySeq
    <3> QED  BY <2>2, <3>1 DEF IInv, GaplessDelivery
  <2> QED  BY <2>1, <2>2
<1>7. EndInv'
  <2>1. delivered'[Len(delivered')] = <<current_input_idx', ReadSoFar'>>
    BY <1>1, <1>2, <1>3
  <2>2. delivered' # <<>>
    BY <1>1, <1>2, EmptySeq
  <2> QED  BY <2>1, <2>2 DEF EndInv
<1> QED  BY <1>5, <1>6, <1>7 DEF GaplessDelivery

LEMMA ReadsDelivers ==
  ASSUME IInv, NEW n, Reads(n)
  PROVE  PrefixInv'
<1>1. /\ n \in Nat \ {0}
      /\ Len(delivered') = Len(delivered) + n
      /\ \A i \in 1 .. Len(delivered) : delivered'[i] = delivered[i]
      /\ \A j \in 1 .. n :
           delivered'[Len(delivered) + j] = <<current_input_idx, ReadSoFar + j>>
  BY ReadsAppends DEF IInv
<1>2. ReadSoFar \in Nat /\ Len(delivered) \in Nat
  BY ReadSoFarIsNat DEF IInv
<1>3. ReadSoFar' = ReadSoFar + n /\ current_input_idx' = current_input_idx
  BY ReadsKeepsTypes DEF IInv, Reads
<1> SUFFICES ASSUME NEW i \in Openable, NEW k \in 1 .. Size[i], WasRead(i, k)'
             PROVE  \E p \in 1 .. Len(delivered') : delivered'[p] = <<i, k>>
  BY DEF PrefixInv
<1>4. CASE WasRead(i, k)
  <2>1. PICK p \in 1 .. Len(delivered) : delivered[p] = <<i, k>>
    BY <1>4 DEF IInv, PrefixInv
  <2> QED  BY <1>1, <1>2, <2>1
<1>5. CASE ~WasRead(i, k)
  <2> DEFINE j == k - ReadSoFar
  <2>1. i = current_input_idx /\ k > ReadSoFar /\ k <= ReadSoFar + n
    BY <1>1, <1>2, <1>3, <1>5 DEF WasRead
  <2>2. j \in 1 .. n /\ ReadSoFar + j = k
    BY <1>1, <1>2, <2>1
  <2>3. delivered'[Len(delivered) + j] = <<i, k>>
    BY <1>1, <2>1, <2>2
  <2>4. Len(delivered) + j \in 1 .. Len(delivered')
    BY <1>1, <1>2, <2>2
  <2> QED  BY <2>3, <2>4
<1> QED  BY <1>4, <1>5

LEMMA ReadSomeStep ==
  ASSUME IInv, ReadSome
  PROVE  IInv'
<1>1. PICK n \in 1 .. BufLen : Reads(n)
  BY ReadSomeReads
<1> QED  BY <1>1, ReadsKeepsTypes, ReadsIsGapless, ReadsDelivers DEF IInv

-----------------------------------------------------------------------------
(* The other outcomes of a call of next().                                 *)

\* The switch to the next input: the last one has been read to its end, and the
\* next one has not been read at all.
LEMMA SwitchInputStep ==
  ASSUME IInv, SwitchInput
  PROVE  IInv'
<1> DEFINE next == current_input_idx + 1
<1>1. /\ reader.left = 0
      /\ current_input_idx' = next
      /\ reader' = OpenReader(next)
      /\ current_input_is_last' = IsLastInput(next)
      /\ item' = Some(0, FileId(next), FALSE)
      /\ UNCHANGED <<input_buffer, delivered>>
  BY DEF SwitchInput
<1>2. /\ current_input_idx \in Sources /\ current_input_idx \in Nat
      /\ Len(delivered) \in Nat /\ delivered \in Seq(Byte)
      /\ Size[current_input_idx] \in Nat
      /\ ReadSoFar = Size[current_input_idx]
  BY <1>1, ReadSoFarIsNat DEF IInv, ReadSoFar
<1>3. next \in Sources /\ next \in Nat
  <2>1. ~(current_input_idx >= NInputs)
    BY DEF SwitchInput, IInv, ReaderInv, IsLastInput
  <2> QED  BY <1>2, <2>1, SourcesAreNat DEF Sources
<1>4. /\ item' \in ItemType /\ item'.kind = "some" /\ item'.len = 0
      /\ item'.id = FileId(next) /\ item' # None
  <2>1. 0 \in 0 .. BufLen
    BY BufLenIsPositive
  <2> HIDE DEF next
  <2> QED  BY <1>1, <1>3, <2>1, ItemsAreTyped
<1>5. /\ reader' \in [input : Sources, left : Nat]
      /\ reader'.input = next
      /\ reader'.left <= Size[next]
      /\ next \in Openable => reader'.left = Size[next]
      /\ next \notin Openable => reader'.left = 0
  BY <1>1, <1>3, OpenedReader
<1>6. TypeOK'
  <2>1. current_input_is_last' \in BOOLEAN
    BY <1>1 DEF IsLastInput
  <2>2. /\ delivered' \in Seq(Byte)
        /\ input_buffer' \in [1 .. BufLen -> Byte \cup {NoByte}]
    BY <1>1 DEF IInv, TypeOK
  <2> HIDE DEF next
  <2> QED  BY <1>1, <1>3, <1>4, <1>5, <2>1, <2>2 DEF TypeOK, ItemType
<1>7. ReaderInv'
  BY <1>1, <1>5 DEF ReaderInv, IsLastInput
<1>8. next \in Openable => ReadSoFar' = 0
  BY <1>1, <1>3, <1>5, SizesAreNat DEF ReadSoFar
<1>9. ~Contributes(current_input_idx) \/ delivered # <<>>
  BY <1>2 DEF IInv, EndInv, Contributes
<1>10. \A k \in Sources : k < next <=> k < current_input_idx \/ k = current_input_idx
  BY <1>2, SourcesAreNat
<1>11. EndInv'
  <2>1. CASE delivered = <<>>
    <3>1. \A k \in Sources : k < next => ~Contributes(k)
      BY <1>9, <1>10, <2>1 DEF IInv, EndInv
    <3> QED  BY <1>1, <1>8, <2>1, <3>1 DEF EndInv
  <2>2. CASE delivered # <<>>
    <3> DEFINE b == delivered[Len(delivered)]
    <3>1. CASE b = <<current_input_idx, ReadSoFar>>
      <4>1. b[1] = current_input_idx /\ b[2] = Size[b[1]] /\ b[1] < next
        BY <1>2, <3>1
      <4>2. NothingBetween(b[1], next)
        BY <1>10, <4>1, <1>2 DEF NothingBetween
      <4> QED  BY <1>1, <1>8, <2>2, <4>1, <4>2 DEF EndInv
    <3>2. CASE b # <<current_input_idx, ReadSoFar>>
      <4>1. /\ b[1] < current_input_idx
            /\ b[2] = Size[b[1]]
            /\ NothingBetween(b[1], current_input_idx)
            /\ current_input_idx \in Openable => ReadSoFar = 0
        BY <2>2, <3>2 DEF IInv, EndInv
      <4>2. b[1] \in Nat
        <5>1. Len(delivered) \in 1 .. Len(delivered)
          BY <1>2, <2>2, EmptySeq
        <5>2. b \in Byte
          BY <1>2, <5>1, ElementOfSeq
        <5> QED  BY <5>2, SourcesAreNat DEF Byte
      <4>3. b[1] < next
        BY <1>2, <4>1, <4>2
      <4>4. ~Contributes(current_input_idx)
        BY <1>2, <4>1 DEF Contributes
      <4>5. NothingBetween(b[1], next)
        BY <1>10, <4>1, <4>4 DEF NothingBetween
      <4> QED  BY <1>1, <1>8, <2>2, <4>1, <4>3, <4>5 DEF EndInv
    <3> QED  BY <3>1, <3>2
  <2> QED  BY <2>1, <2>2
<1>12. PrefixInv'
  <2> SUFFICES ASSUME NEW i \in Openable, NEW k \in 1 .. Size[i], WasRead(i, k)'
               PROVE  \E p \in 1 .. Len(delivered') : delivered'[p] = <<i, k>>
    BY DEF PrefixInv
  <2>1. i \in Sources /\ i \in Nat /\ Size[i] \in Nat
    BY OpenableAreSources, SourcesAreNat, SizesAreNat
  <2>2. i < next
    BY <1>1, <1>8, <2>1 DEF WasRead
  <2>3. WasRead(i, k)
    BY <1>2, <1>10, <2>1, <2>2 DEF WasRead
  <2> QED  BY <1>1, <2>3 DEF IInv, PrefixInv
<1>13. GaplessDelivery'
  BY <1>1 DEF IInv, GaplessDelivery, IsNextByte
<1>14. StopInv' /\ LabelInv'
  <2>1. item'.id = FileId(current_input_idx')
    BY <1>1, <1>4
  <2>2. \A j \in 1 .. item'.len : FALSE
    BY <1>4
  <2> QED  BY <1>4, <2>1, <2>2 DEF StopInv, LabelInv, FileId, None
<1> QED  BY <1>6, <1>7, <1>11, <1>12, <1>13, <1>14 DEF IInv

\* Parts of the invariant that depend on the item do not hold because of what it
\* was before.
LEMMA FrameOfInputs ==
  ASSUME IInv,
         UNCHANGED <<current_input_idx, current_input_is_last, reader,
                     input_buffer, delivered>>
  PROVE  ReaderInv' /\ GaplessDelivery' /\ EndInv' /\ PrefixInv'
<1>1. ReaderInv' /\ GaplessDelivery'
  BY DEF IInv, ReaderInv, IsLastInput, GaplessDelivery, IsNextByte
<1>2. EndInv'
  BY DEF IInv, EndInv, ReadSoFar
<1>3. PrefixInv'
  BY DEF IInv, PrefixInv, WasRead, ReadSoFar
<1> QED  BY <1>1, <1>2, <1>3

LEMMA EndInputStep ==
  ASSUME IInv, EndInput
  PROVE  IInv'
<1>1. /\ reader.left = 0 /\ current_input_is_last
      /\ item' = None
      /\ UNCHANGED <<current_input_idx, current_input_is_last, reader,
                     input_buffer, delivered>>
  BY DEF EndInput
<1>2. TypeOK'
  BY <1>1 DEF IInv, TypeOK
<1>3. StopInv' /\ LabelInv'
  BY <1>1 DEF StopInv, LabelInv, None
<1> QED  BY <1>1, <1>2, <1>3, FrameOfInputs DEF IInv

LEMMA ReadErrorStep ==
  ASSUME IInv, ReadError
  PROVE  IInv'
<1>1. /\ item' = Panic
      /\ UNCHANGED <<current_input_idx, current_input_is_last, reader,
                     input_buffer, delivered>>
  BY DEF ReadError
<1>2. TypeOK'
  BY <1>1 DEF IInv, TypeOK
<1>3. StopInv' /\ LabelInv'
  BY <1>1 DEF StopInv, LabelInv, None, Panic
<1> QED  BY <1>1, <1>2, <1>3, FrameOfInputs DEF IInv

LEMMA NextItemKeepsIInv ==
  ASSUME IInv, NextItem
  PROVE  IInv'
BY ReadSomeStep, SwitchInputStep, EndInputStep, ReadErrorStep DEF NextItem

LEMMA SlicerStutters ==
  ASSUME IInv, UNCHANGED slicer_vars
  PROVE  IInv'
<1>1. UNCHANGED <<current_input_idx, current_input_is_last, reader,
                  input_buffer, item, delivered>>
  BY DEF slicer_vars
<1>2. TypeOK' /\ StopInv' /\ LabelInv'
  BY <1>1 DEF IInv, TypeOK, StopInv, LabelInv
<1> QED  BY <1>1, <1>2, FrameOfInputs DEF IInv

-----------------------------------------------------------------------------
(* IInv is an inductive invariant.                                         *)

LEMMA InitIInv == Init => IInv
<1> SUFFICES ASSUME Init PROVE IInv
  OBVIOUS
<1>1. /\ current_input_idx = FirstIdx
      /\ current_input_is_last = IsLastInput(FirstIdx)
      /\ reader = OpenReader(FirstIdx)
      /\ input_buffer = [j \in 1 .. BufLen |-> NoByte]
      /\ item = NotCalled
      /\ delivered = <<>>
  BY DEF Init
<1>2. FirstIdx \in Sources /\ FirstIdx \in Nat /\ Size[FirstIdx] \in Nat
  BY FirstInputIsASource, SourcesAreNat, SizesAreNat
<1>3. TypeOK
  BY <1>1, <1>2, OpenedReader, EmptySeq DEF TypeOK, IsLastInput
<1>4. ReaderInv
  BY <1>1, <1>2, OpenedReader DEF ReaderInv
<1>5. FirstIdx \in Openable => ReadSoFar = 0
  BY <1>1, <1>2, OpenedReader DEF ReadSoFar
<1>6. GaplessDelivery
  BY <1>1, EmptySeq DEF GaplessDelivery
<1>7. EndInv
  BY <1>1, <1>5, NoInputBeforeTheFirst DEF EndInv
<1>8. PrefixInv
  <2> SUFFICES ASSUME NEW i \in Openable, NEW k \in 1 .. Size[i], WasRead(i, k)
               PROVE  FALSE
    BY DEF PrefixInv
  <2>1. i \in Sources /\ Size[i] \in Nat
    BY OpenableAreSources, SizesAreNat
  <2> QED  BY <1>1, <1>5, <2>1, NoInputBeforeTheFirst DEF WasRead
<1>9. StopInv /\ LabelInv
  BY <1>1 DEF StopInv, LabelInv, NotCalled, None
<1> QED  BY <1>3, <1>4, <1>6, <1>7, <1>8, <1>9 DEF IInv

LEMMA NextKeepsIInv == IInv /\ [Next]_slicer_vars => IInv'
BY NextItemKeepsIInv, SlicerStutters DEF Next

LEMMA InductiveInvariant == Spec => []IInv
BY InitIInv, NextKeepsIInv, PTL DEF Spec

\* What is read when the iterator has ended.
LEMMA IInvCompletes == IInv => CompleteAtEnd
<1> SUFFICES ASSUME IInv, item = None,
                    NEW i \in Openable, NEW k \in 1 .. Size[i]
             PROVE  \E p \in 1 .. Len(delivered) : delivered[p] = <<i, k>>
  BY DEF CompleteAtEnd
<1>1. /\ current_input_idx \in Sources /\ current_input_idx \in Nat
      /\ IsLastInput(current_input_idx)
      /\ Size[current_input_idx] \in Nat
      /\ ReadSoFar = Size[current_input_idx]
  BY ReadSoFarIsNat DEF IInv, StopInv, ReaderInv, ReadSoFar
<1>2. i \in Sources /\ i \in Nat /\ Size[i] \in Nat
  BY OpenableAreSources, SourcesAreNat, SizesAreNat
<1>3. i <= current_input_idx
  BY <1>1, <1>2, LastInputIsTheGreatest
<1>4. WasRead(i, k)
  BY <1>1, <1>2, <1>3 DEF WasRead
<1> QED  BY <1>4 DEF IInv, PrefixInv

\* The label of a slice is the number of its input modulo 2^8.
LEMMA IInvLabels ==
  ASSUME IInv, NInputs < 256
  PROVE  LabelTellsSource
<1>1. current_input_idx \in 0 .. 255
  BY SourcesAreNat DEF IInv, TypeOK, Sources
<1>2. FileId(current_input_idx) = current_input_idx
  BY <1>1 DEF FileId
<1> QED  BY <1>2 DEF IInv, LabelInv, LabelTellsSource

-----------------------------------------------------------------------------

\* The iterator's members and what it returns stay well typed: the index always
\* names an input, a slice is never longer than the buffer, and no read() takes
\* more from an input than it has.
THEOREM SlicerTypes == Spec => []TypeOK
<1>1. IInv => TypeOK
  BY DEF IInv
<1> QED  BY <1>1, InductiveInvariant, PTL

\* The slices, one after the other, are the concatenation of the inputs, for any
\* number of inputs and whatever read() and open() do.  (The loop over
\* reader.read() and File::open() in Slicer::next().)
THEOREM DeliveryIsGapless == Spec => []GaplessDelivery
<1>1. IInv => GaplessDelivery
  BY DEF IInv
<1> QED  BY <1>1, InductiveInvariant, PTL

\* next() returns None only when every byte of every input that could be opened
\* has been handed out.  (The early return on `current_input_is_last'.)
THEOREM DeliveryIsComplete == Spec => []CompleteAtEnd
BY IInvCompletes, InductiveInvariant, PTL

\* The label of a slice is the input all its bytes come from, as long as there are
\* no more inputs than the u8 of the label can number.
THEOREM LabelsTellTheSource ==
  ASSUME NInputs < 256
  PROVE  Spec => []LabelTellsSource
<1>1. IInv => LabelTellsSource
  BY IInvLabels
<1> QED  BY <1>1, InductiveInvariant, PTL

=============================================================================
