-------------------------- MODULE CharBufferProofs ---------------------------
(***************************************************************************)
(* Proofs about CharBuffer, for texts of any length: there is always room  *)
(* for the zero after the text, and the bytes before it, with those that   *)
(* the current call still has to store, are the text of CharText.          *)
(***************************************************************************)
EXTENDS CharBuffer, SequenceTheorems, TLAPS

Constants == BufferAssumption /\ MemoryAssumption

BufferInv == BufferTypeOK /\ capacity >= 8

(* The bytes of a block before its end of text. *)
BytesOf(block, n) == [i \in 1 .. n |-> block[i - 1]]

LEMMA BytesOfFacts ==
  ASSUME NEW block, NEW n \in Nat, \A i \in 0 .. n - 1 : block[i] \in Byte
  PROVE  /\ BytesOf(block, n) \in Seq(Byte)
         /\ Len(BytesOf(block, n)) = n
         /\ \A i \in 1 .. n : BytesOf(block, n)[i] = block[i - 1]
         /\ n = 0 => BytesOf(block, n) = << >>
<1>1. BytesOf(block, n) \in [1 .. n -> Byte]
  BY DEF BytesOf
<1>2. BytesOf(block, n) \in Seq(Byte) /\ Len(BytesOf(block, n)) = n
  BY <1>1
<1>3. \A i \in 1 .. n : BytesOf(block, n)[i] = block[i - 1]
  BY DEF BytesOf
<1> QED  BY <1>2, <1>3

LEMMA BytesOfSame ==
  ASSUME NEW block, NEW new, NEW n \in Nat, \A i \in 0 .. n - 1 : new[i] = block[i]
  PROVE  BytesOf(new, n) = BytesOf(block, n)
BY DEF BytesOf

LEMMA HeadAndTail ==
  ASSUME NEW p \in Seq(Byte), p # << >>
  PROVE  /\ Head(p) \in Byte /\ Tail(p) \in Seq(Byte)
         /\ <<Head(p)>> \in Seq(Byte)
         /\ p = <<Head(p)>> \o Tail(p)
<1>1. Len(p) \in Nat \ {0} /\ Head(p) = p[1]
  OBVIOUS
<1>2. Head(p) \in Byte /\ Tail(p) \in Seq(Byte)
  BY HeadTailProperties
<1>3. 1 \in 1 .. Len(p) /\ Len(p) \in 1 .. Len(p)
  BY <1>1
<1>4. SubSeq(p, 1, Len(p)) = <<p[1]>> \o SubSeq(p, 1 + 1, Len(p))
  BY <1>3, SubSeqRecursiveFirst
<1>5. SubSeq(p, 1, Len(p)) = p
  BY SubSeqFull
<1>6. SubSeq(p, 1 + 1, Len(p)) = Tail(p)
  BY TailIsSubSeq
<1> QED  BY <1>1, <1>2, <1>4, <1>5, <1>6

LEMMA BytesOfAppend ==
  ASSUME NEW block, NEW new, NEW n \in Nat,
         \A i \in 0 .. n - 1 : block[i] \in Byte,
         \A i \in 0 .. n - 1 : new[i] = block[i],
         new[n] \in Byte
  PROVE  BytesOf(new, n + 1) = BytesOf(block, n) \o <<new[n]>>
<1> DEFINE old  == BytesOf(block, n)
           more == BytesOf(new, n + 1)
           last == <<new[n]>>
<1>1. old \in Seq(Byte) /\ Len(old) = n /\ \A i \in 1 .. n : old[i] = block[i - 1]
  BY BytesOfFacts
<1>2. last \in Seq(Byte) /\ Len(last) = 1 /\ last[1] = new[n]
  OBVIOUS
<1>3. /\ more \in Seq(Byte) /\ Len(more) = n + 1
      /\ \A i \in 1 .. n + 1 : more[i] = new[i - 1]
  <2>1. n + 1 \in Nat /\ \A i \in 0 .. (n + 1) - 1 : new[i] \in Byte
    OBVIOUS
  <2> QED  BY <2>1, BytesOfFacts
<1> HIDE DEF old, more, last
<1>4. /\ old \o last \in Seq(Byte) /\ Len(old \o last) = n + 1
      /\ \A i \in 1 .. n + 1 : (old \o last)[i] = IF i <= n THEN old[i] ELSE last[i - n]
  <2>1. /\ old \o last \in Seq(Byte) /\ Len(old \o last) = Len(old) + Len(last)
        /\ \A i \in 1 .. Len(old) + Len(last) :
             (old \o last)[i] = IF i <= Len(old) THEN old[i] ELSE last[i - Len(old)]
    BY <1>1, <1>2, ConcatProperties, Zenon
  <2> QED  BY <1>1, <1>2, <2>1
<1>5. ASSUME NEW i \in 1 .. n + 1 PROVE more[i] = (old \o last)[i]
  <2>1. CASE i <= n
    <3>1. (old \o last)[i] = block[i - 1] /\ more[i] = new[i - 1]
      BY <1>1, <1>3, <1>4, <2>1
    <3>2. i - 1 \in 0 .. n - 1
      BY <2>1
    <3> QED  BY <3>1, <3>2
  <2>2. CASE i = n + 1
    <3>1. i - n = 1 /\ i - 1 = n /\ ~(i <= n)
      BY <2>2
    <3>2. (old \o last)[i] = last[i - n]
      BY <1>4, <3>1
    <3>3. more[i] = new[i - 1]
      BY <1>3
    <3> QED  BY <1>2, <3>1, <3>2, <3>3
  <2>3. i <= n \/ i = n + 1
    OBVIOUS
  <2> QED  BY <2>1, <2>2, <2>3, Zenon
<1>6. more = old \o last
  BY <1>3, <1>4, <1>5, SeqEqual
<1> QED  BY <1>6 DEF old, more, last

(* One more byte in the block and one less to store are the same text.     *)
LEMMA StoringKeepsText ==
  ASSUME NEW block, NEW new, NEW n \in Nat, NEW p \in Seq(Byte), p # << >>,
         \A i \in 0 .. n - 1 : block[i] \in Byte,
         \A i \in 0 .. n - 1 : new[i] = block[i],
         new[n] = Head(p)
  PROVE  BytesOf(new, n + 1) \o Tail(p) = BytesOf(block, n) \o p
<1> DEFINE old == BytesOf(block, n)
<1>1. old \in Seq(Byte)
  BY BytesOfFacts
<1>2. /\ Tail(p) \in Seq(Byte) /\ <<Head(p)>> \in Seq(Byte) /\ new[n] \in Byte
      /\ p = <<Head(p)>> \o Tail(p)
  BY HeadAndTail
<1>3. BytesOf(new, n + 1) = old \o <<Head(p)>>
  BY <1>2, BytesOfAppend
<1> HIDE DEF old
<1>4. (old \o <<Head(p)>>) \o Tail(p) = old \o (<<Head(p)>> \o Tail(p))
  BY <1>1, <1>2, ConcatAssociative
<1> QED  BY <1>2, <1>3, <1>4 DEF old

(* add_char_buffer_int() finds the first byte to add.                      *)
LEMMA LeadingZerosFacts ==
  ASSUME NEW number \in [1 .. 4 -> Byte]
  PROVE  /\ LeadingZeros(number) \in 0 .. 4
         /\ \A i \in 1 .. LeadingZeros(number) : number[i] = NUL
         /\ LeadingZeros(number) = 4 \/ number[LeadingZeros(number) + 1] # NUL
<1> DEFINE P(n) == /\ \A i \in 1 .. n : number[i] = NUL
                   /\ n = 4 \/ number[n + 1] # NUL
<1>1. \E n \in 0 .. 4 : P(n)
  <2>1. CASE number[1] # NUL
    BY <2>1
  <2>2. CASE number[1] = NUL /\ number[2] # NUL
    <3>1. P(1)
      BY <2>2
    <3> QED  BY <3>1
  <2>3. CASE number[1] = NUL /\ number[2] = NUL /\ number[3] # NUL
    <3>1. P(2)
      BY <2>3
    <3> QED  BY <3>1
  <2>4. CASE number[1] = NUL /\ number[2] = NUL /\ number[3] = NUL /\ number[4] # NUL
    <3>1. P(3)
      BY <2>4
    <3> QED  BY <3>1
  <2>5. CASE number[1] = NUL /\ number[2] = NUL /\ number[3] = NUL /\ number[4] = NUL
    <3>1. P(4)
      BY <2>5
    <3> QED  BY <3>1
  <2> QED  BY <2>1, <2>2, <2>3, <2>4, <2>5
<1>2. LeadingZeros(number) = CHOOSE n \in 0 .. 4 : P(n)
  BY DEF LeadingZeros
<1> HIDE DEF P
<1>3. LeadingZeros(number) \in 0 .. 4 /\ P(LeadingZeros(number))
  BY <1>1, <1>2
<1> QED  BY <1>3 DEF P

(* What AddInt() stores is the shortest form of the number.                *)
LEMMA NumberFacts ==
  ASSUME BufferAssumption, NEW number \in Ints
  PROVE  LET bytes == IF LeadingZeros(number) = 4 THEN <<NUL>>
                      ELSE SubSeq(number, LeadingZeros(number) + 1, 4)
         IN  \E n \in 1 .. 4 :
               /\ bytes = SubSeq(number, n, 4)
               /\ bytes \in Seq(Byte)
               /\ \A i \in 1 .. n - 1 : number[i] = NUL
               /\ number[n] # NUL \/ n = 4
<1>1. number \in [1 .. 4 -> Byte]
  BY DEF BufferAssumption
<1> DEFINE z == LeadingZeros(number)
<1>2. /\ z \in 0 .. 4 /\ \A i \in 1 .. z : number[i] = NUL
      /\ z = 4 \/ number[z + 1] # NUL
  BY <1>1, LeadingZerosFacts
<1> HIDE DEF z
<1>3. \A i \in 1 .. 4 : number[i] \in Byte
  BY <1>1
<1>4. CASE z = 4
  <2>1. number[4] = NUL /\ <<NUL>> \in Seq(Byte)
    BY <1>2, <1>3, <1>4
  <2>2. SubSeq(number, 4, 4) = <<number[4]>>
    <3>1. /\ SubSeq(number, 4, 4) \in Seq(Byte)
          /\ Len(SubSeq(number, 4, 4)) = IF 4 <= 4 THEN 4 - 4 + 1 ELSE 0
          /\ \A i \in 1 .. 4 - 4 + 1 : SubSeq(number, 4, 4)[i] = number[4 + i - 1]
      <4>1. \A i \in 4 .. 4 : number[i] \in Byte
        BY <1>3
      <4> QED  BY <4>1, SubSeqProperties
    <3>2. Len(SubSeq(number, 4, 4)) = 1 /\ SubSeq(number, 4, 4)[1] = number[4]
      BY <3>1
    <3>3. <<number[4]>> \in Seq(Byte) /\ Len(<<number[4]>>) = 1 /\ <<number[4]>>[1] = number[4]
      BY <1>3
    <3> DEFINE s == SubSeq(number, 4, 4)
               l == <<number[4]>>
    <3>4. s \in Seq(Byte) /\ l \in Seq(Byte) /\ Len(s) = 1 /\ Len(l) = 1 /\ s[1] = l[1]
      BY <3>1, <3>2, <3>3
    <3> HIDE DEF s, l
    <3>5. \A i \in 1 .. Len(s) : s[i] = l[i]
      BY <3>4
    <3>6. s = l
      BY <3>4, <3>5, SeqEqual
    <3> QED  BY <3>6 DEF s, l
  <2>3. 4 \in 1 .. 4 /\ \A i \in 1 .. 4 - 1 : number[i] = NUL
    BY <1>2, <1>4
  <2> QED  BY <1>4, <2>1, <2>2, <2>3 DEF z
<1>5. CASE z # 4
  <2>1. z + 1 \in 1 .. 4 /\ (z + 1) - 1 = z
    BY <1>2, <1>5
  <2>2. SubSeq(number, z + 1, 4) \in Seq(Byte)
    BY <1>3, <2>1, SubSeqProperties
  <2> QED  BY <1>2, <1>5, <2>1, <2>2 DEF z
<1> QED  BY <1>4, <1>5
-----------------------------------------------------------------------------
LEMMA InitBufferInv == Constants /\ BufferInit => BufferInv
<1> SUFFICES ASSUME Constants, BufferInit PROVE BufferInv
  OBVIOUS
<1>1. Fresh \in [0 .. 7 -> Byte \cup {Junk}] /\ Fresh[0] = NUL
  BY DEF Constants, BufferAssumption, Fresh
<1>2. << >> \in Seq(Byte)
  OBVIOUS
<1> QED  BY <1>1, <1>2 DEF BufferInit, BufferInv, BufferTypeOK

(* A byte is stored in a block that has room for it and for the zero.      *)
LEMMA StoreKeeps ==
  ASSUME Constants, BufferInv, pending # << >>,
         NEW block, NEW cap \in Nat,
         block \in [0 .. cap - 1 -> Byte \cup {Junk}],
         cap >= capacity, length + 3 <= cap,
         \A i \in 0 .. length - 1 : block[i] = buffer[i],
         buffer' = [block EXCEPT ![length] = Head(pending), ![length + 1] = NUL],
         capacity' = cap, length' = length + 1, pending' = Tail(pending),
         UNCHANGED <<reply, state>>
  PROVE  /\ BufferInv'
         /\ \A i \in 0 .. length - 1 : buffer'[i] = buffer[i]
         /\ buffer'[length] = Head(pending)
<1>1. length \in Nat /\ pending \in Seq(Byte) /\ NUL \in Byte
  BY DEF BufferInv, BufferTypeOK, Constants, BufferAssumption
<1>2. Head(pending) \in Byte /\ Tail(pending) \in Seq(Byte)
  BY <1>1, HeadAndTail
<1>3. /\ buffer' \in [0 .. cap - 1 -> Byte \cup {Junk}]
      /\ buffer'[length] = Head(pending) /\ buffer'[length + 1] = NUL
      /\ \A i \in 0 .. length - 1 : buffer'[i] = block[i]
  BY <1>1, <1>2
<1>4. \A i \in 0 .. length - 1 : buffer'[i] = buffer[i] /\ buffer[i] \in Byte
  BY <1>3 DEF BufferInv, BufferTypeOK
<1>5. \A i \in 0 .. length' - 1 : buffer'[i] \in Byte
  <2>1. \A i \in 0 .. length' - 1 : i \in 0 .. length - 1 \/ i = length
    BY <1>1
  <2> QED  BY <1>2, <1>3, <1>4, <2>1
<1>6. cap >= 8 /\ length + 1 \in 0 .. cap - 2
  BY <1>1 DEF BufferInv, BufferTypeOK
<1> QED  BY <1>2, <1>3, <1>4, <1>5, <1>6 DEF BufferInv, BufferTypeOK

LEMMA StoreStep ==
  ASSUME Constants, BufferInv, StoreByte
  PROVE  \/ /\ BufferInv' /\ state' = state /\ reply' = reply
            /\ \A i \in 0 .. length - 1 : buffer'[i] = buffer[i]
            /\ buffer'[length] = Head(pending)
            /\ length' = length + 1 /\ pending' = Tail(pending)
         \/ state' = "no_memory" /\ UNCHANGED <<length, capacity, buffer, pending, reply>>
<1>1. /\ capacity \in Nat /\ capacity >= 8 /\ length \in 0 .. capacity - 2
      /\ buffer \in [0 .. capacity - 1 -> Byte \cup {Junk}]
      /\ pending # << >> /\ reply' = reply
  BY DEF BufferInv, BufferTypeOK, StoreByte
<1>2. CASE /\ ~NeedsToGrow
           /\ buffer' = [buffer EXCEPT ![length] = Head(pending), ![length + 1] = NUL]
           /\ length' = length + 1
           /\ pending' = Tail(pending)
           /\ UNCHANGED <<capacity, state>>
  <2>1. length + 3 <= capacity /\ capacity' = capacity /\ UNCHANGED <<reply, state>>
    BY <1>1, <1>2 DEF NeedsToGrow
  <2> DEFINE block == buffer
  <2>2. /\ block \in [0 .. capacity - 1 -> Byte \cup {Junk}]
        /\ \A i \in 0 .. length - 1 : block[i] = buffer[i]
        /\ buffer' = [block EXCEPT ![length] = Head(pending), ![length + 1] = NUL]
        /\ capacity >= capacity
    BY <1>1, <1>2
  <2> HIDE DEF block
  <2>3. /\ BufferInv'
        /\ \A i \in 0 .. length - 1 : buffer'[i] = buffer[i]
        /\ buffer'[length] = Head(pending)
    BY <1>1, <1>2, <2>1, <2>2, StoreKeeps
  <2> QED  BY <1>2, <2>1, <2>3
<1>3. CASE /\ NeedsToGrow
           /\ capacity' = 2 * capacity
           /\ buffer' = [Grown EXCEPT ![length] = Head(pending), ![length + 1] = NUL]
           /\ length' = length + 1
           /\ pending' = Tail(pending)
           /\ UNCHANGED state
  <2>1. /\ Grown \in [0 .. 2 * capacity - 1 -> Byte \cup {Junk}]
        /\ \A i \in 0 .. length - 1 : Grown[i] = buffer[i]
    BY <1>1 DEF Grown
  <2>2. 2 * capacity \in Nat /\ 2 * capacity >= capacity /\ length + 3 <= 2 * capacity
    BY <1>1
  <2>3. UNCHANGED <<reply, state>>
    BY <1>1, <1>3
  <2> QED  BY <1>1, <1>3, <2>1, <2>2, <2>3, StoreKeeps
<1>4. CASE state' = "no_memory" /\ UNCHANGED <<length, capacity, buffer, pending>>
  BY <1>1, <1>4
<1> QED  BY <1>2, <1>3, <1>4 DEF StoreByte

LEMMA TruncatedKeeps ==
  ASSUME Constants, BufferInv, NEW index \in Index, Truncated(index)
  PROVE  /\ length' \in 0 .. capacity - 2
         /\ buffer' \in [0 .. capacity - 1 -> Byte \cup {Junk}]
         /\ \A i \in 0 .. length' - 1 : buffer'[i] = buffer[i] /\ buffer'[i] \in Byte
         /\ buffer'[length'] = NUL
         /\ length' = IF index \in 0 .. length THEN index ELSE length
<1>1. index \in Int /\ NUL \in Byte
  BY DEF Constants, BufferAssumption
<1>2. /\ capacity \in Nat /\ length \in 0 .. capacity - 2
      /\ buffer \in [0 .. capacity - 1 -> Byte \cup {Junk}]
      /\ \A i \in 0 .. length - 1 : buffer[i] \in Byte
      /\ buffer[length] = NUL
  BY DEF BufferInv, BufferTypeOK
<1>3. CASE index >= 0 /\ index < length
  <2>1. length' = index /\ buffer' = [buffer EXCEPT ![index] = NUL]
    BY <1>3 DEF Truncated
  <2> QED  BY <1>1, <1>2, <1>3, <2>1
<1>4. CASE ~(index >= 0 /\ index < length)
  <2>1. length' = length /\ buffer' = buffer
    BY <1>4 DEF Truncated
  <2> QED  BY <1>1, <1>2, <1>4, <2>1
<1> QED  BY <1>3, <1>4

(* What a string is read as: the bytes before the first zero, which is not *)
(* behind the one that ends the text.                                      *)
LEMMA ReadFacts ==
  ASSUME Constants, BufferInv, GetCharBuffer
  PROVE  \E n \in 0 .. length :
           /\ reply' = BytesOf(buffer, n)
           /\ \A i \in 0 .. n - 1 : buffer[i] # NUL
           /\ buffer[n] = NUL
<1>1. PICK n \in 0 .. capacity - 1 :
         /\ buffer[n] = NUL
         /\ \A i \in 0 .. n - 1 : buffer[i] # NUL
         /\ reply' = [i \in 1 .. n |-> buffer[i - 1]]
  BY DEF GetCharBuffer
<1>2. capacity \in Nat /\ length \in 0 .. capacity - 2 /\ buffer[length] = NUL
  BY DEF BufferInv, BufferTypeOK
<1>3. n \in 0 .. length
  BY <1>1, <1>2
<1> QED  BY <1>1, <1>3 DEF BytesOf

LEMMA NextBufferInv == Constants /\ BufferInv /\ [BufferNext]_bufferVars => BufferInv'
<1> SUFFICES ASSUME Constants, BufferInv, [BufferNext]_bufferVars PROVE BufferInv'
  OBVIOUS
<1>0. /\ capacity \in Nat /\ capacity >= 8 /\ pending \in Seq(Byte) /\ reply \in Seq(Byte)
      /\ << >> \in Seq(Byte) /\ \A s \in Strings : s \in Seq(Byte)
  BY DEF BufferInv, BufferTypeOK, Constants, BufferAssumption
<1>1. CASE InitCharBuffer
  <2>1. CASE length' = 0 /\ capacity' = 8 /\ buffer' = Fresh /\ UNCHANGED state
    <3>1. Fresh \in [0 .. 7 -> Byte \cup {Junk}] /\ Fresh[0] = NUL
      BY DEF Constants, BufferAssumption, Fresh
    <3> QED  BY <1>0, <1>1, <2>1, <3>1 DEF InitCharBuffer, BufferInv, BufferTypeOK
  <2>2. CASE state' = "refused" /\ UNCHANGED <<length, capacity, buffer>>
    BY <1>1, <2>2 DEF InitCharBuffer, BufferInv, BufferTypeOK
  <2> QED  BY <1>1, <2>1, <2>2 DEF InitCharBuffer
<1>2. CASE StoreByte
  <2>1. CASE state' = "no_memory" /\ UNCHANGED <<length, capacity, buffer, pending, reply>>
    BY <2>1 DEF BufferInv, BufferTypeOK
  <2> QED  BY <1>2, <2>1, StoreStep
<1>3. CASE GetCharBuffer
  <2>1. PICK n \in 0 .. length : reply' = BytesOf(buffer, n)
    BY <1>3, ReadFacts
  <2>2. n \in Nat /\ \A i \in 0 .. n - 1 : buffer[i] \in Byte
    BY <2>1 DEF BufferInv, BufferTypeOK
  <2>3. reply' \in Seq(Byte)
    BY <2>1, <2>2, BytesOfFacts
  <2> QED  BY <1>3, <2>3 DEF GetCharBuffer, BufferInv, BufferTypeOK
<1>4. CASE DestroyCharBuffer
  BY <1>4 DEF DestroyCharBuffer, BufferInv, BufferTypeOK
<1>5. ASSUME NEW c \in Byte, AddChar(c) PROVE BufferInv'
  <2>1. pending' \in Seq(Byte)
    BY <1>5 DEF AddChar, StartAdding
  <2> QED  BY <1>5, <2>1 DEF AddChar, BufferInv, BufferTypeOK
<1>6. ASSUME NEW s \in Strings, AddStr(s) PROVE BufferInv'
  <2>1. pending' \in Seq(Byte)
    BY <1>0, <1>6 DEF AddStr, StartAdding
  <2> QED  BY <1>6, <2>1 DEF AddStr, BufferInv, BufferTypeOK
<1>7. ASSUME NEW number \in Ints, AddInt(number) PROVE BufferInv'
  <2>1. pending' \in Seq(Byte)
    BY <1>7, NumberFacts DEF AddInt, StartAdding, Constants
  <2> QED  BY <1>7, <2>1 DEF AddInt, BufferInv, BufferTypeOK
<1>8. ASSUME NEW index \in Index, TruncateCharBuffer(index) PROVE BufferInv'
  <2>1. Truncated(index) /\ UNCHANGED <<capacity, pending, reply, state>>
    BY <1>8 DEF TruncateCharBuffer
  <2> QED  BY <1>0, <2>1, TruncatedKeeps DEF BufferInv, BufferTypeOK
<1>9. ASSUME NEW index \in Index, NEW s \in Strings, SetIndexStr(index, s) PROVE BufferInv'
  <2>1. Truncated(index) /\ pending' = s /\ UNCHANGED <<capacity, reply, state>>
    BY <1>9 DEF SetIndexStr, StartAdding
  <2> QED  BY <1>0, <2>1, TruncatedKeeps DEF BufferInv, BufferTypeOK
<1>10. CASE UNCHANGED bufferVars
  BY <1>10 DEF bufferVars, BufferInv, BufferTypeOK
<1> QED
  BY <1>1, <1>2, <1>3, <1>4, <1>5, <1>6, <1>7, <1>8, <1>9, <1>10 DEF BufferNext

(* There is always room for the zero behind the text, and it is there.     *)
THEOREM BufferTypeCorrect ==
  ASSUME Constants
  PROVE  BufferSpec => []BufferTypeOK
<1>1. BufferInit => BufferInv
  BY InitBufferInv
<1>2. BufferInv /\ [BufferNext]_bufferVars => BufferInv'
  BY NextBufferInv
<1>3. BufferInv => BufferTypeOK
  BY DEF BufferInv
<1> QED  BY <1>1, <1>2, <1>3, PTL DEF BufferSpec

-----------------------------------------------------------------------------
(* The text that a state of the buffer is. *)
Text == BytesOf(buffer, length) \o pending

LEMMA TextFacts ==
  ASSUME BufferInv
  PROVE  /\ length \in Nat /\ BytesOf(buffer, length) \in Seq(Byte)
         /\ Len(BytesOf(buffer, length)) = length
         /\ \A i \in 1 .. length : BytesOf(buffer, length)[i] = buffer[i - 1]
         /\ \A i \in 0 .. length - 1 : buffer[i] \in Byte
         /\ pending = << >> => Text = BytesOf(buffer, length)
<1>1. length \in Nat /\ \A i \in 0 .. length - 1 : buffer[i] \in Byte
  BY DEF BufferInv, BufferTypeOK
<1>2. /\ BytesOf(buffer, length) \in Seq(Byte)
      /\ Len(BytesOf(buffer, length)) = length
      /\ \A i \in 1 .. length : BytesOf(buffer, length)[i] = buffer[i - 1]
  BY <1>1, BytesOfFacts
<1> QED  BY <1>1, <1>2, ConcatEmptySeq DEF Text

(* Cutting a text is a prefix of it. *)
LEMMA CutFacts ==
  ASSUME Constants, BufferInv, NEW index \in Index, Truncated(index)
  PROVE  LET old == BytesOf(buffer, length) IN
         BytesOf(buffer', length') =
           IF index \in 0 .. Len(old) THEN SubSeq(old, 1, index) ELSE old
<1> DEFINE old == BytesOf(buffer, length)
           new == BytesOf(buffer', length')
<1>1. /\ length' \in 0 .. capacity - 2 /\ capacity \in Nat
      /\ \A i \in 0 .. length' - 1 : buffer'[i] = buffer[i] /\ buffer'[i] \in Byte
      /\ length' = IF index \in 0 .. length THEN index ELSE length
  BY TruncatedKeeps DEF BufferInv, BufferTypeOK
<1>2. /\ old \in Seq(Byte) /\ Len(old) = length /\ length \in Nat
      /\ \A i \in 1 .. length : old[i] = buffer[i - 1]
  BY TextFacts
<1>3. new = BytesOf(buffer, length')
  BY <1>1, BytesOfSame
<1>4. CASE index \in 0 .. length
  <2>1. SubSeq(old, 1, index) = [i \in 1 .. index |-> old[i]]
    BY <1>2, <1>4
  <2>2. BytesOf(buffer, index) = [i \in 1 .. index |-> buffer[i - 1]]
    BY DEF BytesOf
  <2>3. \A i \in 1 .. index : old[i] = buffer[i - 1]
    BY <1>2, <1>4
  <2>4. BytesOf(buffer, index) = SubSeq(old, 1, index)
    BY <2>1, <2>2, <2>3
  <2> QED  BY <1>1, <1>2, <1>3, <1>4, <2>4
<1>5. CASE index \notin 0 .. length
  BY <1>1, <1>2, <1>3, <1>5
<1> QED  BY <1>4, <1>5

(* What is read is a prefix of the text, up to its first zero. *)
LEMMA ReadText ==
  ASSUME Constants, BufferInv, GetCharBuffer
  PROVE  \E n \in 0 .. Len(Text) :
           /\ reply' = SubSeq(Text, 1, n)
           /\ \A i \in 1 .. n : Text[i] # NUL
           /\ n = Len(Text) \/ Text[n + 1] = NUL
<1>1. PICK n \in 0 .. length :
         /\ reply' = BytesOf(buffer, n)
         /\ \A i \in 0 .. n - 1 : buffer[i] # NUL
         /\ buffer[n] = NUL
  BY ReadFacts
<1>2. pending = << >>
  BY DEF GetCharBuffer, Ready
<1>3. /\ Text \in Seq(Byte) /\ Len(Text) = length /\ length \in Nat
      /\ \A i \in 1 .. length : Text[i] = buffer[i - 1]
  BY <1>2, TextFacts
<1> HIDE DEF Text
<1>4. SubSeq(Text, 1, n) = [i \in 1 .. n |-> Text[i]]
  BY <1>3
<1>5. BytesOf(buffer, n) = [i \in 1 .. n |-> buffer[i - 1]]
  BY DEF BytesOf
<1>6. \A i \in 1 .. n : Text[i] = buffer[i - 1]
  BY <1>3
<1>7. reply' = SubSeq(Text, 1, n)
  BY <1>1, <1>4, <1>5, <1>6
<1>8. \A i \in 1 .. n : Text[i] # NUL
  BY <1>1, <1>6
<1>9. n = Len(Text) \/ Text[n + 1] = NUL
  <2>1. CASE n = length
    BY <1>3, <2>1
  <2>2. CASE n + 1 \in 1 .. length
    <3>1. Text[n + 1] = buffer[(n + 1) - 1] /\ (n + 1) - 1 = n
      BY <1>3, <2>2
    <3> QED  BY <1>1, <3>1
  <2>3. n = length \/ n + 1 \in 1 .. length
    BY <1>3
  <2> QED  BY <2>1, <2>2, <2>3
<1> QED  BY <1>3, <1>7, <1>8, <1>9

LEMMA NextImplementsText ==
  ASSUME Constants, BufferInv, BufferInv', [BufferNext]_bufferVars
  PROVE  [Abstract!Next]_(Abstract!textVars)
<1> DEFINE text == [i \in 1 .. length |-> buffer[i - 1]] \o pending
<1>1. text = Text /\ text' = Text'
  BY DEF Text, BytesOf
<1>2. ASSUME UNCHANGED <<length, buffer, pending>> PROVE text' = text
  BY <1>2
<1>3. ASSUME pending = << >> PROVE text = BytesOf(buffer, length)
  BY <1>1, <1>3, TextFacts
<1> HIDE DEF text
<1> USE DEF Abstract!Next, Abstract!textVars
<1>4. CASE InitCharBuffer
  <2>1. CASE length' = 0 /\ UNCHANGED state
    <3>1. pending' = << >> /\ state = "live" /\ reply' = reply
      BY <1>4 DEF InitCharBuffer, Ready
    <3>2. Text' = BytesOf(buffer', length')
      BY <3>1 DEF Text, BytesOf
    <3>3. text' = << >>
      BY <1>1, <2>1, <3>2 DEF BytesOf
    <3> QED  BY <2>1, <3>1, <3>3 DEF Abstract!Clear, text
  <2>2. CASE state' = "refused" /\ UNCHANGED <<length, capacity, buffer>>
    <3>1. text' = text /\ state = "live" /\ reply' = reply
      BY <1>2, <1>4, <2>2 DEF InitCharBuffer, Ready
    <3> QED  BY <2>2, <3>1 DEF text
  <2> QED  BY <1>4, <2>1, <2>2 DEF InitCharBuffer
<1>5. CASE StoreByte
  <2>1. pending # << >> /\ state = "live" /\ pending \in Seq(Byte)
    BY <1>5 DEF StoreByte, BufferInv, BufferTypeOK
  <2>2. CASE /\ state' = state /\ reply' = reply
             /\ \A i \in 0 .. length - 1 : buffer'[i] = buffer[i]
             /\ buffer'[length] = Head(pending)
             /\ length' = length + 1 /\ pending' = Tail(pending)
    <3>1. Text' = Text
      BY <2>1, <2>2, TextFacts, StoringKeepsText DEF Text
    <3> QED  BY <1>1, <2>2, <3>1 DEF text
  <2>3. CASE state' = "no_memory" /\ UNCHANGED <<length, capacity, buffer, pending, reply>>
    <3>1. text' = text
      BY <1>2, <2>3
    <3> QED  BY <2>1, <2>3, <3>1 DEF text
  <2> QED  BY <1>5, <2>2, <2>3, StoreStep
<1>6. CASE GetCharBuffer
  <2>1. text' = text /\ state = "live" /\ state' = state
    BY <1>2, <1>6 DEF GetCharBuffer, Ready
  <2>2. \E n \in 0 .. Len(text) :
          /\ reply' = SubSeq(text, 1, n)
          /\ \A i \in 1 .. n : text[i] # NUL
          /\ n = Len(text) \/ text[n + 1] = NUL
    BY <1>1, <1>6, ReadText
  <2> QED  BY <2>1, <2>2 DEF Abstract!Get, text
<1>7. CASE DestroyCharBuffer
  <2>1. text' = text /\ state = "live" /\ state' # "live" /\ reply' = reply
    BY <1>2, <1>7 DEF DestroyCharBuffer, Ready
  <2> QED  BY <2>1 DEF text
<1>8. ASSUME pending = << >>, UNCHANGED <<length, buffer>> PROVE text' = text \o pending'
  <2>1. text = BytesOf(buffer, length)
    BY <1>3, <1>8
  <2> QED  BY <1>1, <1>8, <2>1 DEF Text, BytesOf
<1>9. ASSUME NEW c \in Byte, AddChar(c) PROVE [Abstract!Next]_(Abstract!textVars)
  <2>1. /\ state = "live" /\ pending = << >> /\ pending' = <<c>>
        /\ UNCHANGED <<length, buffer, reply, state>>
    BY <1>9 DEF AddChar, Ready, StartAdding
  <2>2. text' = text \o <<c>>
    BY <1>8, <2>1
  <2> QED  BY <2>1, <2>2 DEF Abstract!Add, text
<1>10. ASSUME NEW s \in Strings, AddStr(s) PROVE [Abstract!Next]_(Abstract!textVars)
  <2>1. /\ state = "live" /\ pending = << >> /\ pending' = s
        /\ UNCHANGED <<length, buffer, reply, state>>
    BY <1>10 DEF AddStr, Ready, StartAdding
  <2>2. text' = text \o s
    BY <1>8, <2>1
  <2> QED  BY <2>1, <2>2 DEF Abstract!Add, text
<1>11. ASSUME NEW number \in Ints, AddInt(number) PROVE [Abstract!Next]_(Abstract!textVars)
  <2>1. /\ state = "live" /\ pending = << >>
        /\ UNCHANGED <<length, buffer, reply, state>>
        /\ pending' = IF LeadingZeros(number) = 4 THEN <<NUL>>
                      ELSE SubSeq(number, LeadingZeros(number) + 1, 4)
    BY <1>11 DEF AddInt, Ready, StartAdding
  <2>2. text' = text \o pending'
    BY <1>8, <2>1
  <2>3. DOMAIN number = 1 .. 4 /\ Len(number) = 4
    <3>1. number \in [1 .. 4 -> Byte]
      BY DEF Constants, BufferAssumption
    <3> QED  BY <3>1
  <2>4. PICK n \in 1 .. 4 :
          /\ pending' = SubSeq(number, n, 4)
          /\ \A i \in 1 .. n - 1 : number[i] = NUL
          /\ number[n] # NUL \/ n = 4
    BY <2>1, NumberFacts DEF Constants
  <2>5. Abstract!IsShortest(SubSeq(number, n, Len(number)), number)
    BY <2>3, <2>4 DEF Abstract!IsShortest
  <2>6. text' = text \o SubSeq(number, n, Len(number))
    BY <2>2, <2>3, <2>4
  <2> QED  BY <2>1, <2>3, <2>5, <2>6 DEF Abstract!AddNumber, text
<1>12. ASSUME NEW index \in Index, Truncated(index), pending = << >>
       PROVE  BytesOf(buffer', length') = Abstract!Until(index)
  <2>1. text = BytesOf(buffer, length)
    BY <1>3, <1>12
  <2> QED  BY <1>12, <2>1, CutFacts DEF Abstract!Until, text
<1>13. ASSUME NEW index \in Index, TruncateCharBuffer(index)
       PROVE  [Abstract!Next]_(Abstract!textVars)
  <2>1. /\ Truncated(index) /\ pending = << >> /\ pending' = << >> /\ state = "live"
        /\ UNCHANGED <<reply, state>>
    BY <1>13 DEF TruncateCharBuffer, Ready
  <2>2. Text' = BytesOf(buffer', length')
    BY <2>1, TextFacts DEF Text
  <2>3. text' = Abstract!Until(index)
    BY <1>1, <1>12, <2>1, <2>2
  <2> QED  BY <2>1, <2>3 DEF Abstract!Cut, text
<1>14. ASSUME NEW index \in Index, NEW s \in Strings, SetIndexStr(index, s)
       PROVE  [Abstract!Next]_(Abstract!textVars)
  <2>1. /\ Truncated(index) /\ pending = << >> /\ pending' = s /\ state = "live"
        /\ UNCHANGED <<reply, state>>
    BY <1>14 DEF SetIndexStr, Ready, StartAdding
  <2>2. text' = Abstract!Until(index) \o s
    BY <1>1, <1>12, <2>1 DEF Text
  <2> QED  BY <2>1, <2>2 DEF Abstract!Overwrite, text
<1>15. CASE UNCHANGED bufferVars
  <2>1. text' = text
    BY <1>2, <1>15 DEF bufferVars
  <2> QED  BY <1>15, <2>1 DEF bufferVars, text
<1> QED
  BY <1>4, <1>5, <1>6, <1>7, <1>9, <1>10, <1>11, <1>13, <1>14, <1>15 DEF BufferNext

LEMMA InitImplementsText == BufferInit => Abstract!Init
<1> SUFFICES ASSUME BufferInit PROVE Abstract!Init
  OBVIOUS
<1>1. length = 0 /\ pending = << >> /\ reply = << >> /\ state = "live"
  BY DEF BufferInit
<1>2. [i \in 1 .. length |-> buffer[i - 1]] \o pending = << >>
  BY <1>1
<1> QED  BY <1>1, <1>2 DEF Abstract!Init

(* The buffer implements the text, for texts of any length.                *)
THEOREM CharBufferImplements ==
  ASSUME Constants
  PROVE  BufferSpec => ImplementsText
<1>1. BufferInit => BufferInv
  BY InitBufferInv
<1>2. BufferInv /\ [BufferNext]_bufferVars => BufferInv'
  BY NextBufferInv
<1>3. BufferInv /\ BufferInv' /\ [BufferNext]_bufferVars
        => [Abstract!Next]_(Abstract!textVars)
  BY NextImplementsText
<1> QED
  BY <1>1, <1>2, <1>3, InitImplementsText, PTL
     DEF BufferSpec, ImplementsText, Abstract!Spec
=============================================================================
