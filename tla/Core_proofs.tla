----------------------------- MODULE Core_proofs -----------------------------
(***************************************************************************)
(* Proofs about a process of the fuzzer, for any instruction file, command *)
(* line and answers of the executor: what is in the CSV file, the output   *)
(* folder, the formatted folder and the cleaned instruction file.          *)
(*                                                                         *)
(* Base64RoundTrip comes first: the names of the files and the lines of    *)
(* the instruction file are base64 texts, and no two instructions get the  *)
(* same one.                                                               *)
(***************************************************************************)
EXTENDS Core, FiniteSetTheorems, TLAPS

-----------------------------------------------------------------------------
(* base64 *)

\* The number of characters that are not padding.
Unpadded(n) == 4 * (n \div 3) + (IF n % 3 = 0 THEN 0 ELSE (n % 3) + 1)

\* Facts about the quotients and remainders of base64, for the provers.
LEMMA Lengths ==
    ASSUME NEW n \in Nat
    PROVE  /\ Unpadded(n) \in 0..(4 * ((n + 2) \div 3))
           /\ DecodedLength(Unpadded(n)) = n
           /\ n % 3 = 0 => Unpadded(n) = 4 * ((n + 2) \div 3)
           /\ n % 3 # 0 => Unpadded(n) < 4 * ((n + 2) \div 3)
<1> DEFINE q == n \div 3
           r == n % 3
<1>1. q \in Nat /\ r \in 0..2 /\ n = 3 * q + r
  BY SMT
<1>2. (n + 2) \div 3 = IF r = 0 THEN q ELSE q + 1
  BY <1>1, SMT
<1>3. Unpadded(n) = 4 * q + (IF r = 0 THEN 0 ELSE r + 1)
  BY DEF Unpadded
<1>4. /\ Unpadded(n) \div 4 = q
      /\ Unpadded(n) % 4 = IF r = 0 THEN 0 ELSE r + 1
  BY <1>1, <1>3, SMT
<1> QED
  BY <1>1, <1>2, <1>3, <1>4, SMT DEF DecodedLength

\* A byte is taken apart into the bits of two neighbouring characters.
LEMMA Bits ==
    ASSUME NEW b \in Byte
    PROVE  /\ b \div 4 \in 0..63 /\ b % 4 \in 0..3 /\ b = (b \div 4) * 4 + (b % 4)
           /\ b \div 16 \in 0..15 /\ b % 16 \in 0..15 /\ b = (b \div 16) * 16 + (b % 16)
           /\ b \div 64 \in 0..3 /\ b % 64 \in 0..63 /\ b = (b \div 64) * 64 + (b % 64)
BY SMT DEF Byte

\* The position of an element is that of its group and that in the group.
LEMMA Grouped ==
    /\ \A i \in Nat : /\ i \div 3 \in Nat /\ i % 3 \in 0..2
                      /\ i = 3 * (i \div 3) + (i % 3)
    /\ \A i \in Nat : /\ i \div 4 \in Nat /\ i % 4 \in 0..3
                      /\ i = 4 * (i \div 4) + (i % 4)
    /\ \A q \in Nat, s \in 0..3 : (4 * q + s) \div 4 = q /\ (4 * q + s) % 4 = s
    /\ \A q \in Nat, s \in 0..2 : (3 * q + s) \div 3 = q /\ (3 * q + s) % 3 = s
BY SMT

\* The byte at i, zero past the end.
ByteAt(bytes, i) == IF i <= Len(bytes) THEN bytes[i] ELSE 0

LEMMA ByteAtType ==
    ASSUME NEW bytes \in Seq(Byte), NEW i \in Nat \ {0}
    PROVE  ByteAt(bytes, i) \in Byte
<1>1. CASE i <= Len(bytes)
  <2>1. i \in 1..Len(bytes)
    BY <1>1
  <2> QED
    BY <1>1, <2>1 DEF ByteAt
<1>2. CASE ~(i <= Len(bytes))
  BY <1>2 DEF ByteAt, Byte
<1> QED
  BY <1>1, <1>2

\* What the characters of group q are made of.
LEMMA EncodedGroup ==
    ASSUME NEW bytes \in Seq(Byte), NEW q \in Nat, NEW s \in 0..3,
           4 * q + s + 1 <= 4 * ((Len(bytes) + 2) \div 3)
    PROVE  Base64Encode(bytes)[4 * q + s + 1] =
             CASE s = 0 -> ByteAt(bytes, 3 * q + 1) \div 4
               [] s = 1 -> (ByteAt(bytes, 3 * q + 1) % 4) * 16
                             + ByteAt(bytes, 3 * q + 2) \div 16
               [] s = 2 -> IF 3 * q + 2 > Len(bytes) THEN Pad
                           ELSE (ByteAt(bytes, 3 * q + 2) % 16) * 4
                                  + ByteAt(bytes, 3 * q + 3) \div 64
               [] OTHER -> IF 3 * q + 3 > Len(bytes) THEN Pad
                           ELSE ByteAt(bytes, 3 * q + 3) % 64
<1> DEFINE j == 4 * q + s + 1
<1>1. (j - 1) \div 4 = q /\ (j - 1) % 4 = s
  <2>1. j - 1 = 4 * q + s
    OBVIOUS
  <2> QED
    BY <2>1, Grouped
<1>2. j \in 1..(4 * ((Len(bytes) + 2) \div 3))
  <2>1. (Len(bytes) + 2) \div 3 \in Nat
    BY Grouped
  <2> QED
    BY <2>1
<1> HIDE DEF j
<1>3. Base64Encode(bytes)[j] =
             CASE s = 0 -> ByteAt(bytes, 3 * q + 1) \div 4
               [] s = 1 -> (ByteAt(bytes, 3 * q + 1) % 4) * 16
                             + ByteAt(bytes, 3 * q + 2) \div 16
               [] s = 2 -> IF 3 * q + 2 > Len(bytes) THEN Pad
                           ELSE (ByteAt(bytes, 3 * q + 2) % 16) * 4
                                  + ByteAt(bytes, 3 * q + 3) \div 64
               [] OTHER -> IF 3 * q + 3 > Len(bytes) THEN Pad
                           ELSE ByteAt(bytes, 3 * q + 3) % 64
  BY <1>1, <1>2, Zenon DEF Base64Encode, ByteAt
<1> QED
  BY <1>3 DEF j

\* Where the padding starts, in terms of groups of three bytes.
LEMMA PaddingStart ==
    ASSUME NEW n \in Nat, NEW q \in Nat, NEW s \in 0..3
    PROVE  /\ 4 * q + s + 1 <= Unpadded(n) /\ s = 2 => 3 * q + 2 <= n
           /\ 4 * q + s + 1 <= Unpadded(n) /\ s = 3 => 3 * q + 3 <= n
           /\ 4 * q + s = Unpadded(n) /\ n % 3 # 0 =>
                /\ s \in {2, 3}
                /\ s = 2 => 3 * q + 2 > n
                /\ s = 3 => 3 * q + 3 > n
<1> DEFINE m == n \div 3
           r == n % 3
<1>1. m \in Nat /\ r \in 0..2 /\ n = 3 * m + r
  BY Grouped
<1>2. Unpadded(n) = 4 * m + (IF r = 0 THEN 0 ELSE r + 1)
  BY DEF Unpadded
<1> HIDE DEF m
<1>3. n % 3 = r
  OBVIOUS
<1> HIDE DEF r
<1> QED
  BY <1>1, <1>2, <1>3, SMT

\* base64_decode reads all characters of the encoding, and no padding.
LEMMA DataOfEncoded ==
    ASSUME NEW bytes \in Seq(Byte)
    PROVE  /\ DataLength(Base64Encode(bytes)) = Unpadded(Len(bytes))
           /\ Len(Base64Encode(bytes)) = 4 * ((Len(bytes) + 2) \div 3)
<1> DEFINE n    == Len(bytes)
           text == Base64Encode(bytes)
           full == 4 * ((n + 2) \div 3)
<1>1. n \in Nat /\ full \in Nat
  BY Grouped
<1>2. Unpadded(n) \in 0..full
  BY <1>1, Lengths
<1> HIDE DEF full
<1>3. Len(text) = full
  BY <1>1 DEF Base64Encode, full
<1>4. \A i \in 1..Unpadded(n) : text[i] \in Char
  <2> SUFFICES ASSUME NEW i \in 1..Unpadded(n)
               PROVE  text[i] \in Char
    OBVIOUS
  <2> DEFINE q == (i - 1) \div 4
             s == (i - 1) % 4
  <2>1. i \in Nat /\ i - 1 \in Nat /\ i <= full
    BY <1>1, <1>2
  <2>2. q \in Nat /\ s \in 0..3 /\ i = 4 * q + s + 1
    BY <2>1, Grouped
  <2> HIDE DEF q, s
  <2>3. /\ s = 2 => 3 * q + 2 <= n
        /\ s = 3 => 3 * q + 3 <= n
    BY <1>1, <2>2, PaddingStart
  <2>4. /\ ByteAt(bytes, 3 * q + 1) \in Byte
        /\ ByteAt(bytes, 3 * q + 2) \in Byte
        /\ ByteAt(bytes, 3 * q + 3) \in Byte
    BY <2>2, ByteAtType
  <2> DEFINE b1 == ByteAt(bytes, 3 * q + 1)
             b2 == ByteAt(bytes, 3 * q + 2)
             b3 == ByteAt(bytes, 3 * q + 3)
  <2>5. text[i] = CASE s = 0 -> b1 \div 4
                    [] s = 1 -> (b1 % 4) * 16 + b2 \div 16
                    [] s = 2 -> (b2 % 16) * 4 + b3 \div 64
                    [] OTHER -> b3 % 64
    <3>1. 4 * q + s + 1 <= 4 * ((Len(bytes) + 2) \div 3)
      BY <2>1, <2>2 DEF full
    <3>2. text[4 * q + s + 1] =
             CASE s = 0 -> b1 \div 4
               [] s = 1 -> (b1 % 4) * 16 + b2 \div 16
               [] s = 2 -> IF 3 * q + 2 > n THEN Pad ELSE (b2 % 16) * 4 + b3 \div 64
               [] OTHER -> IF 3 * q + 3 > n THEN Pad ELSE b3 % 64
      BY <2>2, <3>1, EncodedGroup
    <3> HIDE DEF b1, b2, b3, text, n
    <3> QED
      BY <1>1, <2>2, <2>3, <3>2
  <2>6. b1 \in Byte /\ b2 \in Byte /\ b3 \in Byte
    BY <2>4
  <2> HIDE DEF b1, b2, b3
  <2>7. /\ b1 \div 4 \in 0..63
        /\ b1 % 4 \in 0..3 /\ b2 \div 16 \in 0..15
        /\ b2 % 16 \in 0..15 /\ b3 \div 64 \in 0..3
        /\ b3 % 64 \in 0..63
    BY <2>6, Bits
  <2>8. /\ (b1 % 4) * 16 + b2 \div 16 \in 0..63
        /\ (b2 % 16) * 4 + b3 \div 64 \in 0..63
    <3>1. /\ \A x \in 0..3, y \in 0..15 : x * 16 + y \in 0..63
          /\ \A x \in 0..15, y \in 0..3 : x * 4 + y \in 0..63
      OBVIOUS
    <3> QED
      BY <2>7, <3>1, Zenon
  <2> QED
    BY <2>2, <2>5, <2>7, <2>8, Zenon DEF Char
<1>5. Unpadded(n) < Len(text) => text[Unpadded(n) + 1] \notin Char
  <2> SUFFICES ASSUME Unpadded(n) < full
               PROVE  text[Unpadded(n) + 1] \notin Char
    BY <1>3
  <2> DEFINE q == Unpadded(n) \div 4
             s == Unpadded(n) % 4
  <2>1. q \in Nat /\ s \in 0..3 /\ Unpadded(n) = 4 * q + s
    <3>1. Unpadded(n) \in Nat
      BY <1>1, <1>2
    <3> DEFINE u == Unpadded(n)
    <3> HIDE DEF u
    <3>2. u \div 4 \in Nat /\ u % 4 \in 0..3 /\ u = 4 * (u \div 4) + (u % 4)
      BY <3>1, Grouped, SMTT(30) DEF u
    <3> QED
      BY <3>2, Zenon DEF u
  <2>2. n % 3 # 0
    <3>1. n % 3 = 0 => Unpadded(n) = full
      BY <1>1, Lengths DEF full
    <3> QED
      BY <1>1, <1>2, <3>1
  <2> HIDE DEF q, s
  <2>3. /\ s \in {2, 3}
        /\ s = 2 => 3 * q + 2 > n
        /\ s = 3 => 3 * q + 3 > n
    BY <1>1, <2>1, <2>2, PaddingStart
  <2>4. 4 * q + s + 1 <= 4 * ((Len(bytes) + 2) \div 3)
    BY <1>1, <2>1 DEF full
  <2>5. text[4 * q + s + 1] = Pad
    BY <2>1, <2>3, <2>4, EncodedGroup
  <2> QED
    BY <2>1, <2>5 DEF Pad, Char
<1> HIDE DEF text
<1> DEFINE Stops(m) == /\ \A i \in 1..m : text[i] \in Char
                       /\ m < Len(text) => text[m + 1] \notin Char
<1>6. \A m \in 0..Len(text) : Stops(m) => m = Unpadded(n)
  <2> SUFFICES ASSUME NEW m \in 0..Len(text), Stops(m), m # Unpadded(n)
               PROVE  FALSE
    OBVIOUS
  <2>1. CASE m < Unpadded(n)
    <3>1. m + 1 \in 1..Unpadded(n) /\ m < Len(text)
      BY <1>1, <1>2, <1>3, <2>1
    <3> QED
      BY <1>4, <3>1
  <2>2. CASE m > Unpadded(n)
    <3>1. Unpadded(n) + 1 \in 1..m /\ Unpadded(n) < Len(text)
      BY <1>1, <1>2, <1>3, <2>2
    <3> QED
      BY <1>5, <3>1
  <2> QED
    BY <1>1, <1>2, <1>3, <2>1, <2>2
<1>7. Unpadded(n) \in 0..Len(text) /\ Stops(Unpadded(n))
  BY <1>2, <1>3, <1>4, <1>5
<1>8. DataLength(text) = Unpadded(n)
  <2>1. DataLength(text) = CHOOSE m \in 0..Len(text) : Stops(m)
    BY DEF DataLength
  <2> HIDE DEF Stops
  <2> QED
    BY <1>6, <1>7, <2>1
<1> QED
  BY <1>3, <1>8 DEF full, text

\* Two characters give back the byte they were made of.
LEMMA Joined ==
    ASSUME NEW a \in Byte, NEW b \in Byte
    PROVE  /\ (a \div 4) * 4 + ((a % 4) * 16 + b \div 16) \div 16 = a
           /\ (((a % 4) * 16 + b \div 16) % 16) * 16 + ((b % 16) * 4) \div 4 = b
           /\ \A d \in Byte :
                /\ (((a % 4) * 16 + b \div 16) % 16) * 16
                      + ((b % 16) * 4 + d \div 64) \div 4 = b
                /\ (((b % 16) * 4 + d \div 64) % 4) * 64 + (d % 64) = d
BY SMT DEF Byte

\* Whatever bytes, base64_decode gives back what base64_encode was given: a
\* file of results that is named after an encoding names it, and an instruction
\* that OutputNonFaultingInstructions writes is the one the next process loads.
THEOREM Base64RoundTrip ==
    \A bytes \in Seq(Byte) : Base64Decode(Base64Encode(bytes)) = bytes
<1> SUFFICES ASSUME NEW bytes \in Seq(Byte)
             PROVE  Base64Decode(Base64Encode(bytes)) = bytes
  OBVIOUS
<1> DEFINE n    == Len(bytes)
           text == Base64Encode(bytes)
<1>1. n \in Nat /\ DecodedLength(DataLength(text)) = n
  <2>1. n \in Nat
    OBVIOUS
  <2>2. DataLength(text) = Unpadded(n)
    BY DataOfEncoded
  <2>3. DecodedLength(Unpadded(n)) = n
    BY <2>1, Lengths
  <2> HIDE DEF n, text
  <2> QED
    BY <2>1, <2>2, <2>3
<1>2. \A k \in 1..n : Base64Decode(text)[k] = bytes[k]
  <2> SUFFICES ASSUME NEW k \in 1..n
               PROVE  Base64Decode(text)[k] = bytes[k]
    OBVIOUS
  <2> DEFINE q  == (k - 1) \div 3
             s  == (k - 1) % 3
             b1 == ByteAt(bytes, 3 * q + 1)
             b2 == ByteAt(bytes, 3 * q + 2)
             b3 == ByteAt(bytes, 3 * q + 3)
  <2>1. q \in Nat /\ s \in 0..2 /\ k = 3 * q + s + 1
    <3>1. k - 1 \in Nat
      BY <1>1
    <3> QED
      BY <3>1, Grouped
  <2>2. Base64Decode(text)[k] =
          CASE s = 0 -> text[4 * q + 1] * 4 + text[4 * q + 2] \div 16
            [] s = 1 -> (text[4 * q + 2] % 16) * 16 + text[4 * q + 3] \div 4
            [] OTHER -> (text[4 * q + 3] % 4) * 64 + text[4 * q + 4]
    BY <1>1, Zenon DEF Base64Decode
  <2> HIDE DEF q, s
  <2>3. bytes[k] = CASE s = 0 -> b1 [] s = 1 -> b2 [] OTHER -> b3
    BY <1>1, <2>1 DEF ByteAt
  <2>4. b1 \in Byte /\ b2 \in Byte /\ b3 \in Byte
    BY <2>1, ByteAtType
  <2>5. \A t \in 0..3 : 4 * q + t + 1 <= 4 * ((n + 2) \div 3)
    <3>1. /\ (n + 2) \div 3 \in Nat /\ (n + 2) % 3 \in 0..2
          /\ n + 2 = 3 * ((n + 2) \div 3) + ((n + 2) % 3)
      BY <1>1, Grouped
    <3> DEFINE g == (n + 2) \div 3
               h == (n + 2) % 3
    <3>2. g \in Nat /\ h \in 0..2 /\ n + 2 = 3 * g + h
      BY <3>1
    <3> HIDE DEF g, h
    <3>3. q + 1 <= g
      BY <1>1, <2>1, <3>2
    <3>4. \A t \in 0..3 : 4 * q + t + 1 <= 4 * g
      BY <2>1, <3>2, <3>3
    <3> QED
      BY <3>4 DEF g
  <2>6. /\ text[4 * q + 1] = b1 \div 4
        /\ text[4 * q + 2] = (b1 % 4) * 16 + b2 \div 16
    <3>1. /\ text[4 * q + 0 + 1] = b1 \div 4
          /\ text[4 * q + 1 + 1] = (b1 % 4) * 16 + b2 \div 16
      BY <2>1, <2>5, EncodedGroup
    <3>2. 4 * q + 0 + 1 = 4 * q + 1 /\ 4 * q + 1 + 1 = 4 * q + 2
      BY <2>1
    <3> QED
      BY <3>1, <3>2
  <2>7. s # 0 => text[4 * q + 3] = (b2 % 16) * 4 + b3 \div 64
    <3>1. text[4 * q + 2 + 1] = IF 3 * q + 2 > n THEN Pad ELSE (b2 % 16) * 4 + b3 \div 64
      BY <2>1, <2>5, EncodedGroup
    <3>2. 4 * q + 2 + 1 = 4 * q + 3 /\ (s # 0 => 3 * q + 2 <= n)
      BY <1>1, <2>1
    <3> QED
      BY <1>1, <2>1, <3>1, <3>2
  <2>8. s = 2 => text[4 * q + 4] = b3 % 64
    <3>1. text[4 * q + 3 + 1] = IF 3 * q + 3 > n THEN Pad ELSE b3 % 64
      BY <2>1, <2>5, EncodedGroup
    <3>2. 4 * q + 3 + 1 = 4 * q + 4 /\ (s = 2 => 3 * q + 3 <= n)
      BY <1>1, <2>1
    <3> QED
      BY <1>1, <2>1, <3>1, <3>2
  <2> HIDE DEF b1, b2, b3, text, n
  <2> QED
    BY <2>1, <2>2, <2>3, <2>4, <2>6, <2>7, <2>8, Joined
<1>3. Base64Decode(text) = [k \in 1..n |-> Base64Decode(text)[k]]
  BY <1>1 DEF Base64Decode
<1>4. bytes = [k \in 1..n |-> bytes[k]]
  OBVIOUS
<1> QED
  BY <1>2, <1>3, <1>4

-----------------------------------------------------------------------------
(* The invariant *)

Search == job \in {"all", "equal"}

\* What the process was started with.
GivenInv ==
    /\ [list |-> list, argv |-> argv, answers |-> answers] \in Processes
    /\ mode = "main" <=> job = "none"
    /\ mode # "main" => job = Job(ParseArguments(argv))

\* Where the loops are.
Position ==
    /\ at = <<Measurement, Trigger, Reset>>
    /\ Measurement \in 1..(N + 1) /\ Trigger \in 1..(N + 1) /\ Reset \in 1..(N + 1)
    /\ job = "all" /\ Measurement <= N => Trigger <= N
    /\ job = "equal" => Trigger = Measurement
    /\ job = "cleanup" => Trigger = Measurement /\ Reset = Measurement

ModeInv ==
    /\ mode \in {"main", "combination", "reset", "formatting", "writing", "done", "killed"}
    /\ mode = "writing" => job = "cleanup" /\ Measurement > N
    /\ mode = "combination" => Search \/ job = "cleanup"
    /\ mode = "reset" => /\ Search /\ Measurement <= N /\ Reset <= N
                        /\ ~Sleep(Trigger) /\ Passes(answers[at])
    /\ mode = "formatting" => job = "equal"
    /\ mode = "formatting" \/ (mode = "done" /\ (Search \/ job = "cleanup"))
          => Measurement > N

\* Nothing has been done.
StartInv ==
    mode = "main" =>
        /\ at = <<1, 1, 1>> /\ csv = <<>> /\ stream = <<>> /\ folder = <<>>
        /\ survivors = <<>> /\ cleaned = Old

\* The lines of the CSV file are the hits that were passed, in their order.
CsvInv ==
    /\ csv \in Seq(Lines)
    /\ Search =>
          /\ {csv[i].combination : i \in 1..Len(csv)} = {c \in Hits : Precedes(c, at)}
          /\ \A i \in 1..Len(csv) :
                /\ csv[i].timing = answers[csv[i].combination].result
                /\ \A j \in 1..(i - 1) : Precedes(csv[j].combination, csv[i].combination)

FileLines == [reset : {Text(i) : i \in 1..N}, timing : Int]

\* Each file, and the stream that is to be the next one, has lines of that form.
FilesInv ==
    /\ stream \in Seq(FileLines)
    /\ IsFiniteSet(DOMAIN folder)
    /\ folder = [name \in DOMAIN folder |-> folder[name]]
    /\ \A name \in DOMAIN folder :
          /\ \E i \in 1..N : name = Text(i)
          /\ folder[name] \in Seq(FileLines)

\* Every trigger has a file of its own.
OwnFiles ==
    /\ \A i, j \in 1..N : list[i].byte_representation = list[j].byte_representation => i = j
    /\ \A i \in 1..N : Slash \notin ToSet(Text(i))

\* What the folder holds are the lines of the triggers that were passed.
FolderInv ==
    job = "equal" =>
        /\ AreOf(stream, Trigger)
        /\ OwnFiles =>
              /\ DOMAIN folder = {Text(t) : t \in {s \in 1..N : s < Trigger /\ OfTrigger(s) # {}}}
              /\ \A t \in 1..N : t < Trigger /\ OfTrigger(t) # {} => AreOf(folder[Text(t)], t)

\* Each file that was formatted has one with a number of its own.
FormattedInv ==
    /\ toformat \subseteq DOMAIN folder
    /\ mode \in {"main", "combination", "reset", "writing"} => formatted = <<>> /\ toformat = {}
    /\ mode = "formatting" \/ (mode = "done" /\ job = "equal") =>
          /\ IsFiniteSet(DOMAIN formatted)
          /\ Cardinality(DOMAIN formatted) = Cardinality(DOMAIN folder \ toformat)
          /\ \A f \in DOMAIN formatted :
                f[2] \in Nat /\ f[2] < Cardinality(DOMAIN folder \ toformat)
          /\ \A name \in DOMAIN folder \ toformat :
                \E f \in DOMAIN formatted : formatted[f] = Formatted(name)
    /\ mode = "done" => toformat = {}

\* The instructions before one that raised no fault.
Harmless(m) == {i \in 1..N : i < m /\ answers[<<i, i, i>>].error = 0}

\* The first lines of the cleaned file, for a number of survivors.
Written(n) == [k \in 1..n |-> Text(survivors[k])]

\* The file is the old one, or has been opened and written to as far as the loop is.
CleanedInv ==
    \/ cleaned = Old /\ mode \notin {"writing", "done"}
    \/ /\ Measurement > N /\ mode \in {"writing", "done", "killed"}
       /\ \E n \in 0..Len(survivors), h \in BOOLEAN :
             /\ cleaned = [header |-> h, lines |-> Written(n)]
             /\ n > 0 => h
             /\ mode = "done" => n = Len(survivors) /\ (h => n > 0)
             /\ mode = "writing" => Len(survivors) > 0

\* The survivors are the harmless instructions that were passed, in their order.
SurvivorsInv ==
    /\ survivors \in Seq(1..N)
    /\ job = "cleanup" =>
          /\ Len(survivors) = Cardinality(Harmless(Measurement))
          /\ \A i \in Harmless(Measurement) :
                survivors[Rank(Harmless(Measurement), i)] = i
          /\ CleanedInv

Inv ==
    /\ GivenInv /\ Position /\ ModeInv /\ StartInv
    /\ CsvInv /\ FilesInv /\ FolderInv /\ FormattedInv /\ SurvivorsInv

-----------------------------------------------------------------------------
(* What the process is given *)

LEMMA GivenFacts ==
    ASSUME GivenInv
    PROVE  /\ N \in Nat /\ DOMAIN list = 1..N
           /\ \A i \in 1..N : Instruction(list[i])
           /\ Len(argv) \in Nat /\ DOMAIN argv = 1..Len(argv)
           /\ DOMAIN answers = Combinations(Job(ParseArguments(argv)), N)
           /\ \A c \in DOMAIN answers : Answer(answers[c])
<1> DEFINE p == [list |-> list, argv |-> argv, answers |-> answers]
<1>1. Process(p)
  BY ProcessesAssumption DEF GivenInv
<1>2. p.list = list /\ p.argv = argv /\ p.answers = answers
  OBVIOUS
<1> HIDE DEF p
<1> QED
  BY <1>1, <1>2 DEF Process, N

\* The combinations of a search or a cleanup.
LEMMA GivenCombinations ==
    ASSUME GivenInv, mode # "main"
    PROVE  /\ job = "all" => DOMAIN answers = (1..N) \X (1..N) \X (1..N)
           /\ job = "equal" => DOMAIN answers = {c \in (1..N) \X (1..N) \X (1..N) : c[1] = c[2]}
           /\ job = "cleanup" =>
                DOMAIN answers
                  = {c \in (1..N) \X (1..N) \X (1..N) : c[1] = c[2] /\ c[2] = c[3]}
<1>1. DOMAIN answers = Combinations(job, N)
  BY GivenFacts DEF GivenInv
<1> QED
  BY <1>1 DEF Combinations

\* Main chooses one of the jobs.
LEMMA JobType == \A args : Job(args) \in Jobs
BY DEF Job, Jobs

\* The names of the instructions.
LEMMA TextDecoded ==
    ASSUME GivenInv, NEW i \in 1..N
    PROVE  Base64Decode(Text(i)) = list[i].byte_representation
BY GivenFacts, Base64RoundTrip DEF Text, Instruction

LEMMA TextNames ==
    ASSUME GivenInv, NEW i \in 1..N, NEW j \in 1..N, Text(i) = Text(j)
    PROVE  list[i].byte_representation = list[j].byte_representation
BY TextDecoded

-----------------------------------------------------------------------------
(* Sets of numbers in their order *)

LEMMA RankType ==
    ASSUME NEW S, IsFiniteSet(S), S \subseteq Int, NEW i \in S
    PROVE  Rank(S, i) \in 1..Cardinality(S)
<1> DEFINE T == {j \in S : j <= i}
<1>1. T \in SUBSET S /\ i \in T
  OBVIOUS
<1>2. IsFiniteSet(T) /\ Cardinality(T) <= Cardinality(S)
  BY <1>1, FS_Subset
<1>3. Cardinality(T) \in Nat /\ Cardinality(S) \in Nat
  BY <1>2, FS_CardinalityType
<1>4. Cardinality(T) # 0
  BY <1>1, <1>2, FS_EmptySet
<1> QED
  BY <1>2, <1>3, <1>4 DEF Rank

\* One more number that is above all.
LEMMA RankExtended ==
    ASSUME NEW S, IsFiniteSet(S), S \subseteq Int, NEW n \in Int, \A i \in S : i < n
    PROVE  /\ IsFiniteSet(S \cup {n})
           /\ Cardinality(S \cup {n}) = Cardinality(S) + 1
           /\ \A i \in S : Rank(S \cup {n}, i) = Rank(S, i)
           /\ Rank(S \cup {n}, n) = Cardinality(S) + 1
<1>1. IsFiniteSet(S \cup {n}) /\ Cardinality(S \cup {n}) = Cardinality(S) + 1
  <2>1. n \notin S
    OBVIOUS
  <2> QED
    BY <2>1, FS_AddElement
<1>2. ASSUME NEW i \in S
      PROVE  Rank(S \cup {n}, i) = Rank(S, i)
  <2>1. {j \in S \cup {n} : j <= i} = {j \in S : j <= i}
    OBVIOUS
  <2> QED
    BY <2>1 DEF Rank
<1>3. {j \in S \cup {n} : j <= n} = S \cup {n}
  <2>1. \A j \in S \cup {n} : j <= n
    OBVIOUS
  <2> QED
    BY <2>1
<1>4. Rank(S \cup {n}, n) = Cardinality(S) + 1
  BY <1>1, <1>3 DEF Rank
<1> QED
  BY <1>1, <1>2, <1>4

\* The order of the loops.
LEMMA PrecedesNext ==
    ASSUME NEW m \in Int, NEW t \in Int, NEW r \in Int,
           NEW c \in Int \X Int \X Int
    PROVE  /\ ~Precedes(<<m, t, r>>, <<m, t, r>>)
           /\ Precedes(c, <<m, t, r + 1>>) <=> Precedes(c, <<m, t, r>>) \/ c = <<m, t, r>>
<1>1. PICK x \in Int, y \in Int, z \in Int : c = <<x, y, z>>
  OBVIOUS
<1>2. /\ Precedes(c, <<m, t, r + 1>>)
           <=> (x < m \/ (x = m /\ y < t) \/ (x = m /\ y = t /\ z < r + 1))
      /\ Precedes(c, <<m, t, r>>)
           <=> (x < m \/ (x = m /\ y < t) \/ (x = m /\ y = t /\ z < r))
      /\ c = <<m, t, r>> <=> x = m /\ y = t /\ z = r
  BY <1>1 DEF Precedes
<1>3. ~Precedes(<<m, t, r>>, <<m, t, r>>)
  BY DEF Precedes
<1> QED
  BY <1>2, <1>3

-----------------------------------------------------------------------------
(* The loops *)

\* The numbers of a place in the loops.
LEMMA PositionType ==
    ASSUME GivenInv, Position
    PROVE  N \in Nat /\ Measurement \in Int /\ Trigger \in Int /\ Reset \in Int
BY GivenFacts DEF Position

LEMMA AtCombination ==
    ASSUME GivenInv, Position, ModeInv, Search, mode # "main", Measurement <= N, Reset <= N
    PROVE  at \in DOMAIN answers
<1>1. Measurement \in 1..N /\ Trigger \in 1..N /\ Reset \in 1..N
  BY PositionType DEF Position, Search
<1>2. at = <<Measurement, Trigger, Reset>>
  BY DEF Position
<1>3. CASE job = "all"
  BY <1>1, <1>2, <1>3, GivenCombinations
<1>4. CASE job = "equal"
  <2>1. at[1] = at[2]
    BY <1>4 DEF Position, Measurement, Trigger
  <2> QED
    BY <1>1, <1>2, <1>4, <2>1, GivenCombinations
<1> QED
  BY <1>3, <1>4 DEF Search

\* A combination of a search is three numbers, and the first two are the same when
\* triggers are tested alone.
LEMMA SearchCombination ==
    ASSUME GivenInv, Search, mode # "main", NEW c \in DOMAIN answers
    PROVE  /\ c \in (1..N) \X (1..N) \X (1..N)
           /\ job = "equal" => c[1] = c[2]
BY GivenCombinations DEF Search

\* The next reset: what is passed is the combination at hand.
LEMMA PassedReset ==
    ASSUME GivenInv, Position, Search, mode # "main"
    PROVE  {c \in Hits : Precedes(c, NextReset)}
             = {c \in Hits : Precedes(c, at)} \cup {c \in Hits : c = at}
<1>1. ASSUME NEW c \in Hits
      PROVE  Precedes(c, NextReset) <=> Precedes(c, at) \/ c = at
  <2>1. c \in (1..N) \X (1..N) \X (1..N) /\ N \in Nat
    BY SearchCombination, GivenFacts DEF Hits
  <2>2. c \in Int \X Int \X Int
    BY <2>1
  <2>3. at = <<Measurement, Trigger, Reset>>
    BY DEF Position
  <2>4. Measurement \in Int /\ Trigger \in Int /\ Reset \in Int
    BY PositionType
  <2> DEFINE m == Measurement
             t == Trigger
             r == Reset
  <2>5. Precedes(c, <<m, t, r + 1>>) <=> Precedes(c, <<m, t, r>>) \/ c = <<m, t, r>>
    <3> HIDE DEF m, t, r
    <3>1. m \in Int /\ t \in Int /\ r \in Int
      BY <2>4 DEF m, t, r
    <3> QED
      BY <2>2, <3>1, PrecedesNext
  <2> QED
    BY <2>3, <2>5 DEF NextReset
<1> QED
  BY <1>1

\* The next trigger: nothing is passed but what cannot be a hit.
LEMMA PassedTrigger ==
    ASSUME GivenInv, Position, InLoop, Search, mode # "main", Reset > N \/ Sleep(Trigger)
    PROVE  {c \in Hits : Precedes(c, NextTrigger)} = {c \in Hits : Precedes(c, at)}
<1>1. N \in Nat /\ Measurement \in 1..N /\ Trigger \in 1..N /\ Reset \in 1..(N + 1)
      /\ (job = "equal" => Trigger = Measurement)
  BY PositionType DEF Position, InLoop, Search
<1>2. at = <<Measurement, Trigger, Reset>>
  BY DEF Position
<1> SUFFICES ASSUME NEW c \in Hits
             PROVE  Precedes(c, NextTrigger) <=> Precedes(c, at)
  OBVIOUS
<1>3. /\ c \in (1..N) \X (1..N) \X (1..N)
      /\ job = "equal" => c[1] = c[2]
      /\ ~Sleep(c[2])
  BY SearchCombination DEF Hits, Sleep
<1>4. PICK x \in 1..N, y \in 1..N, z \in 1..N : c = <<x, y, z>>
  BY <1>3
<1> DEFINE m == Measurement
           t == Trigger
           r == Reset
<1>5. (job = "equal" => x = y /\ t = m) /\ (y = t => r > N)
  BY <1>1, <1>3, <1>4
<1>6. Precedes(c, at) <=> (x < m \/ (x = m /\ y < t) \/ (x = m /\ y = t /\ z < r))
  BY <1>2, <1>4 DEF Precedes
<1>7. Precedes(c, NextTrigger)
        <=> IF job = "equal" THEN x < t + 1 \/ (x = t + 1 /\ y < t + 1)
            ELSE IF t < N THEN x < m \/ (x = m /\ y < t + 1)
            ELSE x < m + 1
  <2>1. CASE job = "equal"
    <3>1. NextTrigger = <<t + 1, t + 1, 1>>
      BY <2>1 DEF NextTrigger
    <3> HIDE DEF t
    <3>2. Precedes(c, NextTrigger) <=> \/ x < t + 1 \/ (x = t + 1 /\ y < t + 1)
                                       \/ (x = t + 1 /\ y = t + 1 /\ z < 1)
      BY <1>4, <3>1 DEF Precedes
    <3> QED
      BY <2>1, <3>2
  <2>2. CASE job # "equal" /\ t < N
    <3>1. NextTrigger = <<m, t + 1, 1>>
      BY <2>2 DEF NextTrigger
    <3>2. Precedes(c, NextTrigger) <=> \/ x < m \/ (x = m /\ y < t + 1)
                                       \/ (x = m /\ y = t + 1 /\ z < 1)
      BY <1>4, <3>1 DEF Precedes
    <3> QED
      BY <2>2, <3>2
  <2>3. CASE job # "equal" /\ ~(t < N)
    <3>1. NextTrigger = <<m + 1, 1, 1>>
      BY <2>3 DEF NextTrigger
    <3>2. Precedes(c, NextTrigger) <=> \/ x < m + 1 \/ (x = m + 1 /\ y < 1)
                                       \/ (x = m + 1 /\ y = 1 /\ z < 1)
      BY <1>4, <3>1 DEF Precedes
    <3> QED
      BY <2>3, <3>2
  <2> QED
    BY <2>1, <2>2, <2>3
<1> HIDE DEF m, t, r
<1>8. m \in 1..N /\ t \in 1..N /\ r \in 1..(N + 1)
  BY <1>1 DEF m, t, r
<1> QED
  BY <1>1, <1>5, <1>6, <1>7, <1>8

\* The next place is one.
LEMMA NextPosition ==
    ASSUME GivenInv, Position, Search, mode # "main", InLoop,
           UNCHANGED given,
           \/ at' = NextReset /\ Reset <= N
           \/ at' = NextTrigger
    PROVE  Position'
<1>1. N \in Nat /\ Measurement \in 1..N /\ Trigger \in 1..N /\ Reset \in 1..(N + 1)
      /\ (job = "equal" => Trigger = Measurement)
  BY PositionType DEF Position, InLoop, Search
<1>2. N' = N /\ job' = job
  BY DEF N, given
<1>3. ASSUME NEW m \in 1..(N + 1), NEW t \in 1..(N + 1), NEW r \in 1..(N + 1),
             at' = <<m, t, r>>, job = "all" /\ m <= N => t <= N, job = "equal" => t = m
      PROVE  Position'
  BY <1>2, <1>3 DEF Position, Measurement, Trigger, Reset, Search
<1>4. CASE at' = NextReset /\ Reset <= N
  <2>1. Reset + 1 \in 1..(N + 1)
    BY <1>1, <1>4
  <2> QED
    BY <1>1, <1>3, <1>4, <2>1 DEF NextReset
<1>5. CASE at' = NextTrigger
  <2>1. CASE job = "equal"
    BY <1>1, <1>3, <1>5, <2>1 DEF NextTrigger
  <2>2. CASE job # "equal" /\ Trigger < N
    BY <1>1, <1>3, <1>5, <2>2 DEF NextTrigger
  <2>3. CASE job # "equal" /\ ~(Trigger < N)
    BY <1>1, <1>3, <1>5, <2>3 DEF NextTrigger
  <2> QED
    BY <2>1, <2>2, <2>3
<1> QED
  BY <1>4, <1>5

-----------------------------------------------------------------------------
(* The steps *)

LEMMA InitInv == Init => Inv
<1> SUFFICES ASSUME Init PROVE Inv
  OBVIOUS
<1>1. PICK p \in Processes : list = p.list /\ argv = p.argv /\ answers = p.answers
  BY DEF Init
<1>2. p = [list |-> p.list, argv |-> p.argv, answers |-> p.answers]
  BY <1>1, ProcessesAssumption DEF Process
<1>3. [list |-> list, argv |-> argv, answers |-> answers] = p
  BY <1>1, <1>2
<1>4. GivenInv
  BY <1>1, <1>3 DEF GivenInv, Init
<1>5. N \in Nat
  BY <1>4, GivenFacts
<1>6. Position
  <2>1. at = <<1, 1, 1>> /\ job = "none" /\ 1 \in 1..(N + 1)
    BY <1>5 DEF Init
  <2> QED
    BY <2>1 DEF Position, Measurement, Trigger, Reset
<1>7. CsvInv /\ FilesInv /\ FolderInv /\ SurvivorsInv
  <2>1. job = "none" /\ csv = <<>> /\ stream = <<>> /\ folder = <<>> /\ survivors = <<>>
    BY DEF Init
  <2>2. DOMAIN folder = {} /\ IsFiniteSet({})
    BY <2>1, FS_EmptySet
  <2>3. folder = [name \in DOMAIN folder |-> folder[name]]
    BY <2>1, <2>2
  <2> QED
    BY <2>1, <2>2, <2>3 DEF CsvInv, FilesInv, FolderInv, SurvivorsInv, Search
<1>8. ModeInv /\ StartInv /\ FormattedInv
  BY DEF ModeInv, StartInv, FormattedInv, Init
<1> QED
  BY <1>4, <1>6, <1>7, <1>8 DEF Inv

LEMMA MainInv == ASSUME Inv, Main PROVE Inv'
<1> USE DEF given, found, shown, kept
<1>1. /\ mode = "main" /\ job' = Job(ParseArguments(argv))
      /\ mode' = IF job' \in {"cleanup", "all", "equal"} THEN "combination" ELSE "done"
      /\ UNCHANGED <<list, argv, answers, at, found, shown, kept>>
      /\ GivenInv
  BY DEF Main, Inv
<1>2. /\ at = <<1, 1, 1>> /\ csv = <<>> /\ stream = <<>> /\ folder = <<>>
      /\ survivors = <<>> /\ cleaned = Old
      /\ formatted = <<>> /\ toformat = {}
  BY <1>1 DEF Inv, StartInv, FormattedInv
<1>3. job' # "none"
  BY <1>1, JobType DEF Jobs
<1>4. GivenInv'
  BY <1>1, <1>3 DEF GivenInv
<1>5. N' = N /\ N \in Nat /\ DOMAIN answers = Combinations(job', N)
  BY <1>1, GivenFacts DEF N
<1>6. Position'
  <2>1. at' = <<1, 1, 1>> /\ 1 \in 1..(N' + 1) /\ (1 <= N' => 1 <= N')
    BY <1>1, <1>2, <1>5
  <2> QED
    BY <2>1 DEF Position, Measurement, Trigger, Reset
<1>7. ModeInv' /\ StartInv' /\ FormattedInv'
  BY <1>1, <1>2 DEF ModeInv, StartInv, FormattedInv, Search
<1>8. CsvInv'
  <2>1. csv' = <<>> /\ at' = <<1, 1, 1>>
    BY <1>1, <1>2
  <2>2. ASSUME Search', NEW c \in Hits', Precedes(c, at') PROVE FALSE
    <3>1. c \in (1..N) \X (1..N) \X (1..N)
      BY <1>1, <1>5, <2>2 DEF Search, Hits, Combinations
    <3> QED
      BY <1>5, <2>1, <2>2, <3>1 DEF Precedes
  <2> QED
    BY <2>1, <2>2 DEF CsvInv
<1>9. FilesInv' /\ SurvivorsInv' /\ FolderInv'
  <2>1. stream' = <<>> /\ folder' = <<>> /\ survivors' = <<>> /\ csv' = <<>> /\ cleaned' = Old
    BY <1>1, <1>2
  <2>2. DOMAIN folder' = {} /\ IsFiniteSet({}) /\ Cardinality({}) = 0
    BY <2>1, FS_EmptySet
  <2>3. \A t : OfTrigger(t)' = {}
    BY <2>1 DEF OfTrigger
  <2>4. FilesInv'
    <3>1. folder' = [name \in DOMAIN folder' |-> folder'[name]]
      BY <2>1, <2>2
    <3> QED
      BY <2>1, <2>2, <3>1 DEF FilesInv
  <2>5. FolderInv'
    <3>1. Len(stream') = 0
      BY <2>1
    <3>2. AreOf(stream, Trigger)'
      BY <2>1, <2>2, <3>1 DEF AreOf, OfTrigger
    <3>3. Trigger' = 1
      BY <1>1, <1>2 DEF Trigger
    <3> QED
      BY <2>2, <3>2, <3>3 DEF FolderInv
  <2>6. SurvivorsInv'
    <3>1. job' = "cleanup" => Harmless(Measurement)' = {} /\ mode' = "combination"
      BY <1>1, <1>2, <1>5 DEF Harmless, Measurement
    <3>2. Len(survivors') = 0 /\ survivors' \in Seq(1..N)
      BY <2>1
    <3> QED
      BY <1>1, <1>5, <2>1, <2>2, <3>1, <3>2 DEF SurvivorsInv, CleanedInv
  <2> QED
    BY <2>4, <2>5, <2>6
<1> QED
  BY <1>4, <1>6, <1>7, <1>8, <1>9 DEF Inv

\* What a step leaves as it was.
LEMMA SameGiven ==
    ASSUME Inv, UNCHANGED given, mode # "main", mode' # "main"
    PROVE  GivenInv' /\ StartInv' /\ N' = N /\ Hits' = Hits /\ Lines' = Lines /\ job' = job
           /\ FileLines' = FileLines /\ Search' = Search /\ (OwnFiles' <=> OwnFiles)
BY DEF Inv, given, GivenInv, StartInv, N, Hits, Lines, FileLines, Text, Search, OwnFiles

LEMMA SameFolder ==
    ASSUME Inv, UNCHANGED <<given, csv, stream, folder>>, Trigger' = Trigger
    PROVE  FolderInv' /\ FilesInv'
<1> USE DEF given
<1>1. \A i : Text(i)' = Text(i)
  BY DEF Text
<1>2. N' = N /\ FileLines' = FileLines /\ (OwnFiles' <=> OwnFiles)
  BY <1>1 DEF N, FileLines, OwnFiles
<1>3. FilesInv'
  BY <1>1, <1>2 DEF Inv, FilesInv
<1>4. \A t : OfTrigger(t)' = OfTrigger(t)
  BY DEF OfTrigger
<1>5. AreOf(stream, Trigger) => AreOf(stream, Trigger)'
  BY DEF AreOf, OfTrigger, Rank, Result, Text
<1>6. \A t : AreOf(folder[Text(t)], t) => AreOf(folder[Text(t)], t)'
  BY <1>1 DEF AreOf, OfTrigger, Rank, Result, Text
<1>7. FolderInv'
  BY <1>1, <1>2, <1>4, <1>5, <1>6 DEF Inv, FolderInv
<1> QED
  BY <1>3, <1>7

LEMMA SameFormatted ==
    ASSUME Inv, UNCHANGED <<given, formatted, toformat>>,
           mode \in {"combination", "reset"}, mode' \in {"combination", "reset", "killed"},
           DOMAIN folder \subseteq DOMAIN folder'
    PROVE  FormattedInv'
BY DEF Inv, given, FormattedInv

LEMMA SameSurvivors ==
    ASSUME Inv, UNCHANGED <<given, kept>>,
           job # "cleanup" \/ (at' = at /\ (mode' = mode \/ mode' = "killed"))
    PROVE  SurvivorsInv'
<1>1. /\ Harmless(Measurement)' = Harmless(Measurement) \/ job # "cleanup"
      /\ N' = N /\ job' = job /\ survivors' = survivors /\ cleaned' = cleaned
      /\ \A S, i : Rank(S, i)' = Rank(S, i)
  BY DEF given, kept, Harmless, N, Measurement, Rank
<1>2. job = "cleanup" => Measurement' = Measurement /\ (mode' = mode \/ mode' = "killed")
  BY DEF Measurement
<1>3. \A n : Written(n)' = Written(n)
  BY <1>1 DEF given, Written, Text
<1>4. job = "cleanup" /\ CleanedInv => CleanedInv'
  BY <1>1, <1>2, <1>3 DEF CleanedInv
<1> QED
  BY <1>1, <1>4 DEF Inv, SurvivorsInv, Rank

\* A search has passed no further hit.
LEMMA NoHitPassed ==
    ASSUME Inv, UNCHANGED <<given, csv>>, mode # "main", mode' # "main",
           Search => {c \in Hits : Precedes(c, at')} = {c \in Hits : Precedes(c, at)}
    PROVE  CsvInv'
BY SameGiven DEF Inv, given, CsvInv

\* The lines for the next triggers are still to come.
LEMMA NoneOfNext ==
    ASSUME Inv, job = "equal", mode # "main", NEW t \in Int, t > Trigger
    PROVE  OfTrigger(t) = {}
<1> SUFFICES ASSUME NEW i \in DOMAIN csv, csv[i].combination[2] = t
             PROVE  FALSE
  BY DEF OfTrigger
<1> DEFINE c == csv[i].combination
<1>1. i \in 1..Len(csv)
  BY DEF Inv, CsvInv
<1>2. c \in Hits /\ Precedes(c, at)
  BY <1>1 DEF Inv, CsvInv, Search
<1>3. c \in (1..N) \X (1..N) \X (1..N) /\ c[1] = c[2] /\ N \in Nat
  BY <1>2, SearchCombination, GivenFacts DEF Hits, Inv, Search
<1>4. Trigger = Measurement /\ Trigger \in Int
  BY PositionType DEF Inv, Position
<1>5. c[1] <= Trigger
  BY <1>2, <1>3, <1>4 DEF Precedes, Measurement, Trigger, Reset
<1> QED
  BY <1>3, <1>4, <1>5

LEMMA SkipSleepInv == ASSUME Inv, SkipSleep PROVE Inv'
<1>1. /\ mode = "combination" /\ mode' = mode /\ Search /\ InLoop /\ Sleep(Trigger)
      /\ at' = NextTrigger
      /\ UNCHANGED <<given, found, shown, kept>>
  BY DEF SkipSleep, InLoop, Inv, ModeInv, Search
<1>2. UNCHANGED <<given, csv, stream, folder, formatted, toformat>>
  BY <1>1 DEF found, shown
<1>3. GivenInv /\ Position /\ ModeInv
  BY DEF Inv
<1>4. GivenInv' /\ StartInv' /\ N' = N /\ job' = job /\ FileLines' = FileLines
      /\ (OwnFiles' <=> OwnFiles)
  BY <1>1, SameGiven
<1>5. Position'
  BY <1>1, <1>3, NextPosition
<1>6. ModeInv'
  BY <1>1, <1>3, <1>4 DEF ModeInv, Search
<1>7. CsvInv'
  <2>1. {c \in Hits : Precedes(c, NextTrigger)} = {c \in Hits : Precedes(c, at)}
    BY <1>1, <1>3, PassedTrigger
  <2> QED
    BY <1>1, <1>2, <2>1, NoHitPassed
<1>8. FilesInv'
  BY <1>2, <1>4 DEF Inv, FilesInv, Text, given
<1>9. FolderInv'
  <2> SUFFICES ASSUME job = "equal" PROVE FolderInv'
    BY <1>4 DEF FolderInv
  <2>1. Trigger' = Trigger + 1 /\ Trigger \in Int /\ Trigger + 1 > Trigger
    BY <1>1, <1>3, PositionType DEF NextTrigger, Trigger
  <2>2. OfTrigger(Trigger + 1) = {}
    BY <1>1, <2>1, NoneOfNext
  <2>3. OfTrigger(Trigger) = {}
    <3> SUFFICES ASSUME NEW i \in DOMAIN csv, csv[i].combination[2] = Trigger
                 PROVE  FALSE
      BY DEF OfTrigger
    <3>1. csv[i].combination \in Hits
      BY <1>1 DEF Inv, CsvInv
    <3> QED
      BY <1>1, <3>1 DEF Hits, Sleep
  <2>4. \A t : OfTrigger(t)' = OfTrigger(t)
    BY <1>2 DEF OfTrigger
  <2>5. AreOf(stream, Trigger)'
    <3>1. Len(stream) = Cardinality(OfTrigger(Trigger))
      BY DEF Inv, FolderInv, AreOf
    <3>2. Len(stream') = Cardinality({})
      BY <1>2, <2>3, <3>1
    <3>3. OfTrigger(Trigger)' = {}
      BY <1>2, <2>1, <2>2 DEF OfTrigger
    <3> QED
      BY <3>2, <3>3 DEF AreOf
  <2>6. ASSUME OwnFiles
        PROVE  /\ DOMAIN folder'
                    = {Text(t)' : t \in {s \in 1..N : s < Trigger' /\ OfTrigger(s)' # {}}}
               /\ \A t \in 1..N : t < Trigger' /\ OfTrigger(t)' # {} =>
                     AreOf(folder[Text(t)], t)'
    <3>1. \A s \in 1..N : s < Trigger' /\ OfTrigger(s)' # {}
                            <=> s < Trigger /\ OfTrigger(s) # {}
      BY <2>1, <2>3, <2>4
    <3>2. \A t \in 1..N : Text(t)' = Text(t)
      BY <1>2 DEF Text, given
    <3>3. \A t \in 1..N : AreOf(folder[Text(t)], t) => AreOf(folder[Text(t)], t)'
      BY <1>2, <3>2 DEF AreOf, OfTrigger, Rank, Result, Text, given
    <3> QED
      BY <1>2, <2>6, <3>1, <3>2, <3>3 DEF Inv, FolderInv
  <2> QED
    BY <1>4, <2>5, <2>6 DEF FolderInv
<1>10. FormattedInv'
  BY <1>1, <1>2, SameFormatted
<1>11. SurvivorsInv'
  BY <1>1, SameSurvivors DEF InLoop
<1> QED
  BY <1>4, <1>5, <1>6, <1>7, <1>8, <1>9, <1>10, <1>11 DEF Inv

LEMMA TestTriggerInv == ASSUME Inv, TestTrigger PROVE Inv'
<1>1. /\ mode = "combination" /\ Search /\ InLoop /\ ~Sleep(Trigger) /\ Reset <= N
      /\ IF Passes(answers[at]) THEN mode' = "reset" /\ UNCHANGED at
         ELSE at' = NextReset /\ UNCHANGED mode
      /\ UNCHANGED <<given, found, shown, kept>>
  BY DEF TestTrigger, InLoop, Inv, ModeInv, Search
<1>2. UNCHANGED <<given, csv, stream, folder, formatted, toformat>>
  BY <1>1 DEF found, shown
<1>3. GivenInv /\ Position /\ ModeInv /\ mode # "main" /\ mode' \in {"combination", "reset"}
  BY <1>1 DEF Inv
<1>4. GivenInv' /\ StartInv' /\ N' = N /\ job' = job
  BY <1>1, <1>3, SameGiven
<1>5. FormattedInv' /\ SurvivorsInv'
  BY <1>1, <1>2, <1>3, SameFormatted, SameSurvivors DEF InLoop
<1>6. CASE Passes(answers[at])
  <2>1. mode' = "reset" /\ at' = at
    BY <1>1, <1>6
  <2>2. Position' /\ ModeInv'
    BY <1>1, <1>2, <1>3, <1>4, <1>6, <2>1
    DEF Position, ModeInv, Measurement, Trigger, Reset, given, Sleep, Search, InLoop, Passes
  <2>3. CsvInv'
    BY <1>1, <1>2, <1>3, <2>1, NoHitPassed
  <2>4. FolderInv' /\ FilesInv'
    BY <1>2, <2>1, SameFolder DEF Trigger
  <2> QED
    BY <1>4, <1>5, <2>2, <2>3, <2>4 DEF Inv
<1>7. CASE ~Passes(answers[at])
  <2>1. mode' = mode /\ at' = NextReset
    BY <1>1, <1>7
  <2>2. Position'
    BY <1>1, <1>2, <1>3, <2>1, NextPosition
  <2>3. ModeInv'
    BY <1>1, <1>3, <1>4, <2>1 DEF ModeInv, Search
  <2>4. at \notin Hits
    <3> SUFFICES ASSUME at \in Hits PROVE FALSE
      OBVIOUS
    <3>1. answers[at].error = 0 /\ answers[at].result \notin -50..50 /\ Answer(answers[at])
      BY <1>3, GivenFacts DEF Hits
    <3> QED
      BY <1>7, <3>1 DEF Passes, Answer
  <2>5. CsvInv'
    <3>1. {c \in Hits : Precedes(c, at')} = {c \in Hits : Precedes(c, at)}
      BY <1>1, <1>3, <2>1, <2>4, PassedReset
    <3> QED
      BY <1>1, <1>2, <1>3, <3>1, NoHitPassed
  <2>6. FolderInv' /\ FilesInv'
    BY <1>2, <2>1, SameFolder DEF Trigger, NextReset
  <2> QED
    BY <1>4, <1>5, <2>2, <2>3, <2>5, <2>6 DEF Inv
<1> QED
  BY <1>6, <1>7

\* A line more for the trigger at hand.
LEMMA LineAppended ==
    ASSUME Inv, mode # "main", UNCHANGED given, csv' = Append(csv, CsvLine),
           at \in DOMAIN answers
    PROVE  /\ Len(csv) \in Nat /\ csv' \in Seq(Lines) /\ Len(csv') = Len(csv) + 1
           /\ csv'[Len(csv) + 1] = CsvLine /\ \A i \in 1..Len(csv) : csv'[i] = csv[i]
           /\ Trigger' = Trigger =>
                 OfTrigger(Trigger)' = OfTrigger(Trigger) \cup {Len(csv) + 1}
           /\ \A t : t # Trigger => OfTrigger(t)' = OfTrigger(t)
<1>1. CsvLine \in Lines /\ csv \in Seq(Lines)
  BY GivenFacts DEF CsvLine, Lines, Inv, CsvInv, Answer
<1>2. /\ Len(csv) \in Nat /\ csv' \in Seq(Lines) /\ Len(csv') = Len(csv) + 1
      /\ csv'[Len(csv) + 1] = CsvLine /\ \A i \in 1..Len(csv) : csv'[i] = csv[i]
  BY <1>1
<1>3. DOMAIN csv = 1..Len(csv) /\ DOMAIN csv' = 1..(Len(csv) + 1)
  BY <1>1, <1>2
<1>4. CsvLine.combination[2] = Trigger
  BY DEF CsvLine, Trigger
<1>5. ASSUME Trigger' = Trigger
      PROVE  OfTrigger(Trigger)' = OfTrigger(Trigger) \cup {Len(csv) + 1}
  <2>1. OfTrigger(Trigger)' = {i \in DOMAIN csv' : csv'[i].combination[2] = Trigger}
    BY <1>5 DEF OfTrigger
  <2> QED
    BY <1>2, <1>3, <1>4, <2>1 DEF OfTrigger
<1>6. ASSUME NEW t, t # Trigger
      PROVE  OfTrigger(t)' = OfTrigger(t)
  BY <1>2, <1>3, <1>4, <1>6 DEF OfTrigger
<1> QED
  BY <1>2, <1>5, <1>6

LEMMA TestResetInv == ASSUME Inv, TestReset PROVE Inv'
<1>1. /\ mode = "reset" /\ mode' = "combination" /\ at' = NextReset
      /\ IF ResetWorks(answers[at])
         THEN /\ csv' = Append(csv, CsvLine)
              /\ stream' = IF job = "equal"
                           THEN Append(stream, [reset |-> Text(Reset), timing |-> answers[at].result])
                           ELSE stream
         ELSE UNCHANGED found
      /\ UNCHANGED <<given, shown, kept>>
  BY DEF TestReset
<1>2. Search /\ Measurement <= N /\ Reset <= N /\ ~Sleep(Trigger) /\ Passes(answers[at])
      /\ mode # "main" /\ mode' # "main" /\ GivenInv /\ Position /\ ModeInv /\ CsvInv
  BY <1>1 DEF Inv, ModeInv
<1>3. GivenInv' /\ StartInv' /\ N' = N /\ job' = job /\ Hits' = Hits /\ Lines' = Lines
      /\ FileLines' = FileLines /\ Search' = Search /\ (OwnFiles' <=> OwnFiles)
  BY <1>1, <1>2, SameGiven
<1>4. at \in DOMAIN answers /\ Answer(answers[at]) /\ at[3] = Reset /\ at[2] = Trigger
  BY <1>2, AtCombination, GivenFacts DEF Reset, Trigger
<1>5. Position'
  <2>1. N' = N /\ N \in Nat /\ Measurement \in 1..N /\ Trigger \in 1..N /\ Reset + 1 \in 1..(N + 1)
        /\ (job = "equal" => Trigger = Measurement)
    BY <1>2, <1>3, PositionType DEF Position, Search
  <2> QED
    BY <1>1, <1>2, <1>3, <2>1 DEF Position, NextReset, Measurement, Trigger, Reset, Search
<1>6. ModeInv' /\ FormattedInv' /\ SurvivorsInv'
  <2>1. UNCHANGED <<given, folder, formatted, toformat>> /\ job # "cleanup"
    BY <1>1, <1>2 DEF shown, Search
  <2> QED
    BY <1>1, <1>2, <1>3, <2>1, SameFormatted, SameSurvivors DEF ModeInv, Search
<1>7. Trigger' = Trigger
  BY <1>1 DEF NextReset, Trigger
<1>8. at \in Hits <=> ResetWorks(answers[at])
  <2>1. answers[at].error = 0 /\ answers[at].result \notin -50..50
    BY <1>2, <1>4 DEF Passes, Answer
  <2>2. ResetWorks(answers[at])
          <=> answers[at].reset_error = 0 /\ answers[at].reset_result \in -19..19
    BY <1>4 DEF ResetWorks, Answer
  <2> QED
    BY <1>2, <1>4, <2>1, <2>2 DEF Hits, Sleep
<1>9. {c \in Hits : Precedes(c, at')} = {c \in Hits : Precedes(c, at)} \cup {c \in Hits : c = at}
  BY <1>1, <1>2, PassedReset
<1>10. CASE ~ResetWorks(answers[at])
  <2>1. UNCHANGED <<given, csv, stream, folder>>
    BY <1>1, <1>10 DEF found, shown
  <2>2. {c \in Hits : Precedes(c, at')} = {c \in Hits : Precedes(c, at)}
    BY <1>8, <1>9, <1>10
  <2>3. CsvInv' /\ FolderInv' /\ FilesInv'
    BY <1>2, <1>7, <2>1, <2>2, NoHitPassed, SameFolder
  <2> QED
    BY <1>3, <1>5, <1>6, <2>3 DEF Inv
<1>11. CASE ResetWorks(answers[at])
  <2>1. csv' = Append(csv, CsvLine) /\ UNCHANGED <<given, folder>>
    BY <1>1, <1>11 DEF shown
  <2>2. /\ Len(csv) \in Nat /\ csv' \in Seq(Lines) /\ Len(csv') = Len(csv) + 1
        /\ csv'[Len(csv) + 1] = CsvLine /\ \A i \in 1..Len(csv) : csv'[i] = csv[i]
        /\ OfTrigger(Trigger)' = OfTrigger(Trigger) \cup {Len(csv) + 1}
        /\ \A t : t # Trigger => OfTrigger(t)' = OfTrigger(t)
    BY <1>2, <1>4, <1>7, <2>1, LineAppended
  <2>3. CsvLine.combination = at /\ CsvLine.timing = answers[at].result
    BY DEF CsvLine
  <2>4. CsvInv'
    <3>1. {csv[i].combination : i \in 1..Len(csv)} = {c \in Hits : Precedes(c, at)}
      BY <1>2 DEF CsvInv
    <3>2. {csv'[i].combination : i \in 1..Len(csv')}
            = {csv[i].combination : i \in 1..Len(csv)} \cup {at}
      <4>1. \A i \in 1..Len(csv') : i \in 1..Len(csv) \/ i = Len(csv) + 1
        BY <2>2
      <4>2. Len(csv) + 1 \in 1..Len(csv') /\ \A i \in 1..Len(csv) : i \in 1..Len(csv')
        BY <2>2
      <4> QED
        BY <2>2, <2>3, <4>1, <4>2
    <3>3. {csv'[i].combination : i \in 1..Len(csv')} = {c \in Hits : Precedes(c, at')}
      BY <1>8, <1>9, <1>11, <3>1, <3>2
    <3>4. ASSUME NEW i \in 1..Len(csv')
          PROVE  /\ csv'[i].timing = answers[csv'[i].combination].result
                 /\ \A j \in 1..(i - 1) : Precedes(csv'[j].combination, csv'[i].combination)
      <4>1. CASE i = Len(csv) + 1
        <5>1. \A j \in 1..(i - 1) : j \in 1..Len(csv) /\ csv'[j] = csv[j]
          BY <2>2, <4>1
        <5>2. \A j \in 1..Len(csv) : Precedes(csv[j].combination, at)
          BY <3>1
        <5> QED
          BY <2>2, <2>3, <4>1, <5>1, <5>2
      <4>2. CASE i \in 1..Len(csv)
        <5>1. \A j \in 1..(i - 1) : j \in 1..Len(csv)
          BY <4>2
        <5> QED
          BY <1>2, <2>2, <4>2, <5>1 DEF CsvInv
      <4> QED
        BY <2>2, <4>1, <4>2
    <3>5. answers' = answers
      BY <2>1 DEF given
    <3> QED
      BY <1>3, <2>2, <3>3, <3>4, <3>5 DEF CsvInv
  <2> DEFINE result == [reset |-> Text(Reset), timing |-> answers[at].result]
  <2>5. result \in FileLines /\ result = Result(CsvLine)
    <3>1. Reset \in 1..N
      BY <1>2, PositionType DEF Position
    <3> QED
      BY <1>4, <2>3, <3>1 DEF FileLines, Result, Answer
  <2>6. FilesInv'
    <3>1. stream' \in Seq(FileLines)
      <4>1. stream \in Seq(FileLines)
        BY DEF Inv, FilesInv
      <4>2. stream' = Append(stream, result) \/ stream' = stream
        BY <1>1, <1>11
      <4> HIDE DEF result
      <4> QED
        BY <2>5, <4>1, <4>2
    <3>2. \A i : Text(i)' = Text(i)
      BY <2>1 DEF Text, given
    <3> QED
      BY <1>3, <2>1, <3>1, <3>2 DEF Inv, FilesInv
  <2>7. FolderInv'
    <3> SUFFICES ASSUME job = "equal" PROVE FolderInv'
      BY <1>3 DEF FolderInv
    <3>1. stream' = Append(stream, result) /\ stream \in Seq(FileLines)
      BY <1>1, <1>11 DEF Inv, FilesInv
    <3> DEFINE S == OfTrigger(Trigger)
               n == Len(csv) + 1
    <3>2. IsFiniteSet(S) /\ S \subseteq Int /\ n \in Int /\ \A i \in S : i < n /\ i \in 1..Len(csv)
      <4>1. S \in SUBSET (1..Len(csv))
        BY <1>2 DEF CsvInv, OfTrigger
      <4>2. IsFiniteSet(1..Len(csv))
        BY <2>2, FS_Interval
      <4> HIDE DEF S
      <4>3. IsFiniteSet(S)
        BY <4>1, <4>2, FS_Subset
      <4>4. \A i \in S : i \in 1..Len(csv)
        BY <4>1
      <4> QED
        BY <2>2, <4>3, <4>4
    <3>3. OfTrigger(Trigger)' = S \cup {n}
      BY <2>2
    <3>4. AreOf(stream, Trigger)
      BY DEF Inv, FolderInv
    <3>5. AreOf(stream, Trigger)'
      <4> HIDE DEF S, n, result
      <4>1. Len(stream) = Cardinality(S) /\ \A i \in S : stream[Rank(S, i)] = Result(csv[i])
        BY <3>4 DEF AreOf, S
      <4>2. /\ Len(stream) \in Nat /\ Len(stream') = Len(stream) + 1
            /\ stream'[Len(stream) + 1] = result
            /\ \A k \in 1..Len(stream) : stream'[k] = stream[k]
        BY <2>5, <3>1
      <4>3. /\ Cardinality(S \cup {n}) = Cardinality(S) + 1
            /\ \A i \in S : Rank(S \cup {n}, i) = Rank(S, i) /\ Rank(S, i) \in 1..Cardinality(S)
            /\ Rank(S \cup {n}, n) = Cardinality(S) + 1
        BY <3>2, RankExtended, RankType
      <4>4. ASSUME NEW i \in S \cup {n}
            PROVE  stream'[Rank(S \cup {n}, i)] = Result(csv'[i])
        <5>1. CASE i = n
          BY <2>2, <2>5, <4>1, <4>2, <4>3, <5>1 DEF n
        <5>2. CASE i \in S
          BY <2>2, <3>2, <4>1, <4>2, <4>3, <5>2
        <5> QED
          BY <5>1, <5>2
      <4>5. \A line : Result(line)' = Result(line)
        BY <2>1 DEF Result, Text, given
      <4> QED
        BY <3>3, <4>1, <4>2, <4>3, <4>4, <4>5 DEF AreOf, Rank, Result
    <3>6. ASSUME NEW t \in 1..N, t < Trigger, AreOf(folder[Text(t)], t)
          PROVE  AreOf(folder[Text(t)], t)'
      <4>1. t # Trigger
        BY <3>6, <1>2, PositionType
      <4>2. {i \in DOMAIN csv' : csv'[i].combination[2] = t} = OfTrigger(t)
        BY <2>2, <4>1 DEF OfTrigger
      <4>3. \A i \in OfTrigger(t) : csv'[i] = csv[i]
        BY <1>2, <2>2 DEF OfTrigger, CsvInv
      <4> QED
        BY <2>1, <3>6, <4>2, <4>3 DEF AreOf, OfTrigger, Rank, Result, Text, given
    <3>7. \A t \in 1..N : t < Trigger => OfTrigger(t)' = OfTrigger(t)
      BY <1>2, <2>2, PositionType
    <3>8. \A i : Text(i)' = Text(i)
      BY <2>1 DEF Text, given
    <3> HIDE DEF result, S, n
    <3> QED
      BY <1>3, <1>7, <2>1, <3>5, <3>6, <3>7, <3>8 DEF Inv, FolderInv
  <2> QED
    BY <1>3, <1>5, <1>6, <2>4, <2>6, <2>7 DEF Inv
<1> QED
  BY <1>10, <1>11

LEMMA EndTriggerInv == ASSUME Inv, EndTrigger PROVE Inv'
<1>1. /\ mode = "combination" /\ mode' = mode /\ Search /\ InLoop /\ Reset > N
      /\ at' = NextTrigger /\ stream' = <<>>
      /\ folder' = IF stream = <<>> \/ Slash \in ToSet(Text(Trigger)) THEN folder
                   ELSE [name \in DOMAIN folder \cup {Text(Trigger)} |->
                           IF name = Text(Trigger) THEN stream ELSE folder[name]]
      /\ UNCHANGED <<given, csv, formatted, toformat, kept>>
  BY DEF EndTrigger, InLoop, Inv, ModeInv, Search
<1>2. GivenInv /\ Position /\ ModeInv /\ FilesInv /\ FolderInv
  BY DEF Inv
<1>3. GivenInv' /\ StartInv' /\ N' = N /\ job' = job /\ FileLines' = FileLines
      /\ (OwnFiles' <=> OwnFiles)
  BY <1>1, SameGiven
<1>4. Position'
  BY <1>1, <1>2, NextPosition
<1>5. ModeInv'
  BY <1>1, <1>2, <1>3 DEF ModeInv, Search
<1>6. CsvInv'
  <2>1. {c \in Hits : Precedes(c, NextTrigger)} = {c \in Hits : Precedes(c, at)}
    BY <1>1, <1>2, PassedTrigger
  <2> QED
    BY <1>1, <2>1, NoHitPassed
<1>7. Trigger \in 1..N /\ N \in Nat
  BY <1>1, <1>2, PositionType DEF Position, InLoop, Search
<1>8. \A i : Text(i)' = Text(i)
  BY <1>1 DEF Text, given
<1> DEFINE added == [name \in DOMAIN folder \cup {Text(Trigger)} |->
                       IF name = Text(Trigger) THEN stream ELSE folder[name]]
<1>9. FilesInv' /\ DOMAIN folder \subseteq DOMAIN folder'
  <2>1. stream' \in Seq(FileLines')
    BY <1>1
  <2>2. CASE folder' = folder
    BY <1>2, <1>3, <1>8, <2>1, <2>2 DEF FilesInv
  <2>3. CASE folder' = added
    <3>1. DOMAIN folder' = DOMAIN folder \cup {Text(Trigger)}
      BY <2>3
    <3>2. IsFiniteSet(DOMAIN folder')
      BY <1>2, <3>1, FS_AddElement DEF FilesInv
    <3>3. folder' = [name \in DOMAIN folder' |-> folder'[name]]
      BY <2>3
    <3>4. ASSUME NEW name \in DOMAIN folder'
          PROVE  (\E i \in 1..N : name = Text(i)) /\ folder'[name] \in Seq(FileLines)
      BY <1>2, <1>7, <2>3, <3>1 DEF FilesInv
    <3> HIDE DEF added
    <3> QED
      BY <1>3, <1>8, <2>1, <3>1, <3>2, <3>3, <3>4 DEF FilesInv
  <2> QED
    BY <1>1, <2>2, <2>3
<1>10. FolderInv'
  <2> SUFFICES ASSUME job = "equal" PROVE FolderInv'
    BY <1>3 DEF FolderInv
  <2>1. Trigger' = Trigger + 1
    BY <1>1 DEF NextTrigger, Trigger
  <2>2. OfTrigger(Trigger)' = {}
    <3>1. OfTrigger(Trigger + 1) = {}
      BY <1>1, <1>7, NoneOfNext
    <3> QED
      BY <1>1, <2>1, <3>1 DEF OfTrigger
  <2>3. AreOf(stream, Trigger)'
    <3>1. Len(stream') = Cardinality({})
      BY <1>1, FS_EmptySet
    <3> QED
      BY <2>2, <3>1 DEF AreOf
  <2>4. \A t : OfTrigger(t)' = OfTrigger(t)
    BY <1>1 DEF OfTrigger
  <2>5. AreOf(stream, Trigger) /\ stream \in Seq(FileLines)
    BY <1>2 DEF FolderInv, FilesInv
  <2>6. stream = <<>> <=> OfTrigger(Trigger) = {}
    <3>1. IsFiniteSet(OfTrigger(Trigger))
      <4>1. OfTrigger(Trigger) \in SUBSET (1..Len(csv)) /\ Len(csv) \in Nat
        BY DEF Inv, CsvInv, OfTrigger
      <4>2. IsFiniteSet(1..Len(csv))
        BY <4>1, FS_Interval
      <4> QED
        BY <4>1, <4>2, FS_Subset
    <3>2. Len(stream) = 0 <=> OfTrigger(Trigger) = {}
      BY <2>5, <3>1, FS_EmptySet DEF AreOf
    <3> QED
      BY <2>5, <3>2
  <2>7. ASSUME OwnFiles
        PROVE  /\ DOMAIN folder'
                    = {Text(t)' : t \in {s \in 1..N : s < Trigger' /\ OfTrigger(s)' # {}}}
               /\ \A t \in 1..N : t < Trigger' /\ OfTrigger(t)' # {} =>
                     AreOf(folder[Text(t)], t)'
    <3> DEFINE before == {s \in 1..N : s < Trigger /\ OfTrigger(s) # {}}
               now == {s \in 1..N : s < Trigger' /\ OfTrigger(s)' # {}}
    <3>1. /\ DOMAIN folder = {Text(t) : t \in before}
          /\ \A t \in before : AreOf(folder[Text(t)], t)
      BY <1>2, <2>7 DEF FolderInv
    <3>2. now = IF stream = <<>> THEN before ELSE before \cup {Trigger}
      BY <1>7, <2>1, <2>4, <2>6
    <3>3. folder' = IF stream = <<>> THEN folder ELSE added
      BY <1>1, <1>7, <2>7 DEF OwnFiles
    <3>4. DOMAIN folder' = {Text(t) : t \in now}
      <4>1. CASE stream = <<>>
        BY <3>1, <3>2, <3>3, <4>1
      <4>2. CASE stream # <<>>
        <5>1. DOMAIN folder' = DOMAIN folder \cup {Text(Trigger)} /\ now = before \cup {Trigger}
          BY <3>2, <3>3, <4>2
        <5> HIDE DEF now, before
        <5> QED
          BY <3>1, <5>1
      <4> QED
        BY <4>1, <4>2
    <3>5. ASSUME NEW t \in now
          PROVE  folder'[Text(t)] = (IF t = Trigger THEN stream ELSE folder[Text(t)])
                 /\ (t # Trigger => t \in before)
      <4>1. CASE stream = <<>>
        BY <1>7, <3>2, <3>3, <4>1
      <4>2. CASE stream # <<>>
        <5>1. folder' = added
          BY <3>3, <4>2
        <5>2. CASE t = Trigger
          BY <5>1, <5>2
        <5>3. CASE t # Trigger
          <6>1. t \in before /\ Text(t) \in DOMAIN folder
            BY <3>1, <3>2, <4>2, <5>3
          <6>2. Text(t) # Text(Trigger)
            BY <1>2, <1>7, <2>7, <5>3, TextNames DEF OwnFiles
          <6> QED
            BY <5>1, <5>3, <6>1, <6>2
        <5> QED
          BY <5>2, <5>3
      <4> QED
        BY <4>1, <4>2
    <3>6. ASSUME NEW t \in now
          PROVE  AreOf(folder[Text(t)], t)'
      <4>1. ASSUME NEW results, AreOf(results, t), results = folder'[Text(t)]
            PROVE  AreOf(folder[Text(t)], t)'
        <5>1. \A line : Result(line)' = Result(line)
          BY <1>8 DEF Result
        <5> HIDE DEF now
        <5> QED
          BY <1>1, <1>8, <4>1, <5>1 DEF AreOf, OfTrigger, Rank
      <4>2. CASE t = Trigger
        BY <2>5, <3>5, <4>1, <4>2
      <4>3. CASE t # Trigger
        BY <3>1, <3>5, <4>1, <4>3
      <4> QED
        BY <4>2, <4>3
    <3>7. {Text(t)' : t \in now} = {Text(t) : t \in now}
      <4> HIDE DEF now
      <4> QED
        BY <1>8
    <3> QED
      BY <3>4, <3>6, <3>7
  <2> QED
    BY <1>3, <2>3, <2>7 DEF FolderInv
<1>11. FormattedInv' /\ SurvivorsInv'
  BY <1>1, <1>9, SameFormatted, SameSurvivors DEF InLoop
<1> QED
  BY <1>3, <1>4, <1>5, <1>6, <1>9, <1>10, <1>11 DEF Inv

LEMMA LoopsEndInv == ASSUME Inv, LoopsEnd PROVE Inv'
<1>1. /\ mode = "combination" /\ job \in {"all", "equal"} /\ Measurement > N
      /\ mode' = IF job = "equal" THEN "formatting" ELSE "done"
      /\ toformat' = IF job = "equal" THEN DOMAIN folder ELSE {}
      /\ UNCHANGED <<given, at, csv, stream, folder, formatted, kept>>
  BY DEF LoopsEnd, Inv, ModeInv, Search, found
<1>2. GivenInv' /\ StartInv' /\ N' = N /\ job' = job
  BY <1>1, SameGiven
<1>3. CsvInv' /\ FolderInv' /\ FilesInv'
  BY <1>1, NoHitPassed, SameFolder DEF Trigger
<1>4. SurvivorsInv'
  BY <1>1, SameSurvivors
<1>5. Position' /\ ModeInv'
  BY <1>1, <1>2 DEF Inv, Position, ModeInv, Measurement, Trigger, Reset, Search
<1>6. FormattedInv'
  <2>1. formatted = <<>> /\ DOMAIN formatted = {} /\ IsFiniteSet({}) /\ Cardinality({}) = 0
    BY <1>1, FS_EmptySet DEF Inv, FormattedInv
  <2>2. job = "equal" => DOMAIN folder \ toformat' = {}
    BY <1>1
  <2> QED
    BY <1>1, <1>2, <2>1, <2>2 DEF FormattedInv
<1> QED
  BY <1>2, <1>3, <1>4, <1>5, <1>6 DEF Inv

LEMMA FormatFileInv == ASSUME Inv, FormatFile PROVE Inv'
<1>1. PICK name \in toformat :
         /\ formatted' =
              [f \in DOMAIN formatted \cup {FormattedName(name)} |->
                 IF f = FormattedName(name) THEN Formatted(name) ELSE formatted[f]]
         /\ toformat' = toformat \ {name}
  BY DEF FormatFile
<1>2. /\ mode = "formatting" /\ mode' = mode /\ job = "equal" /\ Measurement > N
      /\ UNCHANGED <<given, at, csv, stream, folder, kept>>
  BY DEF FormatFile, Inv, ModeInv, found
<1>3. GivenInv' /\ StartInv' /\ N' = N /\ job' = job
  BY <1>2, SameGiven
<1>4. CsvInv' /\ FolderInv' /\ FilesInv'
  BY <1>2, NoHitPassed, SameFolder DEF Trigger
<1>5. SurvivorsInv'
  BY <1>2, SameSurvivors
<1>6. Position' /\ ModeInv'
  BY <1>2, <1>3 DEF Inv, Position, ModeInv, Measurement, Trigger, Reset, Search
<1>7. FormattedInv'
  <2> DEFINE D == DOMAIN folder \ toformat
             n == Cardinality(D)
             new == FormattedName(name)
  <2>1. /\ toformat \subseteq DOMAIN folder
        /\ IsFiniteSet(DOMAIN formatted) /\ Cardinality(DOMAIN formatted) = n
        /\ \A f \in DOMAIN formatted : f[2] \in Nat /\ f[2] < n
        /\ \A x \in D : \E f \in DOMAIN formatted : formatted[f] = Formatted(x)
    BY <1>2 DEF Inv, FormattedInv
  <2>2. IsFiniteSet(D) /\ n \in Nat
    <3>1. IsFiniteSet(DOMAIN folder)
      BY DEF Inv, FilesInv
    <3>2. D \in SUBSET DOMAIN folder
      OBVIOUS
    <3> QED
      BY <3>1, <3>2, FS_Subset, FS_CardinalityType
  <2>3. DOMAIN folder' \ toformat' = D \cup {name} /\ name \notin D
    BY <1>1, <1>2, <2>1
  <2>4. Cardinality(D \cup {name}) = n + 1
    BY <2>2, <2>3, FS_AddElement
  <2>5. new[2] = n
    BY DEF FormattedName
  <2>6. new \notin DOMAIN formatted
    BY <2>1, <2>2, <2>5
  <2>7. DOMAIN formatted' = DOMAIN formatted \cup {new}
    BY <1>1
  <2>8. IsFiniteSet(DOMAIN formatted') /\ Cardinality(DOMAIN formatted') = n + 1
    BY <2>1, <2>6, <2>7, FS_AddElement
  <2>9. formatted'[new] = Formatted(name)
        /\ \A f \in DOMAIN formatted : f \in DOMAIN formatted' /\ formatted'[f] = formatted[f]
    BY <1>1, <2>6, <2>7
  <2>10. \A x : Formatted(x)' = Formatted(x)
    BY <1>2 DEF Formatted
  <2> HIDE DEF D, n, new
  <2>11. \A f \in DOMAIN formatted' : f[2] \in Nat /\ f[2] < n + 1
    BY <2>1, <2>2, <2>5, <2>7
  <2>12. \A x \in D \cup {name} : \E f \in DOMAIN formatted' : formatted'[f] = Formatted(x)
    BY <2>1, <2>7, <2>9
  <2>13. toformat' \subseteq DOMAIN folder'
    BY <1>1, <1>2, <2>1
  <2> QED
    BY <1>2, <2>3, <2>4, <2>8, <2>10, <2>11, <2>12, <2>13 DEF FormattedInv
<1> QED
  BY <1>3, <1>4, <1>5, <1>6, <1>7 DEF Inv

LEMMA FormatEndInv == ASSUME Inv, FormatEnd PROVE Inv'
<1>1. /\ mode = "formatting" /\ mode' = "done" /\ job = "equal" /\ Measurement > N
      /\ toformat = {}
      /\ UNCHANGED <<given, at, csv, stream, folder, formatted, toformat, kept>>
  BY DEF FormatEnd, Inv, ModeInv, found, shown
<1>2. GivenInv' /\ StartInv' /\ N' = N /\ job' = job
  BY <1>1, SameGiven
<1>3. CsvInv' /\ FolderInv' /\ FilesInv'
  BY <1>1, NoHitPassed, SameFolder DEF Trigger
<1>4. SurvivorsInv'
  BY <1>1, SameSurvivors
<1>5. Position' /\ ModeInv'
  BY <1>1, <1>2 DEF Inv, Position, ModeInv, Measurement, Trigger, Reset, Search
<1>6. FormattedInv'
  BY <1>1 DEF Inv, FormattedInv, Formatted
<1> QED
  BY <1>2, <1>3, <1>4, <1>5, <1>6 DEF Inv

LEMMA TestInstructionInv == ASSUME Inv, TestInstruction PROVE Inv'
<1> DEFINE m == Measurement
<1>1. /\ mode = "combination" /\ mode' = mode /\ job = "cleanup" /\ m <= N
      /\ survivors' = IF answers[at].error = 0 THEN Append(survivors, m) ELSE survivors
      /\ at' = [i \in 1..3 |-> m + 1]
      /\ UNCHANGED <<given, csv, stream, folder, formatted, toformat, cleaned>>
  BY DEF TestInstruction, found, shown
<1>2. GivenInv' /\ StartInv' /\ N' = N /\ job' = job /\ ~Search /\ job # "equal"
  BY <1>1, SameGiven DEF Search
<1>3. m \in 1..N /\ N \in Nat /\ at = <<m, m, m>>
  BY <1>1, PositionType DEF Inv, Position
<1>4. at' = <<m + 1, m + 1, m + 1>> /\ Measurement' = m + 1 /\ Trigger' = m + 1 /\ Reset' = m + 1
  BY <1>1 DEF Measurement, Trigger, Reset
<1>5. Position' /\ ModeInv'
  BY <1>1, <1>2, <1>3, <1>4 DEF Position, ModeInv, Search
<1>6. CsvInv' /\ FormattedInv'
  BY <1>1, <1>2, NoHitPassed, SameFormatted
<1>7. FolderInv' /\ FilesInv'
  <2>1. \A i : Text(i)' = Text(i)
    BY <1>1 DEF Text, given
  <2>2. FileLines' = FileLines
    BY <1>1, SameGiven
  <2> QED
    BY <1>1, <1>2, <2>1, <2>2 DEF Inv, FilesInv, FolderInv
<1>8. SurvivorsInv'
  <2> DEFINE S == Harmless(m)
  <2>1. /\ survivors \in Seq(1..N)
        /\ Len(survivors) = Cardinality(S)
        /\ \A i \in S : survivors[Rank(S, i)] = i
        /\ cleaned = Old
    BY <1>1 DEF Inv, SurvivorsInv, CleanedInv
  <2>2. IsFiniteSet(S) /\ S \subseteq Int /\ m \in Int /\ \A i \in S : i < m
    <3>1. S \in SUBSET (1..N)
      BY DEF Harmless
    <3>2. IsFiniteSet(1..N)
      BY <1>3, FS_Interval
    <3>3. IsFiniteSet(S)
      BY <3>1, <3>2, FS_Subset
    <3> QED
      BY <1>3, <3>3 DEF Harmless
  <2>3. Harmless(Measurement)' = IF answers[at].error = 0 THEN S \cup {m} ELSE S
    <3>1. Harmless(Measurement)'
            = {i \in 1..N : i < m + 1 /\ answers[<<i, i, i>>].error = 0}
      BY <1>1, <1>2, <1>4 DEF Harmless, given
    <3>2. \A i \in 1..N : i < m + 1 <=> i < m \/ i = m
      BY <1>3
    <3> HIDE DEF m
    <3> QED
      BY <1>3, <3>1, <3>2 DEF Harmless
  <2> HIDE DEF S, m
  <2>4. CASE answers[at].error # 0
    <3>1. survivors' = survivors /\ Harmless(Measurement)' = S
      BY <1>1, <2>3, <2>4
    <3> QED
      BY <1>1, <1>2, <2>1, <3>1 DEF SurvivorsInv, CleanedInv, Rank
  <2>5. CASE answers[at].error = 0
    <3>1. survivors' = Append(survivors, m) /\ Harmless(Measurement)' = S \cup {m}
      BY <1>1, <2>3, <2>5
    <3>2. /\ survivors' \in Seq(1..N) /\ Len(survivors) \in Nat
          /\ Len(survivors') = Len(survivors) + 1
          /\ survivors'[Len(survivors) + 1] = m
          /\ \A k \in 1..Len(survivors) : survivors'[k] = survivors[k]
      BY <1>3, <2>1, <3>1
    <3>3. /\ Cardinality(S \cup {m}) = Cardinality(S) + 1
          /\ \A i \in S : Rank(S \cup {m}, i) = Rank(S, i) /\ Rank(S, i) \in 1..Cardinality(S)
          /\ Rank(S \cup {m}, m) = Cardinality(S) + 1
      BY <2>2, RankExtended, RankType
    <3>4. \A i \in S \cup {m} : survivors'[Rank(S \cup {m}, i)] = i
      BY <2>1, <3>2, <3>3
    <3>5. Len(survivors') = Cardinality(S \cup {m})
      BY <2>1, <3>2, <3>3
    <3>6. mode' = "combination" /\ cleaned' = Old /\ survivors' \in Seq(1..N')
      BY <1>1, <1>2, <2>1, <3>2
    <3>7. /\ Len(survivors') = Cardinality(Harmless(Measurement)')
          /\ \A i \in Harmless(Measurement)' :
                survivors'[Rank(Harmless(Measurement), i)'] = i
      BY <3>1, <3>4, <3>5 DEF Rank
    <3> QED
      BY <3>6, <3>7 DEF SurvivorsInv, CleanedInv
  <2> QED
    BY <2>4, <2>5
<1> QED
  BY <1>2, <1>5, <1>6, <1>7, <1>8 DEF Inv

\* What the steps leave as it was that write the cleaned file.
LEMMA Writing ==
    ASSUME Inv, job = "cleanup", Measurement > N, mode \in {"combination", "writing"},
           mode' \in {"writing", "done"},
           UNCHANGED <<given, at, csv, stream, folder, formatted, toformat, survivors>>,
           CleanedInv'
    PROVE  Inv'
<1>1. GivenInv' /\ StartInv' /\ N' = N /\ job' = job
  BY SameGiven
<1>2. CsvInv' /\ FolderInv' /\ FilesInv'
  BY NoHitPassed, SameFolder DEF Trigger
<1>3. Position' /\ ModeInv'
  BY <1>1 DEF Inv, Position, ModeInv, Measurement, Trigger, Reset, Search
<1>4. FormattedInv'
  <2>1. formatted' = <<>> /\ toformat' = {} /\ job' = "cleanup" /\ folder' = folder
    BY DEF Inv, FormattedInv, given
  <2> QED
    BY <2>1 DEF FormattedInv
<1>5. SurvivorsInv'
  <2>1. Harmless(Measurement)' = Harmless(Measurement)
    BY <1>1 DEF Harmless, Measurement, given
  <2>2. \A i : Rank(Harmless(Measurement), i)' = Rank(Harmless(Measurement), i)
    BY <2>1 DEF Rank
  <2> QED
    BY <1>1, <2>1, <2>2 DEF Inv, SurvivorsInv
<1> QED
  BY <1>1, <1>2, <1>3, <1>4, <1>5 DEF Inv

LEMMA OpenCleanedInv == ASSUME Inv, OpenCleaned PROVE Inv'
<1>1. /\ mode = "combination" /\ job = "cleanup" /\ Measurement > N /\ cleaned' = None
      /\ mode' = IF survivors = <<>> THEN "done" ELSE "writing"
      /\ UNCHANGED <<given, at, csv, stream, folder, formatted, toformat, survivors>>
  BY DEF OpenCleaned, found, shown
<1>2. Len(survivors) \in Nat /\ (survivors = <<>> <=> Len(survivors) = 0)
  BY DEF Inv, SurvivorsInv
<1>3. CleanedInv'
  <2>1. Measurement' > N' /\ Len(survivors') = Len(survivors)
    BY <1>1 DEF Measurement, N, given
  <2>2. \A k : Written(k)' = Written(k)
    BY <1>1 DEF Written, Text, given
  <2>3. Written(0) = <<>> /\ 0 \in 0..Len(survivors)
    BY <1>2 DEF Written
  <2>4. cleaned' = [header |-> FALSE, lines |-> Written(0)]
    BY <1>1, <2>3 DEF None
  <2>5. mode' = "done" => Len(survivors) = 0
    BY <1>1, <1>2
  <2>6. mode' = "writing" => Len(survivors) > 0
    BY <1>1, <1>2
  <2>7. \E n \in 0..Len(survivors'), h \in BOOLEAN :
             /\ cleaned' = [header |-> h, lines |-> Written(n)']
             /\ n > 0 => h
             /\ mode' = "done" => n = Len(survivors') /\ (h => n > 0)
             /\ mode' = "writing" => Len(survivors') > 0
    <3>1. 0 \in 0..Len(survivors')
      BY <2>1, <2>3
    <3>2. cleaned' = [header |-> FALSE, lines |-> Written(0)']
      BY <2>2, <2>4, Zenon
    <3>5. ~(0 > 0)
      OBVIOUS
    <3>3. mode' = "done" => 0 = Len(survivors')
      BY <2>1, <2>5
    <3>4. mode' = "writing" => Len(survivors') > 0
      BY <2>1, <2>6
    <3> QED
      BY <3>1, <3>2, <3>3, <3>4, <3>5, Zenon
  <2> QED
    BY <1>1, <2>1, <2>7 DEF CleanedInv
<1> QED
  BY <1>1, <1>3, Writing

\* Where a cleanup is that writes its file.
LEMMA WritingAt ==
    ASSUME Inv, mode = "writing"
    PROVE  /\ job = "cleanup" /\ Measurement > N
           /\ Len(survivors) \in Nat /\ Len(survivors) > 0
           /\ \E n \in 0..Len(survivors), h \in BOOLEAN :
                 /\ cleaned = [header |-> h, lines |-> Written(n)]
                 /\ Len(cleaned.lines) = n
                 /\ n > 0 => h
<1>1. job = "cleanup" /\ Measurement > N /\ Len(survivors) \in Nat
  BY DEF Inv, ModeInv, SurvivorsInv
<1>2. PICK n \in 0..Len(survivors), h \in BOOLEAN :
         cleaned = [header |-> h, lines |-> Written(n)] /\ (n > 0 => h) /\ Len(survivors) > 0
  BY <1>1 DEF Inv, SurvivorsInv, CleanedInv
<1>3. Len(Written(n)) = n
  BY <1>1, <1>2 DEF Written
<1> QED
  BY <1>1, <1>2, <1>3

\* The invariant of the file, from what a step leaves in it.
LEMMA WrittenTo ==
    ASSUME UNCHANGED <<given, at, survivors>>, Measurement > N, mode' \in {"writing", "done"},
           NEW n \in 0..Len(survivors), NEW h \in BOOLEAN,
           cleaned' = [header |-> h, lines |-> Written(n)], n > 0 => h, Len(survivors) > 0,
           mode' = "done" => n = Len(survivors)
    PROVE  CleanedInv'
<1>1. \A k : Written(k)' = Written(k)
  BY DEF Written, Text, given
<1>2. Measurement' > N'
  BY DEF given, Measurement, N
<1>3. \E m \in 0..Len(survivors'), g \in BOOLEAN :
             /\ cleaned' = [header |-> g, lines |-> Written(m)']
             /\ m > 0 => g
             /\ mode' = "done" => m = Len(survivors') /\ (g => m > 0)
             /\ mode' = "writing" => Len(survivors') > 0
  <2> WITNESS n \in 0..Len(survivors'), h \in BOOLEAN
  <2> QED
    BY <1>1
<1> QED
  BY <1>2, <1>3 DEF CleanedInv

LEMMA WriteHeaderInv == ASSUME Inv, WriteHeader PROVE Inv'
<1>1. /\ mode = "writing" /\ mode' = mode /\ cleaned' = [cleaned EXCEPT !.header = TRUE]
      /\ UNCHANGED <<given, at, csv, stream, folder, formatted, toformat, survivors>>
  BY DEF WriteHeader, found, shown
<1>2. job = "cleanup" /\ Measurement > N /\ Len(survivors) > 0
  BY <1>1, WritingAt
<1>3. PICK n \in 0..Len(survivors), h \in BOOLEAN :
         cleaned = [header |-> h, lines |-> Written(n)]
  BY <1>1, WritingAt
<1>4. cleaned' = [header |-> TRUE, lines |-> Written(n)]
  BY <1>1, <1>3
<1>5. CleanedInv'
  BY <1>1, <1>2, <1>4, WrittenTo
<1> QED
  BY <1>1, <1>2, <1>5, Writing

LEMMA WriteLineInv == ASSUME Inv, WriteLine PROVE Inv'
<1>1. /\ mode = "writing" /\ mode' = mode /\ cleaned.header
      /\ Len(cleaned.lines) < Len(survivors)
      /\ cleaned' = [cleaned EXCEPT !.lines =
                        Append(cleaned.lines, Text(survivors[Len(cleaned.lines) + 1]))]
      /\ UNCHANGED <<given, at, csv, stream, folder, formatted, toformat, survivors>>
  BY DEF WriteLine, found, shown
<1>2. job = "cleanup" /\ Measurement > N /\ Len(survivors) \in Nat /\ Len(survivors) > 0
  BY <1>1, WritingAt
<1>3. PICK n \in 0..Len(survivors), h \in BOOLEAN :
         cleaned = [header |-> h, lines |-> Written(n)] /\ Len(cleaned.lines) = n
  BY <1>1, WritingAt
<1>4. n \in Nat /\ n + 1 \in 0..Len(survivors)
  BY <1>1, <1>2, <1>3
<1>5. Append(Written(n), Text(survivors[n + 1])) = Written(n + 1)
  <2>1. Len(Written(n)) = n
    BY <1>4 DEF Written
  <2> QED
    BY <1>4, <2>1 DEF Written
<1>6. cleaned' = [header |-> TRUE, lines |-> Written(n + 1)]
  <2>1. cleaned.lines = Written(n) /\ cleaned.header = h /\ h = TRUE
    BY <1>1, <1>3
  <2>2. cleaned' = [header |-> h, lines |-> Append(Written(n), Text(survivors[n + 1]))]
    BY <1>1, <1>3, <2>1
  <2> QED
    BY <1>5, <2>1, <2>2
<1>7. CleanedInv'
  BY <1>1, <1>2, <1>4, <1>6, WrittenTo
<1> QED
  BY <1>1, <1>2, <1>7, Writing

LEMMA CloseCleanedInv == ASSUME Inv, CloseCleaned PROVE Inv'
<1>1. /\ mode = "writing" /\ mode' = "done" /\ Len(cleaned.lines) = Len(survivors)
      /\ UNCHANGED <<given, at, csv, stream, folder, formatted, toformat, survivors, cleaned>>
  BY DEF CloseCleaned, found, shown, kept
<1>2. job = "cleanup" /\ Measurement > N /\ Len(survivors) > 0
  BY <1>1, WritingAt
<1>3. PICK n \in 0..Len(survivors), h \in BOOLEAN :
         /\ cleaned = [header |-> h, lines |-> Written(n)]
         /\ Len(cleaned.lines) = n
         /\ n > 0 => h
  BY <1>1, WritingAt
<1>4. CleanedInv'
  BY <1>1, <1>2, <1>3, WrittenTo
<1> QED
  BY <1>1, <1>2, <1>4, Writing

LEMMA KilledInv == ASSUME Inv, Killed PROVE Inv'
<1>1. /\ mode \in {"combination", "reset", "formatting", "writing"} /\ mode' = "killed"
      /\ UNCHANGED <<given, at, csv, stream, folder, formatted, toformat, kept>>
  BY DEF Killed, found, shown, Inv, ModeInv
<1>2. GivenInv' /\ StartInv' /\ N' = N /\ job' = job
  BY <1>1, SameGiven
<1>3. CsvInv' /\ FolderInv' /\ FilesInv'
  BY <1>1, NoHitPassed, SameFolder DEF Trigger
<1>4. SurvivorsInv'
  BY <1>1, SameSurvivors
<1>6. FormattedInv'
  BY <1>1 DEF Inv, FormattedInv
<1>5. Position' /\ ModeInv'
  BY <1>1, <1>2 DEF Inv, Position, ModeInv, Measurement, Trigger, Reset, Search
<1> QED
  BY <1>2, <1>3, <1>4, <1>5, <1>6 DEF Inv

LEMMA StutterInv == ASSUME Inv, UNCHANGED vars PROVE Inv'
<1>1. UNCHANGED <<given, at, csv, stream, folder, formatted, toformat, kept, mode>>
  BY DEF vars, given, kept
<1>2. GivenInv' /\ StartInv' /\ Position' /\ ModeInv'
  BY <1>1 DEF Inv, GivenInv, StartInv, Position, ModeInv, Measurement, Trigger, Reset, Search,
     given, kept, N, Sleep, Passes
<1>3. FolderInv' /\ FilesInv'
  BY <1>1, SameFolder DEF Trigger
<1>4. CsvInv'
  <2>1. Hits' = Hits /\ Lines' = Lines /\ (Search' <=> Search) /\ answers' = answers
    BY <1>1 DEF Hits, Lines, Search, given
  <2> QED
    BY <1>1, <2>1 DEF Inv, CsvInv
<1>6. FormattedInv'
  <2>1. \A name : Formatted(name)' = Formatted(name)
    BY <1>1 DEF Formatted
  <2> QED
    BY <1>1, <2>1 DEF Inv, FormattedInv, given
<1>5. SurvivorsInv'
  BY <1>1, SameSurvivors
<1> QED
  BY <1>2, <1>3, <1>4, <1>5, <1>6 DEF Inv

-----------------------------------------------------------------------------
(* The theorems *)

LEMMA NextInv == ASSUME Inv, [Next]_vars PROVE Inv'
BY MainInv, SkipSleepInv, TestTriggerInv, TestResetInv, EndTriggerInv, LoopsEndInv,
   FormatFileInv, FormatEndInv, TestInstructionInv, OpenCleanedInv, WriteHeaderInv,
   WriteLineInv, CloseCleanedInv, KilledInv, StutterInv
   DEF Next, Ended

\* The invariant of the process.
THEOREM Invariance == Spec => []Inv
<1>1. Init => Inv
  BY InitInv
<1>2. Inv /\ [Next]_vars => Inv'
  BY NextInv
<1> QED
  BY <1>1, <1>2, PTL DEF Spec

LEMMA Typed == Inv => TypeOK
<1> SUFFICES ASSUME Inv PROVE TypeOK
  OBVIOUS
<1>1. job \in Jobs \cup {"none"}
  BY JobType DEF Inv, GivenInv
<1>2. mode = "reset" => at \in DOMAIN answers
  BY AtCombination DEF Inv, ModeInv
<1>3. \A i \in DOMAIN csv : csv[i] \in Lines
  BY DEF Inv, CsvInv
<1>4. \A i \in DOMAIN survivors : survivors[i] \in 1..N
  <2> DEFINE I == 1..N
  <2>1. survivors \in Seq(I)
    BY DEF Inv, SurvivorsInv
  <2> HIDE DEF I
  <2>2. \A i \in DOMAIN survivors : survivors[i] \in I
    BY <2>1
  <2> QED
    BY <2>2 DEF I
<1> QED
  BY <1>1, <1>2, <1>3, <1>4 DEF Inv, GivenInv, ModeInv, FormattedInv, TypeOK

\* The types of Core.tla: the executor is only asked about combinations of the job,
\* and a cleanup keeps only indexes of instructions.
THEOREM TypesOK == Spec => []TypeOK
BY Invariance, Typed, PTL

\* When the loops are over, every hit was passed.
LEMMA AllPassed ==
    ASSUME Inv, Search, mode \in {"formatting", "done"}, NEW c \in Hits
    PROVE  Precedes(c, at)
<1>1. c \in (1..N) \X (1..N) \X (1..N)
  BY SearchCombination DEF Hits, Inv
<1>2. Measurement > N /\ Measurement \in Int /\ N \in Nat
  BY PositionType DEF Inv, ModeInv
<1>3. c[1] \in 1..N
  BY <1>1
<1> QED
  BY <1>2, <1>3 DEF Precedes, Measurement

LEMMA CsvHolds == Inv => CsvHoldsTheHits
<1> SUFFICES ASSUME Inv, Search PROVE CsvHoldsTheHits
  BY DEF CsvHoldsTheHits, Search
<1>1. DOMAIN csv = 1..Len(csv)
  BY DEF Inv, CsvInv
<1>2. mode \in {"formatting", "done"} => \A c \in Hits : Precedes(c, at)
  BY AllPassed
<1> QED
  BY <1>1, <1>2 DEF Inv, CsvInv, CsvHoldsTheHits

\* Whatever instructions and answers, and wherever a search ends, its CSV file has the
\* hits among the combinations gone through, each once and in their order.
THEOREM CsvIsComplete == Spec => []CsvHoldsTheHits
BY Invariance, CsvHolds, PTL

LEMMA FolderHolds == Inv => FolderHoldsTheHits
<1> SUFFICES ASSUME Inv, job = "equal", mode \in {"formatting", "done"}, OwnFiles
             PROVE  /\ DOMAIN folder = {Text(c[2]) : c \in Hits}
                    /\ \A t \in {c[2] : c \in Hits} : AreOf(folder[Text(t)], t)
  BY DEF FolderHoldsTheHits, OwnFiles
<1> DEFINE passed == {s \in 1..N : s < Trigger /\ OfTrigger(s) # {}}
<1>1. /\ DOMAIN folder = {Text(t) : t \in passed}
      /\ \A t \in passed : AreOf(folder[Text(t)], t)
  BY DEF Inv, FolderInv
<1>2. Search /\ mode # "main" /\ N \in Nat /\ Trigger > N
  BY PositionType DEF Search, Inv, ModeInv, Position
<1>3. {csv[i].combination : i \in 1..Len(csv)} = Hits /\ DOMAIN csv = 1..Len(csv)
  BY <1>2, AllPassed DEF Inv, CsvInv
<1>4. passed = {c[2] : c \in Hits}
  <2>1. ASSUME NEW c \in Hits PROVE c[2] \in passed
    <3>1. c[2] \in 1..N
      BY <1>2, SearchCombination DEF Hits, Inv
    <3>2. PICK i \in DOMAIN csv : csv[i].combination = c
      BY <1>3
    <3>3. i \in OfTrigger(c[2])
      BY <3>2 DEF OfTrigger
    <3> QED
      BY <1>2, <3>1, <3>3, PositionType DEF Inv
  <2>2. ASSUME NEW t \in passed PROVE \E c \in Hits : c[2] = t
    <3>1. PICK i \in DOMAIN csv : csv[i].combination[2] = t
      BY DEF OfTrigger
    <3> QED
      BY <1>3, <3>1
  <2> HIDE DEF passed
  <2> QED
    BY <2>1, <2>2
<1> HIDE DEF passed
<1> QED
  BY <1>1, <1>4

\* When no two triggers have the same encoding and none has a slash in its text, the
\* folder has one file for each trigger that was hit, with its lines of the CSV file.
THEOREM FolderIsComplete == Spec => []FolderHoldsTheHits
BY Invariance, FolderHolds, PTL

LEMMA FormattedKeeps == Inv => FormattedKeepsEveryFile
<1> DEFINE tested == {list[i].byte_representation : i \in 1..N}
           Shows(f, name) ==
              /\ f.trigger \in tested /\ Base64Encode(f.trigger) = name
              /\ Len(f.lines) = Len(folder[name])
              /\ \A i \in DOMAIN f.lines :
                    /\ f.lines[i].reset \in tested
                    /\ Base64Encode(f.lines[i].reset) = folder[name][i].reset
                    /\ f.lines[i].timing = folder[name][i].timing
<1> SUFFICES ASSUME Inv, job = "equal", mode = "done"
             PROVE  /\ \A name \in DOMAIN folder : \E f \in DOMAIN formatted :
                          Shows(formatted[f], name)
                    /\ Cardinality(DOMAIN formatted) = Cardinality(DOMAIN folder)
  BY DEF FormattedKeepsEveryFile
<1>1. toformat = {} /\ DOMAIN folder \ toformat = DOMAIN folder
  BY DEF Inv, FormattedInv
<1>2. /\ Cardinality(DOMAIN formatted) = Cardinality(DOMAIN folder)
      /\ \A name \in DOMAIN folder : \E f \in DOMAIN formatted : formatted[f] = Formatted(name)
  BY <1>1 DEF Inv, FormattedInv
\* What is decoded are the bytes of an instruction.
<1>3. ASSUME NEW i \in 1..N
      PROVE  /\ Base64Decode(Text(i)) \in tested
             /\ Base64Encode(Base64Decode(Text(i))) = Text(i)
  <2>1. Base64Decode(Text(i)) = list[i].byte_representation
    BY TextDecoded DEF Inv
  <2> QED
    BY <2>1 DEF Text
<1>4. ASSUME NEW name \in DOMAIN folder
      PROVE  Shows(Formatted(name), name)
  <2>1. PICK i \in 1..N : name = Text(i)
    BY DEF Inv, FilesInv
  <2>2. folder[name] \in Seq(FileLines)
    BY DEF Inv, FilesInv
  <2> DEFINE f == Formatted(name)
  <2>3. /\ f.trigger = Base64Decode(name)
        /\ f.lines = [k \in DOMAIN folder[name] |->
                        [folder[name][k] EXCEPT !.reset = Base64Decode(@)]]
    BY DEF Formatted
  <2> HIDE DEF f
  <2>4. f.trigger \in tested /\ Base64Encode(f.trigger) = name
    BY <1>3, <2>1, <2>3
  <2>5. DOMAIN f.lines = 1..Len(folder[name]) /\ Len(f.lines) = Len(folder[name])
    <3>1. Len(folder[name]) \in Nat /\ DOMAIN folder[name] = 1..Len(folder[name])
      BY <2>2
    <3> QED
      BY <2>3, <3>1
  <2>6. ASSUME NEW k \in DOMAIN f.lines
        PROVE  /\ f.lines[k].reset \in tested
               /\ Base64Encode(f.lines[k].reset) = folder[name][k].reset
               /\ f.lines[k].timing = folder[name][k].timing
    <3>1. folder[name][k] \in FileLines /\ k \in DOMAIN folder[name]
      BY <2>2, <2>3, <2>5
    <3>2. PICK j \in 1..N, timing \in Int : folder[name][k] = [reset |-> Text(j), timing |-> timing]
      BY <3>1 DEF FileLines
    <3>3. f.lines[k] = [reset |-> Base64Decode(Text(j)), timing |-> timing]
      BY <2>3, <3>1, <3>2
    <3> QED
      BY <1>3, <3>2, <3>3
  <2> QED
    BY <2>4, <2>5, <2>6 DEF f
<1> HIDE DEF Shows
<1> QED
  BY <1>2, <1>4

\* Whatever the disassemblies are, the formatted folder has every file of the folder,
\* and shows the instructions that were tested.
THEOREM FormattedIsComplete == Spec => []FormattedKeepsEveryFile
BY Invariance, FormattedKeeps, PTL

LEMMA CleanedHolds == Inv => CleanedHoldsSurvivors
<1> DEFINE S == {i \in 1..N : answers[<<i, i, i>>].error = 0}
<1> SUFFICES ASSUME Inv, job = "cleanup", ~(cleaned = Old /\ mode \notin {"writing", "done"})
             PROVE  LET Some == {i \in S : Rank(S, i) <= Len(cleaned.lines)}
                    IN  /\ Measurement > N
                        /\ Len(cleaned.lines) <= Cardinality(S)
                        /\ \A i \in Some : Base64Decode(cleaned.lines[Rank(S, i)])
                                            = list[i].byte_representation
                        /\ cleaned.lines # <<>> => cleaned.header
                        /\ mode = "done" => Some = S /\ (cleaned.header => cleaned.lines # <<>>)
  BY DEF CleanedHoldsSurvivors
<1>1. PICK n \in 0..Len(survivors), h \in BOOLEAN :
         /\ cleaned = [header |-> h, lines |-> Written(n)]
         /\ n > 0 => h
         /\ mode = "done" => n = Len(survivors) /\ (h => n > 0)
  BY DEF Inv, SurvivorsInv, CleanedInv
<1>2. N \in Nat /\ Measurement > N /\ Measurement \in Int
  BY PositionType DEF Inv, SurvivorsInv, CleanedInv
<1>3. Harmless(Measurement) = S
  BY <1>2 DEF Harmless
<1>4. /\ survivors \in Seq(1..N) /\ Len(survivors) \in Nat
      /\ Len(survivors) = Cardinality(S)
      /\ \A i \in S : survivors[Rank(S, i)] = i
  BY <1>3 DEF Inv, SurvivorsInv
<1>5. IsFiniteSet(S) /\ S \subseteq Int
  <2>1. S \in SUBSET (1..N)
    OBVIOUS
  <2>2. IsFiniteSet(1..N)
    BY <1>2, FS_Interval
  <2>3. IsFiniteSet(S)
    BY <2>1, <2>2, FS_Subset
  <2> QED
    BY <1>2, <2>3
<1>6. \A i \in S : Rank(S, i) \in 1..Len(survivors)
  BY <1>4, <1>5, RankType
<1>7. /\ n \in Nat /\ Len(Written(n)) = n /\ (Written(n) # <<>> <=> n > 0)
      /\ \A k \in 1..n : Written(n)[k] = Text(survivors[k])
  <2>1. n \in Nat
    BY <1>4
  <2>2. DOMAIN Written(n) = 1..n /\ Len(Written(n)) = n
    BY <2>1 DEF Written
  <2>3. Written(n) = <<>> <=> n = 0
    BY <2>1, <2>2
  <2> QED
    BY <2>1, <2>2, <2>3 DEF Written
<1>8. ASSUME NEW i \in S, Rank(S, i) <= n
      PROVE  Base64Decode(Written(n)[Rank(S, i)]) = list[i].byte_representation
  <2>1. Rank(S, i) \in 1..n /\ i \in 1..N
    BY <1>4, <1>6, <1>7, <1>8
  <2>2. Written(n)[Rank(S, i)] = Text(i)
    BY <1>4, <1>7, <2>1
  <2> QED
    BY <2>1, <2>2, TextDecoded DEF Inv
<1>9. cleaned.lines = Written(n) /\ cleaned.header = h
  BY <1>1
<1>10. mode = "done" => \A i \in S : Rank(S, i) <= n
  <2>1. n \in Nat /\ \A i \in S : Rank(S, i) \in 1..Len(survivors)
    BY <1>6, <1>7
  <2> HIDE DEF S
  <2> QED
    BY <1>1, <1>4, <2>1
<1> HIDE DEF S
<1> QED
  BY <1>1, <1>2, <1>4, <1>7, <1>8, <1>9, <1>10

\* Wherever a cleanup is killed: the file of the last one stays until everything is
\* tested; after that it has the first of the instructions that raised no fault, in
\* their order and byte by byte, and all of them when the cleanup ends.
THEOREM CleanedIsComplete == Spec => []CleanedHoldsSurvivors
BY Invariance, CleanedHolds, PTL


-----------------------------------------------------------------------------
(* The command line.  The prover has no induction over words, but a set of  *)
(* numbers that is closed under the next one is all there is: were one left  *)
(* out, there would be a least one, and there is, since ranks are counted    *)
(* from one.                                                                 *)

LEMMA RankOnto ==
    ASSUME NEW S, IsFiniteSet(S), S \subseteq Int
    PROVE  /\ \A i, j \in S : i < j => Rank(S, i) < Rank(S, j)
           /\ \A k \in 1..Cardinality(S) : \E m \in S : Rank(S, m) = k
<1> DEFINE c == Cardinality(S)
           r == [i \in S |-> Rank(S, i)]
<1>1. c \in Nat
  BY FS_CardinalityType
<1>2. \A i \in S : Rank(S, i) \in 1..c
  BY RankType
<1>3. \A i, j \in S : i < j => Rank(S, i) < Rank(S, j)
  <2> SUFFICES ASSUME NEW i \in S, NEW j \in S, i < j
               PROVE  Rank(S, i) < Rank(S, j)
    OBVIOUS
  <2> DEFINE I == {k \in S : k <= i}
             J == {k \in S : k <= j}
  <2>0. \A k \in S : k \in Int
    OBVIOUS
  <2>1. I \in SUBSET J /\ j \in J /\ j \notin I /\ J \in SUBSET S
    <3>1. \A k \in S : k <= i => k <= j
      BY <2>0
    <3>2. j <= j /\ ~(j <= i)
      BY <2>0
    <3> QED
      BY <3>1, <3>2
  <2>2. Rank(S, i) = Cardinality(I) /\ Rank(S, j) = Cardinality(J)
    BY DEF Rank
  <2> HIDE DEF I, J
  <2>3. IsFiniteSet(J)
    BY <2>1, FS_Subset
  <2>4. Cardinality(I) <= Cardinality(J) /\ Cardinality(I) # Cardinality(J)
    BY <2>1, <2>3, FS_Subset
  <2> QED
    BY <1>1, <1>2, <2>2, <2>4
<1>4. r \in Injection(S, 1..c)
  <2>1. r \in [S -> 1..c]
    BY <1>2
  <2>2. \A i, j \in S : r[i] = r[j] => i = j
    <3> SUFFICES ASSUME NEW i \in S, NEW j \in S, Rank(S, i) = Rank(S, j), i # j
                 PROVE  FALSE
      OBVIOUS
    <3>1. i < j \/ j < i
      OBVIOUS
    <3> QED
      BY <1>1, <1>2, <1>3, <3>1
  <2> QED
    BY <2>1, <2>2 DEF Injection, IsInjective
<1>5. r \in Surjection(S, 1..c)
  <2>1. IsFiniteSet(1..c) /\ Cardinality(1..c) = c
    BY <1>1, FS_Interval
  <2> HIDE DEF r
  <2> QED
    BY <1>4, <2>1, FS_Injection
<1>6. \A k \in 1..c : \E m \in S : Rank(S, m) = k
  <2>1. \A i \in S : r[i] = Rank(S, i)
    OBVIOUS
  <2> HIDE DEF r, c
  <2>2. \A k \in 1..c : \E m \in S : r[m] = k
    BY <1>5 DEF Surjection
  <2> QED
    BY <2>1, <2>2
<1> QED
  BY <1>3, <1>6

LEMMA LeastOf ==
    ASSUME NEW S, IsFiniteSet(S), S \subseteq Int, S # {}
    PROVE  \E m \in S : \A j \in S : m <= j
<1>1. Cardinality(S) \in Nat /\ Cardinality(S) # 0
  BY FS_CardinalityType, FS_EmptySet
<1>2. 1 \in 1..Cardinality(S)
  BY <1>1
<1>3. PICK m \in S : Rank(S, m) = 1
  BY <1>2, RankOnto
<1>4. \A j \in S : m <= j
  <2> SUFFICES ASSUME NEW j \in S, j < m PROVE FALSE
    OBVIOUS
  <2>1. Rank(S, j) < 1
    BY <1>3, RankOnto
  <2>2. Rank(S, j) \in 1..Cardinality(S)
    BY RankType
  <2> QED
    BY <1>1, <2>1, <2>2
<1> QED
  BY <1>4

LEMMA Reached ==
    ASSUME NEW n \in Nat, NEW T, 0 \in T,
           \A k \in 0..(n - 1) : k \in T => k + 1 \in T
    PROVE  \A k \in 0..n : k \in T
<1> DEFINE S == {k \in 0..n : k \notin T}
<1>1. CASE S = {}
  BY <1>1
<1>2. CASE S # {}
  <2>1. S \in SUBSET (0..n) /\ S \subseteq Int
    OBVIOUS
  <2> HIDE DEF S
  <2>2. IsFiniteSet(S)
    <3>1. IsFiniteSet(0..n)
      BY FS_Interval
    <3> QED
      BY <2>1, <3>1, FS_Subset
  <2>3. PICK m \in S : \A j \in S : m <= j
    BY <1>2, <2>1, <2>2, LeastOf
  <2>4. m \in 0..n /\ m # 0
    BY <2>3 DEF S
  <2>5. m - 1 \in 0..(n - 1) /\ m - 1 \notin S /\ (m - 1) + 1 = m
    BY <2>1, <2>3, <2>4
  <2> QED
    BY <2>3, <2>4, <2>5 DEF S
<1> QED
  BY <1>1, <1>2

\* The arguments after n words are made of those after the word before.
LEMMA AfterWord ==
    ASSUME NEW words, Len(words) \in Nat
    PROVE  /\ After(words)[0] = CommandLineArguments
           /\ \A n \in 1..Len(words) :
                 After(words)[n] = NextWord(After(words)[n - 1], words[n])
<1> DEFINE l == Len(words)
           Step(f, k) == IF k = 0 THEN CommandLineArguments ELSE NextWord(f[k - 1], words[k])
           P(f) == f = [k \in 0..l |-> Step(f, k)]
           T == {n \in 0..l : \E g : /\ DOMAIN g = 0..n
                                     /\ \A k \in 0..n : g[k] = Step(g, k)}
<1>1. 0 \in T
  <2> DEFINE g == [k \in 0..0 |-> CommandLineArguments]
  <2>1. DOMAIN g = 0..0 /\ \A k \in 0..0 : g[k] = Step(g, k)
    OBVIOUS
  <2> HIDE DEF g, Step
  <2> QED
    BY <2>1
<1>2. ASSUME NEW n \in 0..(l - 1), n \in T
      PROVE  n + 1 \in T
  <2>1. PICK g : DOMAIN g = 0..n /\ \A k \in 0..n : g[k] = Step(g, k)
    BY <1>2
  <2> DEFINE h == [k \in 0..(n + 1) |-> IF k = n + 1 THEN Step(g, n + 1) ELSE g[k]]
  <2>2. /\ \A k \in 0..n : k \in 0..(n + 1) /\ h[k] = g[k]
        /\ h[n + 1] = Step(g, n + 1)
        /\ DOMAIN h = 0..(n + 1) /\ n + 1 \in 0..l
    OBVIOUS
  <2> HIDE DEF h
  <2>3. \A k \in 0..(n + 1) : h[k] = Step(h, k)
    <3>1. h[n + 1] = Step(h, n + 1)
      BY <2>2
    <3>2. ASSUME NEW k \in 0..n PROVE h[k] = Step(h, k)
      <4>1. k = 0 \/ k - 1 \in 0..n
        OBVIOUS
      <4> QED
        BY <2>1, <2>2, <4>1
    <3>3. \A k \in 0..(n + 1) : k \in 0..n \/ k = n + 1
      OBVIOUS
    <3> QED
      BY <3>1, <3>2, <3>3
  <2> HIDE DEF Step
  <2> QED
    BY <2>2, <2>3
<1>3. l \in T
  <2>1. \A n \in 0..(l - 1) : n \in T => n + 1 \in T
    BY <1>2
  <2>2. l \in Nat
    OBVIOUS
  <2> HIDE DEF T, l
  <2>3. \A k \in 0..l : k \in T
    BY <1>1, <2>1, <2>2, Reached
  <2> QED
    BY <2>2, <2>3
<1>4. PICK g : DOMAIN g = 0..l /\ \A k \in 0..l : g[k] = Step(g, k)
  BY <1>3
<1> DEFINE h == [k \in 0..l |-> g[k]]
<1>5. P(h)
  <2>1. \A k \in 0..l : k # 0 => k - 1 \in 0..l
    OBVIOUS
  <2> QED
    BY <1>4, <2>1
<1>6. After(words) = CHOOSE f : P(f)
  BY DEF After
<1> HIDE DEF P, h
<1>7. P(After(words))
  BY <1>5, <1>6
<1> DEFINE A == After(words)
<1>8. A = [k \in 0..l |-> Step(A, k)]
  BY <1>7 DEF P
<1> HIDE DEF A
<1>9. 0 \in 0..l /\ \A n \in 1..l : n \in 0..l /\ n # 0
  OBVIOUS
<1>10. A[0] = CommandLineArguments /\ \A n \in 1..l : A[n] = NextWord(A[n - 1], words[n])
  BY <1>8, <1>9
<1> QED
  BY <1>10 DEF A


\* Reading off from the words, given which of them are values of --filter: whether
\* word n + 1 is one, whether -- is among the first n, and which of these are
\* options or files.
EndedBy(words, V, n) == \E j \in 1..n : j \notin V /\ words[j] = EndOfOptions
Takes(words, V, n) == n >= 1 /\ n \notin V /\ words[n] = "--filter" /\ ~EndedBy(words, V, n)
OptionsBy(words, V, n) ==
    {i \in 1..n : i \notin V /\ words[i] \in Dashed /\ ~EndedBy(words, V, i)}
FilesBy(words, V, n) ==
    {i \in 1..n : i \notin V /\ (words[i] \notin Dashed \/ EndedBy(words, V, i - 1))}

AreValues(words, V) ==
    /\ V \subseteq 1..Len(words)
    /\ \A i \in 1..Len(words) : i \in V <=> Takes(words, V, i - 1)

\* Word by word there is such a set.
LEMMA ValuesExist ==
    ASSUME NEW words, Len(words) \in Nat
    PROVE  \E V : AreValues(words, V)
<1> DEFINE l == Len(words)
           Good(V, n) == V \subseteq 1..n /\ \A i \in 1..n : i \in V <=> Takes(words, V, i - 1)
           T == {n \in 0..l : \E V : Good(V, n)}
<1>1. 0 \in T
  <2>1. Good({}, 0)
    OBVIOUS
  <2> HIDE DEF Good
  <2> QED
    BY <2>1
<1>2. ASSUME NEW n \in 0..(l - 1), n \in T
      PROVE  n + 1 \in T
  <2>1. PICK V : Good(V, n)
    BY <1>2
  <2> DEFINE W == IF Takes(words, V, n) THEN V \cup {n + 1} ELSE V
  <2>2. n \in Nat /\ W \subseteq 1..(n + 1) /\ \A i \in 1..n : i \in W <=> i \in V
    BY <2>1
  <2>3. n + 1 \in W <=> Takes(words, V, n)
    BY <2>1
  <2> HIDE DEF W
  <2>4. \A k \in 0..n : Takes(words, W, k) <=> Takes(words, V, k)
    <3> SUFFICES ASSUME NEW k \in 0..n
                 PROVE  Takes(words, W, k) <=> Takes(words, V, k)
      OBVIOUS
    <3>1. \A j \in 1..k : j \in W <=> j \in V
      BY <2>2
    <3>2. EndedBy(words, W, k) <=> EndedBy(words, V, k)
      BY <3>1 DEF EndedBy
    <3>3. k >= 1 => k \in 1..k
      OBVIOUS
    <3> QED
      BY <3>1, <3>2, <3>3 DEF Takes
  <2>5. Good(W, n + 1)
    <3>1. ASSUME NEW i \in 1..(n + 1)
          PROVE  i \in W <=> Takes(words, W, i - 1)
      <4>1. CASE i = n + 1
        <5>1. i - 1 = n /\ n \in 0..n
          BY <2>2, <4>1
        <5> QED
          BY <2>3, <2>4, <4>1, <5>1
      <4>2. CASE i # n + 1
        <5>1. i \in 1..n /\ i - 1 \in 0..n
          BY <2>2, <4>2
        <5> QED
          BY <2>1, <2>2, <2>4, <5>1
      <4> QED
        BY <4>1, <4>2
    <3> QED
      BY <2>2, <3>1
  <2>6. n + 1 \in 0..l
    OBVIOUS
  <2> HIDE DEF Good
  <2> QED
    BY <2>5, <2>6
<1>3. l \in T
  <2>1. \A n \in 0..(l - 1) : n \in T => n + 1 \in T
    BY <1>2
  <2>2. l \in Nat
    OBVIOUS
  <2> HIDE DEF T, l
  <2>3. \A k \in 0..l : k \in T
    BY <1>1, <2>1, <2>2, Reached
  <2> QED
    BY <2>2, <2>3
<1> QED
  BY <1>3 DEF AreValues

\* The set that Asked chooses is one.
LEMMA ValuesOfWords ==
    ASSUME NEW words, Len(words) \in Nat, DOMAIN words = 1..Len(words)
    PROVE  AreValues(words, Values(words))
<1> DEFINE P(V) == \A i \in DOMAIN words :
                      i \in V <=> /\ i > 1
                                  /\ i - 1 \notin V
                                  /\ words[i - 1] = "--filter"
                                  /\ \A j \in 1..(i - 1) : words[j] = EndOfOptions => j \in V
<1>1. \A V \in SUBSET DOMAIN words : P(V) <=> AreValues(words, V)
  <2> SUFFICES ASSUME NEW V \in SUBSET DOMAIN words
               PROVE  P(V) <=> AreValues(words, V)
    OBVIOUS
  <2>1. \A i \in DOMAIN words : i > 1 <=> i - 1 >= 1
    OBVIOUS
  <2> QED
    BY <2>1 DEF AreValues, Takes, EndedBy
<1>2. \E V \in SUBSET DOMAIN words : AreValues(words, V)
  BY ValuesExist DEF AreValues
<1>3. Values(words) = CHOOSE V \in SUBSET DOMAIN words : P(V)
  BY DEF Values
<1> HIDE DEF P
<1> QED
  BY <1>1, <1>2, <1>3


\* No name was given for the file to filter.  (A name of its own: the prover does
\* not take the empty string.)
NoName == ""

\* What the arguments are after n words, when none of them ended the process.
Reads(a, words, V, n) ==
    LET files == FilesBy(words, V, n)
    IN  /\ a.wanting <=> Takes(words, V, n)
        /\ a.ended <=> EndedBy(words, V, n)
        /\ a.options = {words[i] : i \in OptionsBy(words, V, n)}
        /\ \A i \in OptionsBy(words, V, n) : words[i] \notin OtherOptions
        /\ Len(a.positional) = Cardinality(files)
        /\ \A i \in files : a.positional[Rank(files, i)] = words[i]
        /\ \/ a.filename_filter = NoName /\ \A i \in 1..n : i \notin V
           \/ \E m \in V : /\ m \in 1..n /\ a.filename_filter = words[m]
                           /\ \A i \in V : i \in 1..n => i <= m

\* An option that is not in the table ended it.
Helps(words, V, n) == \E i \in OptionsBy(words, V, n) : words[i] \in OtherOptions

ArgumentsOf(W) ==
    [options : SUBSET W, filename_filter : W \cup {NoName}, wanting : BOOLEAN,
     help : BOOLEAN, ended : BOOLEAN, positional : Seq(W)]

LEMMA OptionNames ==
    /\ LongOptions \subseteq Dashed /\ OtherOptions \subseteq Dashed
    /\ EndOfOptions \in Dashed /\ EndOfOptions \notin LongOptions
    /\ EndOfOptions \notin OtherOptions /\ LongOptions \cap OtherOptions = {}
    /\ "--filter" \in LongOptions
    /\ Dashed = LongOptions \cup OtherOptions \cup {EndOfOptions}
BY DEF LongOptions, OtherOptions, EndOfOptions, Dashed

\* What one more word adds to the options, the files and the end of the options.
LEMMA OneMoreWord ==
    ASSUME NEW words, NEW V, NEW n \in Nat
    PROVE  /\ EndedBy(words, V, n + 1)
                 <=> EndedBy(words, V, n) \/ (n + 1 \notin V /\ words[n + 1] = EndOfOptions)
           /\ OptionsBy(words, V, n + 1) =
                 IF n + 1 \notin V /\ words[n + 1] \in Dashed /\ ~EndedBy(words, V, n + 1)
                 THEN OptionsBy(words, V, n) \cup {n + 1} ELSE OptionsBy(words, V, n)
           /\ FilesBy(words, V, n + 1) =
                 IF n + 1 \notin V /\ (words[n + 1] \notin Dashed \/ EndedBy(words, V, n))
                 THEN FilesBy(words, V, n) \cup {n + 1} ELSE FilesBy(words, V, n)
           /\ n + 1 \notin OptionsBy(words, V, n)
           /\ IsFiniteSet(FilesBy(words, V, n)) /\ FilesBy(words, V, n) \subseteq Int
           /\ \A i \in FilesBy(words, V, n) : i < n + 1
<1>1. \A i : i \in 1..(n + 1) <=> i \in 1..n \/ i = n + 1
  OBVIOUS
<1>2. n + 1 \notin 1..n /\ (n + 1) - 1 = n
  OBVIOUS
<1>3. EndedBy(words, V, n + 1)
        <=> EndedBy(words, V, n) \/ (n + 1 \notin V /\ words[n + 1] = EndOfOptions)
  BY <1>1 DEF EndedBy
<1>4. OptionsBy(words, V, n + 1) =
         IF n + 1 \notin V /\ words[n + 1] \in Dashed /\ ~EndedBy(words, V, n + 1)
         THEN OptionsBy(words, V, n) \cup {n + 1} ELSE OptionsBy(words, V, n)
  BY <1>1 DEF OptionsBy
<1>5. FilesBy(words, V, n + 1) =
         IF n + 1 \notin V /\ (words[n + 1] \notin Dashed \/ EndedBy(words, V, n))
         THEN FilesBy(words, V, n) \cup {n + 1} ELSE FilesBy(words, V, n)
  BY <1>1, <1>2 DEF FilesBy
<1>6. FilesBy(words, V, n) \in SUBSET (1..n)
  BY DEF FilesBy
<1>7. IsFiniteSet(1..n)
  BY FS_Interval
<1>8. IsFiniteSet(FilesBy(words, V, n))
  BY <1>6, <1>7, FS_Subset
<1> QED
  BY <1>2, <1>3, <1>4, <1>5, <1>6, <1>8 DEF OptionsBy

LEMMA WordCases ==
    ASSUME NEW a, NEW w, ~a.help
    PROVE  /\ a.wanting => NextWord(a, w) = [a EXCEPT !.wanting = FALSE, !.filename_filter = w]
           /\ ~a.wanting /\ (a.ended \/ w \notin Dashed) =>
                 NextWord(a, w) = [a EXCEPT !.positional = Append(a.positional, w)]
           /\ ~a.wanting /\ ~a.ended /\ w = EndOfOptions =>
                 NextWord(a, w) = [a EXCEPT !.ended = TRUE]
           /\ ~a.wanting /\ ~a.ended /\ w \in OtherOptions =>
                 NextWord(a, w) = [a EXCEPT !.help = TRUE]
           /\ ~a.wanting /\ ~a.ended /\ w \in LongOptions =>
                 NextWord(a, w) = [a EXCEPT !.options = a.options \cup {w},
                                            !.wanting = (w = "--filter")]
<1> DEFINE A == [a EXCEPT !.wanting = FALSE, !.filename_filter = w]
           B == [a EXCEPT !.positional = Append(a.positional, w)]
           C == [a EXCEPT !.ended = TRUE]
           D == [a EXCEPT !.help = TRUE]
           E == [a EXCEPT !.options = a.options \cup {w}, !.wanting = (w = "--filter")]
<1>1. NextWord(a, w) = IF a.help THEN a
                       ELSE IF a.wanting THEN A
                       ELSE IF a.ended \/ w \notin Dashed THEN B
                       ELSE IF w = EndOfOptions THEN C
                       ELSE IF w \in OtherOptions THEN D
                       ELSE E
  BY Zenon DEF NextWord
<1> HIDE DEF A, B, C, D, E
<1>2. /\ w = EndOfOptions => w \in Dashed
      /\ w \in OtherOptions => w \in Dashed /\ w # EndOfOptions
      /\ w \in LongOptions => w \in Dashed /\ w # EndOfOptions /\ w \notin OtherOptions
  BY OptionNames
<1>3. a.wanting => NextWord(a, w) = A
  BY <1>1, Zenon
<1>4. ~a.wanting /\ (a.ended \/ w \notin Dashed) => NextWord(a, w) = B
  BY <1>1, Zenon
<1>5. ~a.wanting /\ ~a.ended /\ w = EndOfOptions => NextWord(a, w) = C
  BY <1>1, <1>2, Zenon
<1>6. ~a.wanting /\ ~a.ended /\ w \in OtherOptions => NextWord(a, w) = D
  BY <1>1, <1>2, Zenon
<1>7. ~a.wanting /\ ~a.ended /\ w \in LongOptions => NextWord(a, w) = E
  BY <1>1, <1>2, Zenon
<1> QED
  BY <1>3, <1>4, <1>5, <1>6, <1>7, Zenon DEF A, B, C, D, E

LEMMA ReadsWord ==
    ASSUME NEW words, NEW V, AreValues(words, V), NEW W, NEW n \in Nat,
           n + 1 \in 1..Len(words), words[n + 1] \in W,
           NEW a \in ArgumentsOf(W), ~a.help, Reads(a, words, V, n)
    PROVE  LET b == NextWord(a, words[n + 1])
           IN  /\ b \in ArgumentsOf(W)
               /\ IF b.help THEN Helps(words, V, n + 1) ELSE Reads(b, words, V, n + 1)
<1> DEFINE m == n + 1
           w == words[m]
           b == NextWord(a, w)
           files == FilesBy(words, V, n)
           options == OptionsBy(words, V, n)
<1>1. m \in V <=> a.wanting
  <2>1. m \in V <=> Takes(words, V, m - 1)
    BY DEF AreValues
  <2>2. m - 1 = n
    OBVIOUS
  <2> QED
    BY <2>1, <2>2 DEF Reads
<1>2. a.ended <=> EndedBy(words, V, n)
  BY DEF Reads
<1>3. /\ EndedBy(words, V, m) <=> EndedBy(words, V, n) \/ (m \notin V /\ w = EndOfOptions)
      /\ OptionsBy(words, V, m) =
            IF m \notin V /\ w \in Dashed /\ ~EndedBy(words, V, m)
            THEN options \cup {m} ELSE options
      /\ FilesBy(words, V, m) =
            IF m \notin V /\ (w \notin Dashed \/ EndedBy(words, V, n))
            THEN files \cup {m} ELSE files
      /\ IsFiniteSet(files) /\ files \subseteq Int /\ \A i \in files : i < m
  BY OneMoreWord
<1>4. Takes(words, V, m) <=> m \notin V /\ w = "--filter" /\ ~EndedBy(words, V, m)
  BY DEF Takes
<1>5. m \in Nat /\ \A i : i \in 1..m <=> i \in 1..n \/ i = m
  OBVIOUS
<1>6. \A i \in 1..n : i <= m
  OBVIOUS
<1> HIDE DEF m, w, files, options
<1>7. CASE a.wanting
  <2>1. b = [a EXCEPT !.wanting = FALSE, !.filename_filter = w]
    BY <1>7, WordCases
  <2>2. /\ b \in ArgumentsOf(W) /\ ~b.help /\ ~b.wanting /\ b.filename_filter = w
        /\ b.ended = a.ended /\ b.options = a.options /\ b.positional = a.positional
    BY <2>1 DEF ArgumentsOf, w, m
  <2> HIDE DEF b
  <2>3. m \in V /\ ~Takes(words, V, m) /\ OptionsBy(words, V, m) = options
        /\ FilesBy(words, V, m) = files
        /\ (EndedBy(words, V, m) <=> EndedBy(words, V, n))
    BY <1>1, <1>3, <1>4, <1>7
  <2>4. \A i \in V : i \in 1..m => i <= m
    BY <1>5
  <2>5. Reads(b, words, V, m)
    BY <1>2, <1>5, <2>2, <2>3, <2>4 DEF Reads, files, options, w
  <2> QED
    BY <2>2, <2>5 DEF b, m, w
<1>8. CASE ~a.wanting /\ (a.ended \/ w \notin Dashed)
  <2>1. b = [a EXCEPT !.positional = Append(a.positional, w)]
    BY <1>8, WordCases
  <2>2. /\ b \in ArgumentsOf(W) /\ ~b.help /\ ~b.wanting /\ b.positional = Append(a.positional, w)
        /\ b.ended = a.ended /\ b.options = a.options /\ b.filename_filter = a.filename_filter
    <3> DEFINE q == Append(a.positional, w)
    <3>1. a.positional \in Seq(W) /\ w \in W
      BY DEF ArgumentsOf, w, m
    <3>2. q \in Seq(W) /\ b = [a EXCEPT !.positional = q]
      BY <2>1, <3>1
    <3> HIDE DEF b, q
    <3>3. /\ b \in ArgumentsOf(W) /\ b.help = a.help /\ b.wanting = a.wanting /\ b.positional = q
          /\ b.ended = a.ended /\ b.options = a.options /\ b.filename_filter = a.filename_filter
      BY <3>2 DEF ArgumentsOf
    <3> QED
      BY <1>8, <3>3 DEF q
  <2>3. a.positional \in Seq(W) /\ w \in W
    BY DEF ArgumentsOf, w, m
  <2> HIDE DEF b
  <2>4. m \notin V /\ FilesBy(words, V, m) = files \cup {m} /\ OptionsBy(words, V, m) = options
        /\ (EndedBy(words, V, m) <=> EndedBy(words, V, n)) /\ ~Takes(words, V, m)
    BY <1>1, <1>2, <1>3, <1>4, <1>8, OptionNames
  <2>5. Len(b.positional) = Cardinality(FilesBy(words, V, m))
        /\ \A i \in FilesBy(words, V, m) :
              b.positional[Rank(FilesBy(words, V, m), i)] = words[i]
    <3> DEFINE c == Cardinality(files)
    <3>1. /\ Cardinality(files \cup {m}) = c + 1
          /\ \A i \in files : Rank(files \cup {m}, i) = Rank(files, i) /\ Rank(files, i) \in 1..c
          /\ Rank(files \cup {m}, m) = c + 1
      <4>1. m \in Int /\ \A i \in files : i < m
        BY <1>3, <1>5
      <4>2. /\ Cardinality(files \cup {m}) = Cardinality(files) + 1
            /\ \A i \in files : Rank(files \cup {m}, i) = Rank(files, i)
            /\ Rank(files \cup {m}, m) = Cardinality(files) + 1
        BY <1>3, <4>1, RankExtended
      <4>3. \A i \in files : Rank(files, i) \in 1..Cardinality(files)
        BY <1>3, RankType
      <4> QED
        BY <4>2, <4>3
    <3>2. c = Len(a.positional) /\ \A i \in files : a.positional[Rank(files, i)] = words[i]
      BY DEF Reads, files
    <3>3. /\ Len(b.positional) = c + 1 /\ b.positional[c + 1] = w
          /\ \A k \in 1..c : b.positional[k] = a.positional[k]
      BY <2>2, <2>3, <3>2
    <3> QED
      BY <2>4, <3>1, <3>2, <3>3 DEF w
  <2>6. Reads(b, words, V, m)
    BY <1>2, <1>5, <2>2, <2>4, <2>5 DEF Reads, options
  <2> QED
    BY <2>2, <2>6 DEF b, m, w
<1>9. CASE ~a.wanting /\ ~a.ended /\ w = EndOfOptions
  <2>1. b = [a EXCEPT !.ended = TRUE]
    BY <1>9, WordCases
  <2>2. /\ b \in ArgumentsOf(W) /\ ~b.help /\ ~b.wanting /\ b.positional = a.positional
        /\ b.ended /\ b.options = a.options /\ b.filename_filter = a.filename_filter
    BY <1>9, <2>1 DEF ArgumentsOf
  <2> HIDE DEF b
  <2>3. m \notin V /\ FilesBy(words, V, m) = files /\ OptionsBy(words, V, m) = options
        /\ EndedBy(words, V, m) /\ ~Takes(words, V, m)
    BY <1>1, <1>2, <1>3, <1>4, <1>9, OptionNames
  <2>4. Reads(b, words, V, m)
    BY <1>5, <2>2, <2>3 DEF Reads, options, files
  <2> QED
    BY <2>2, <2>4 DEF b, m, w
<1>10. CASE ~a.wanting /\ ~a.ended /\ w \in OtherOptions
  <2>1. b = [a EXCEPT !.help = TRUE]
    BY <1>10, WordCases
  <2>2. b \in ArgumentsOf(W) /\ b.help
    BY <2>1 DEF ArgumentsOf
  <2> HIDE DEF b
  <2>3. m \in OptionsBy(words, V, m)
    BY <1>1, <1>2, <1>3, <1>10, OptionNames
  <2>4. Helps(words, V, m)
    BY <1>10, <2>3 DEF Helps, w
  <2> QED
    BY <2>2, <2>4 DEF b, m, w
<1>11. CASE ~a.wanting /\ ~a.ended /\ w \in LongOptions
  <2>1. b = [a EXCEPT !.options = a.options \cup {w}, !.wanting = (w = "--filter")]
    BY <1>11, WordCases
  <2>2. /\ b \in ArgumentsOf(W) /\ ~b.help /\ (b.wanting <=> w = "--filter")
        /\ b.positional = a.positional
        /\ b.ended = a.ended /\ b.options = a.options \cup {w}
        /\ b.filename_filter = a.filename_filter
    <3> DEFINE q == a.options \cup {w}
               x == w = "--filter"
    <3>1. q \in SUBSET W /\ x \in BOOLEAN /\ b = [a EXCEPT !.options = q, !.wanting = x]
      BY <2>1 DEF ArgumentsOf, w, m
    <3> HIDE DEF b, q, x
    <3>2. /\ b \in ArgumentsOf(W) /\ b.help = a.help /\ b.wanting = x /\ b.positional = a.positional
          /\ b.ended = a.ended /\ b.options = q /\ b.filename_filter = a.filename_filter
      BY <3>1 DEF ArgumentsOf
    <3> QED
      BY <3>2 DEF q, x
  <2> HIDE DEF b
  <2>3. m \notin V /\ FilesBy(words, V, m) = files /\ OptionsBy(words, V, m) = options \cup {m}
        /\ ~EndedBy(words, V, m) /\ (Takes(words, V, m) <=> w = "--filter")
    BY <1>1, <1>2, <1>3, <1>4, <1>11, OptionNames
  <2>4. {words[i] : i \in options \cup {m}} = {words[i] : i \in options} \cup {w}
    BY DEF w
  <2>5. \A i \in options \cup {m} : words[i] \notin OtherOptions
    <3>1. \A i \in options : words[i] \notin OtherOptions
      BY DEF Reads, options
    <3>2. words[m] \notin OtherOptions
      BY <1>11, OptionNames DEF w
    <3> QED
      BY <3>1, <3>2
  <2>6. Reads(b, words, V, m)
    <3>1. b.options = {words[i] : i \in OptionsBy(words, V, m)}
      BY <2>2, <2>3, <2>4 DEF Reads, options
    <3>2. \A i \in OptionsBy(words, V, m) : words[i] \notin OtherOptions
      BY <2>3, <2>5
    <3>3. /\ b.wanting <=> Takes(words, V, m)
          /\ b.ended <=> EndedBy(words, V, m)
      BY <1>11, <2>2, <2>3
    <3>4. /\ Len(b.positional) = Cardinality(FilesBy(words, V, m))
          /\ \A i \in FilesBy(words, V, m) :
                b.positional[Rank(FilesBy(words, V, m), i)] = words[i]
      BY <2>2, <2>3 DEF Reads, files
    <3>5. \/ b.filename_filter = NoName /\ \A i \in 1..m : i \notin V
          \/ \E k \in V : /\ k \in 1..m /\ b.filename_filter = words[k]
                          /\ \A i \in V : i \in 1..m => i <= k
      BY <1>5, <2>2, <2>3 DEF Reads
    <3> QED
      BY <3>1, <3>2, <3>3, <3>4, <3>5 DEF Reads
  <2> QED
    BY <2>2, <2>6 DEF b, m, w
<1> QED
  BY <1>7, <1>8, <1>9, <1>10, <1>11, OptionNames


LEMMA WordsRead ==
    ASSUME NEW words, Len(words) \in Nat, NEW V, AreValues(words, V),
           NEW n \in 0..Len(words)
    PROVE  IF After(words)[n].help THEN Helps(words, V, n)
                                   ELSE Reads(After(words)[n], words, V, n)
<1> DEFINE l == Len(words)
           A == After(words)
           W == {words[i] : i \in 1..l}
           Good(k) == /\ A[k] \in ArgumentsOf(W)
                      /\ IF A[k].help THEN Helps(words, V, k) ELSE Reads(A[k], words, V, k)
           T == {k \in 0..l : Good(k)}
<1>1. A[0] = CommandLineArguments /\ \A k \in 1..l : A[k] = NextWord(A[k - 1], words[k])
  BY AfterWord
<1> HIDE DEF A
<1>2. Good(0)
  <2> DEFINE e == CommandLineArguments
  <2>1. e = [options |-> {}, filename_filter |-> NoName, wanting |-> FALSE, help |-> FALSE,
             ended |-> FALSE, positional |-> <<>>]
    BY Zenon DEF CommandLineArguments, NoName
  <2> HIDE DEF e, W
  <2>2. e \in ArgumentsOf(W) /\ ~e.help
    BY <2>1 DEF ArgumentsOf
  <2>3. OptionsBy(words, V, 0) = {} /\ FilesBy(words, V, 0) = {}
        /\ ~EndedBy(words, V, 0) /\ ~Takes(words, V, 0)
    BY DEF OptionsBy, FilesBy, EndedBy, Takes
  <2>4. Cardinality({}) = 0
    BY FS_EmptySet
  <2>5. Reads(e, words, V, 0)
    <3>1. /\ e.options = {} /\ e.filename_filter = NoName /\ ~e.wanting /\ ~e.ended
          /\ Len(e.positional) = 0
      BY <2>1
    <3>2. {words[i] : i \in OptionsBy(words, V, 0)} = {} /\ 1..0 = {}
      BY <2>3
    <3> QED
      BY <2>3, <2>4, <3>1, <3>2 DEF Reads
  <2> QED
    BY <1>1, <2>2, <2>5 DEF e
<1>3. ASSUME NEW k \in 0..(l - 1), Good(k)
      PROVE  Good(k + 1)
  <2>1. /\ k \in Nat /\ k + 1 \in 1..l /\ words[k + 1] \in W
        /\ A[k + 1] = NextWord(A[k], words[k + 1])
    <3>1. k + 1 \in 1..l /\ (k + 1) - 1 = k /\ k \in Nat
      OBVIOUS
    <3> QED
      BY <1>1, <3>1
  <2>2. CASE A[k].help
    <3>1. A[k + 1] = A[k]
      BY <2>1, <2>2, Zenon DEF NextWord
    <3>2. OptionsBy(words, V, k) \subseteq OptionsBy(words, V, k + 1)
      <4>1. \A i \in 1..k : i \in 1..(k + 1)
        BY <2>1
      <4> QED
        BY <4>1 DEF OptionsBy
    <3>3. Helps(words, V, k + 1)
      BY <1>3, <2>2, <3>2 DEF Helps
    <3> QED
      BY <1>3, <2>2, <3>1, <3>3
  <2>3. CASE ~A[k].help
    <3> HIDE DEF W
    <3> QED
      BY <1>3, <2>1, <2>3, ReadsWord
  <2> QED
    BY <2>2, <2>3
<1> HIDE DEF Good
<1>4. 0 \in T /\ \A k \in 0..(l - 1) : k \in T => k + 1 \in T
  BY <1>2, <1>3
<1>5. l \in Nat
  OBVIOUS
<1> HIDE DEF T, l
<1>6. \A k \in 0..l : k \in T
  BY <1>4, <1>5, Reached
<1>7. Good(n)
  BY <1>6 DEF T, l
<1> QED
  BY <1>7 DEF Good, A

\* The first two of a set of numbers are those of rank one and two.
LEMMA FirstTwo ==
    ASSUME NEW S, IsFiniteSet(S), S \subseteq Int, Cardinality(S) >= 2
    PROVE  \E i, j \in S :
              /\ Rank(S, i) = 1 /\ Rank(S, j) = 2
              /\ {k \in S : Cardinality({m \in S : m < k}) < 2} = {i, j}
<1>1. Cardinality(S) \in Nat /\ 1 \in 1..Cardinality(S) /\ 2 \in 1..Cardinality(S)
  BY FS_CardinalityType
<1>2. PICK i \in S, j \in S : Rank(S, i) = 1 /\ Rank(S, j) = 2
  BY <1>1, RankOnto
<1>3. \A k \in S : Cardinality({m \in S : m < k}) = Rank(S, k) - 1
  <2> SUFFICES ASSUME NEW k \in S
               PROVE  Cardinality({m \in S : m < k}) = Rank(S, k) - 1
    OBVIOUS
  <2> DEFINE B == {m \in S : m < k}
             U == {m \in S : m <= k}
  <2>1. U = B \cup {k} /\ k \notin B /\ B \in SUBSET S
    <3>1. \A m \in S : m <= k <=> m < k \/ m = k
      OBVIOUS
    <3>2. ~(k < k)
      OBVIOUS
    <3> QED
      BY <3>1, <3>2
  <2>2. Rank(S, k) = Cardinality(U)
    BY DEF Rank
  <2> HIDE DEF B, U
  <2>3. IsFiniteSet(B) /\ Cardinality(B) \in Nat
    BY <2>1, FS_Subset, FS_CardinalityType
  <2>4. Cardinality(U) = Cardinality(B) + 1
    BY <2>1, <2>3, FS_AddElement
  <2> QED
    BY <2>2, <2>3, <2>4 DEF B
<1>4. \A k \in S : Rank(S, k) \in 1..Cardinality(S)
  BY RankType
<1>5. \A k, m \in S : Rank(S, k) = Rank(S, m) => k = m
  <2> SUFFICES ASSUME NEW k \in S, NEW m \in S, Rank(S, k) = Rank(S, m), k # m
               PROVE  FALSE
    OBVIOUS
  <2>1. k < m \/ m < k
    OBVIOUS
  <2>2. \A x, y \in S : x < y => Rank(S, x) < Rank(S, y)
    BY RankOnto
  <2>3. Rank(S, k) \in Int /\ Rank(S, m) \in Int
    BY <1>1, <1>4
  <2> QED
    BY <2>1, <2>2, <2>3
<1>6. \A k \in S : Cardinality({m \in S : m < k}) < 2 <=> k \in {i, j}
  <2> SUFFICES ASSUME NEW k \in S
               PROVE  Rank(S, k) - 1 < 2 <=> k \in {i, j}
    BY <1>3
  <2>1. Rank(S, k) \in Nat /\ Rank(S, k) # 0
    BY <1>1, <1>4
  <2> QED
    BY <1>2, <1>5, <2>1
<1> QED
  BY <1>2, <1>6


\* The job that main makes of the words is the one they ask for by their place.
LEMMA JobOfWords ==
    ASSUME NEW words, Len(words) \in Nat, DOMAIN words = 1..Len(words)
    PROVE  Job(ParseArguments(words)) = Asked(words)
<1> DEFINE l == Len(words)
           V == Values(words)
           a == ParseArguments(words)
           free == DOMAIN words \ V
           options == {i \in free : /\ words[i] \in Dashed
                                    /\ \A j \in free : words[j] = EndOfOptions => i < j}
           ends == {i \in free : /\ words[i] = EndOfOptions
                                 /\ \A j \in free : words[j] = EndOfOptions => i <= j}
           files == free \ (options \cup ends)
           asks(o) == \E i \in options : words[i] = o
           firsts == {i \in files : Cardinality({j \in files : j < i}) < 2}
           last == CHOOSE i \in V : \A j \in V : j <= i
           unusable == {i \in options : \/ words[i] \in OtherOptions
                                        \/ words[i] = "--filter" /\ i = l}
           named == NDEBUG \/ \A i \in firsts : words[i] # NoName
           unnamed == ~NDEBUG /\ words[last] = NoName
<1>1. Asked(words) =
         IF unusable # {} THEN "help"
         ELSE IF asks("--confirm")
         THEN IF Cardinality(files) < 2 THEN "usage" ELSE IF named THEN "confirm" ELSE "abort"
         ELSE IF asks("--filter") THEN IF unnamed THEN "abort" ELSE "filter"
         ELSE IF asks("--cleanup") THEN "cleanup"
         ELSE IF asks("--all") THEN "all"
         ELSE "equal"
  BY Zenon DEF Asked, NoName
<1> DEFINE blank == ~NDEBUG /\ NoName \in {a.positional[1], a.positional[2]}
           empty == ~NDEBUG /\ a.filename_filter = NoName
<1>2. Job(a) =
         IF a.help \/ a.wanting THEN "help"
         ELSE IF "--confirm" \in a.options
         THEN IF Len(a.positional) < 2 THEN "usage" ELSE IF blank THEN "abort" ELSE "confirm"
         ELSE IF "--filter" \in a.options THEN IF empty THEN "abort" ELSE "filter"
         ELSE IF "--cleanup" \in a.options THEN "cleanup"
         ELSE IF "--all" \in a.options THEN "all"
         ELSE "equal"
  BY Zenon DEF Job, NoName
<1>3. AreValues(words, V)
  BY ValuesOfWords
<1>4. IF a.help THEN Helps(words, V, l) ELSE Reads(a, words, V, l)
  <2>1. l \in 0..l
    OBVIOUS
  <2>2. a = After(words)[l]
    BY DEF ParseArguments
  <2> HIDE DEF a, V, l
  <2> QED
    BY <1>3, <2>1, <2>2, WordsRead DEF l
<1> HIDE DEF a, V
<1>5. options = OptionsBy(words, V, l)
  <2>1. ASSUME NEW i \in 1..l
        PROVE  (\A j \in free : words[j] = EndOfOptions => i < j) <=> ~EndedBy(words, V, i)
    <3>1. \A j \in 1..l : ~(i < j) <=> j \in 1..i
      OBVIOUS
    <3>2. \A j \in 1..i : j \in 1..l
      OBVIOUS
    <3> QED
      BY <3>1, <3>2 DEF EndedBy
  <2> QED
    BY <2>1 DEF OptionsBy
<1>6. files = FilesBy(words, V, l)
  <2>1. ASSUME NEW i \in free
        PROVE  i \in options \cup ends <=> words[i] \in Dashed /\ ~EndedBy(words, V, i - 1)
    <3>1. i \in options <=> words[i] \in Dashed /\ \A j \in free : words[j] = EndOfOptions => i < j
      OBVIOUS
    <3>2. i \in ends <=> words[i] = EndOfOptions
                            /\ \A j \in free : words[j] = EndOfOptions => i <= j
      OBVIOUS
    <3>3. ~EndedBy(words, V, i - 1) <=> \A j \in free : words[j] = EndOfOptions => i <= j
      <4>1. \A j \in 1..l : ~(i <= j) <=> j \in 1..(i - 1)
        OBVIOUS
      <4>2. \A j \in 1..(i - 1) : j \in 1..l
        OBVIOUS
      <4> QED
        BY <4>1, <4>2 DEF EndedBy
    <3>4. \A j \in free : i < j <=> i <= j /\ j # i
      OBVIOUS
    <3> HIDE DEF options, ends, free
    <3> QED
      BY <3>1, <3>2, <3>3, <3>4, OptionNames
  <2> HIDE DEF options, ends
  <2>2. \A i \in 1..l : i \in files <=> i \in FilesBy(words, V, l)
    BY <2>1 DEF FilesBy
  <2> QED
    BY <2>2 DEF FilesBy
<1> HIDE DEF options, files
<1>7. unusable # {} <=> a.help \/ a.wanting
  <2>1. \A i \in options : i \in 1..l /\ i \notin V /\ ~EndedBy(words, V, i)
    BY <1>5 DEF OptionsBy
  <2>2. Takes(words, V, l) <=> \E i \in options : words[i] = "--filter" /\ i = l
    <3>1. Takes(words, V, l) => l \in options /\ words[l] = "--filter"
      BY <1>5, OptionNames DEF Takes, OptionsBy
    <3>2. ASSUME NEW i \in options, words[i] = "--filter", i = l
          PROVE  Takes(words, V, l)
      BY <2>1, <3>2 DEF Takes
    <3> QED
      BY <3>1, <3>2
  <2>3. CASE a.help
    BY <1>4, <1>5, <2>3 DEF Helps
  <2>4. CASE ~a.help
    BY <1>4, <1>5, <2>2, <2>4 DEF Reads
  <2> QED
    BY <2>3, <2>4
<1>8. ASSUME unusable = {}
      PROVE  \A o : asks(o) <=> o \in a.options
  BY <1>4, <1>5, <1>7, <1>8 DEF Reads
<1>9. ASSUME unusable = {}
      PROVE  /\ Len(a.positional) = Cardinality(files)
             /\ Cardinality(files) \in Nat
             /\ Cardinality(files) >= 2 => (named <=> ~blank)
  <2>1. /\ Len(a.positional) = Cardinality(files)
        /\ \A i \in files : a.positional[Rank(files, i)] = words[i]
    BY <1>4, <1>6, <1>7, <1>9 DEF Reads
  <2>2. IsFiniteSet(files) /\ files \subseteq Int
    <3>1. l \in Nat
      OBVIOUS
    <3> HIDE DEF l
    <3> QED
      BY <1>6, <3>1, OneMoreWord
  <2>3. Cardinality(files) \in Nat
    BY <2>2, FS_CardinalityType
  <2>4. ASSUME Cardinality(files) >= 2 PROVE named <=> ~blank
    <3>1. PICK i \in files, j \in files :
             Rank(files, i) = 1 /\ Rank(files, j) = 2 /\ firsts = {i, j}
      BY <2>2, <2>4, FirstTwo
    <3>2. a.positional[1] = words[i] /\ a.positional[2] = words[j]
      BY <2>1, <3>1
    <3> HIDE DEF firsts
    <3> QED
      BY <3>1, <3>2
  <2> QED
    BY <2>1, <2>3, <2>4
<1>10. ASSUME unusable = {}, asks("--filter")
       PROVE  empty <=> unnamed
  <2>1. PICK i \in options : words[i] = "--filter"
    BY <1>10
  <2>2. i \in 1..l /\ i \notin V /\ ~EndedBy(words, V, i) /\ i # l
    BY <1>5, <1>10, <2>1 DEF OptionsBy
  <2>3. i + 1 \in V /\ i + 1 \in 1..l
    <3>1. i + 1 \in 1..l /\ (i + 1) - 1 = i /\ i >= 1
      <4>1. l \in Nat
        OBVIOUS
      <4> HIDE DEF l
      <4> QED
        BY <2>2, <4>1
    <3> QED
      BY <1>3, <2>1, <2>2, <3>1 DEF AreValues, Takes
  <2>4. PICK m \in V : /\ m \in 1..l /\ a.filename_filter = words[m]
                       /\ \A k \in V : k \in 1..l => k <= m
    BY <1>4, <1>7, <1>10, <2>3 DEF Reads
  <2>5. V \subseteq 1..l
    BY <1>3 DEF AreValues
  <2>6. last = m
    <3>1. \A k \in V : k <= m
      BY <2>4, <2>5
    <3>2. \A k \in V : (\A j \in V : j <= k) => k = m
      BY <2>4, <2>5, <3>1
    <3> QED
      BY <3>1, <3>2
  <2> HIDE DEF last
  <2> QED
    BY <2>4, <2>6
<1> HIDE DEF asks, named, unnamed, blank, empty, unusable
<1>11. ASSUME unusable # {} PROVE Job(a) = Asked(words)
  <2>1. Job(a) = "help"
    BY <1>2, <1>7, <1>11
  <2>2. Asked(words) = "help"
    BY <1>1, <1>11
  <2> QED
    BY <2>1, <2>2
<1>12. ASSUME unusable = {} PROVE Job(a) = Asked(words)
  <2>1. ~(a.help \/ a.wanting)
    BY <1>7, <1>12
  <2>2. \A o : asks(o) <=> o \in a.options
    BY <1>8, <1>12
  <2>3. CASE asks("--confirm")
    <3>1. Job(a) = IF Len(a.positional) < 2 THEN "usage" ELSE IF blank THEN "abort" ELSE "confirm"
      BY <1>2, <2>1, <2>2, <2>3
    <3>2. Asked(words) = IF Cardinality(files) < 2 THEN "usage" ELSE IF named THEN "confirm" ELSE "abort"
      BY <1>1, <1>12, <2>3
    <3> QED
      BY <1>9, <1>12, <3>1, <3>2
  <2>4. CASE ~asks("--confirm") /\ asks("--filter")
    <3>1. Job(a) = IF empty THEN "abort" ELSE "filter"
      BY <1>2, <2>1, <2>2, <2>4
    <3>2. Asked(words) = IF unnamed THEN "abort" ELSE "filter"
      BY <1>1, <1>12, <2>4
    <3> QED
      BY <1>10, <1>12, <2>4, <3>1, <3>2
  <2>5. CASE ~asks("--confirm") /\ ~asks("--filter")
    <3>1. Job(a) = IF asks("--cleanup") THEN "cleanup" ELSE IF asks("--all") THEN "all" ELSE "equal"
      BY <1>2, <2>1, <2>2, <2>5
    <3>2. Asked(words) = IF asks("--cleanup") THEN "cleanup" ELSE IF asks("--all") THEN "all" ELSE "equal"
      BY <1>1, <1>12, <2>5
    <3> QED
      BY <3>1, <3>2
  <2> QED
    BY <2>3, <2>4, <2>5
<1>13. Job(a) = Asked(words)
  BY <1>11, <1>12
<1> QED
  BY <1>13 DEF a

\* main does what the words of the command line ask for by their place: options are
\* not the values of --filter, files may follow --, and a search is started only
\* when nothing else is asked for (osiris.cc).
THEOREM JobIsAsked == Spec => []JobAsAsked
<1>1. Inv => JobAsAsked
  <2> SUFFICES ASSUME Inv, mode # "main" PROVE job = Asked(argv)
    BY DEF JobAsAsked
  <2>1. job = Job(ParseArguments(argv))
    BY DEF Inv, GivenInv
  <2>2. Len(argv) \in Nat /\ DOMAIN argv = 1..Len(argv)
    BY GivenFacts DEF Inv
  <2> QED
    BY <2>1, <2>2, JobOfWords
<1> QED
  BY <1>1, Invariance, PTL
=============================================================================
