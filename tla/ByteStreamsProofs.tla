-------------------------- MODULE ByteStreamsProofs --------------------------
(***************************************************************************)
(* Proofs about module ByteStreams: whatever the system refuses, and       *)
(* however often the file is cut short or held by another process, a page  *)
(* that was written is kept and can be read, and a stream that ends in     *)
(* order gives back what the file grew ahead.                              *)
(***************************************************************************)
EXTENDS ByteStreams, SequenceTheorems, TLAPS

Page == {Fresh, Written}
MappedStreams == [kind : {"mapped"}, write : {TRUE}, len : Nat, view : BOOLEAN]
OtherStreams == [kind : {"crt", "win", "real"}, write : BOOLEAN, len : Nat, view : BOOLEAN]

TypeOK ==
  /\ file = NoFile \/ file \in Seq(Page)
  /\ told \in Seq(Page \cup {Gone}) /\ mac = Len(told)
  /\ stm \in {NoStream, LostStream} \cup MappedStreams \cup OtherStreams
  /\ tidy \in BOOLEAN
  /\ file = NoFile => stm = NoStream /\ told = <<>>

\* The pages of a told sequence are in a file f.
KeptIn(t, f) ==
  \A i \in 1 .. Len(t) : t[i] # Gone => i <= Len(f) /\ (t[i] = Written => f[i] = Written)

\* A mapped stream is no longer than its file, and no shorter than what was written;
\* it has its view unless the file was cut.
SeenBy(s, t, f) ==
  /\ s.len <= Len(f)
  /\ \A i \in 1 .. Len(t) : t[i] # Gone => i <= s.len
  /\ s.view \/ \E j \in 1 .. Len(t) : t[j] = Gone

\* What is as long as the multistream file: a mapped stream, else the file itself.
Trimmed(s, f, n) ==
  /\ s.kind # "lost"
  /\ IF s.kind = "mapped" THEN s.len = n ELSE Len(f) = n

IInv ==
  /\ TypeOK
  /\ KeptIn(told, file)
  /\ stm.kind = "mapped" => SeenBy(stm, told, file)
  /\ tidy /\ file # NoFile => Trimmed(stm, file, mac)

-----------------------------------------------------------------------------
(* Files that change their size.                                           *)

LEMMA SizedFacts ==
  ASSUME NEW S, Fresh \in S, NEW f \in Seq(S), NEW n \in Nat
  PROVE  /\ Sized(f, n) \in Seq(S)
         /\ Len(Sized(f, n)) = n
         /\ \A i \in 1 .. n : Sized(f, n)[i] = IF i <= Len(f) THEN f[i] ELSE Fresh
<1>1. \A i \in 1 .. n : i <= Len(f) => f[i] \in S
  BY ElementOfSeq
<1>2. Sized(f, n) \in [1 .. n -> S]
  BY <1>1 DEF Sized
<1>3. Sized(f, n) \in Seq(S) /\ Len(Sized(f, n)) = n
  BY <1>2, IsASeq
<1>4. QED
  BY <1>3 DEF Sized

LEMMA SizedToItself ==
  ASSUME NEW S, Fresh \in S, NEW f \in Seq(S)
  PROVE  Sized(f, Len(f)) = f
<1>1. Len(f) \in Nat
  OBVIOUS
<1>2. QED
  BY <1>1, SizedFacts, SeqEqual

\* fSetSize never makes a file smaller.
LEMMA SizesGrow ==
  ASSUME NEW S, NEW f \in Seq(S), NEW n \in Nat, n > Len(f), NEW size \in SizesOnDisk(f, n)
  PROVE  size \in Nat /\ size >= Len(f)
<1>1. Len(f) \in Nat
  OBVIOUS
<1>2. size \in Tries(f, n) \cup {Len(f)}
  BY DEF SizesOnDisk
<1>3. size \in Len(f) .. FirstTry(f, n) \/ size = n \/ size = Len(f)
  BY <1>2 DEF Tries
<1>4. QED
  BY <1>1, <1>3

\* A file that f became by growing, and by nothing else.
Longer(f, g) == g \in Seq(Page) /\ Len(f) <= Len(g) /\ \A i \in 1 .. Len(f) : g[i] = f[i]

LEMMA SizedLonger ==
  ASSUME NEW f \in Seq(Page), NEW n \in Nat, n >= Len(f)
  PROVE  Longer(f, Sized(f, n)) /\ Len(Sized(f, n)) = n
<1>1. Len(f) \in Nat
  OBVIOUS
<1>2. Fresh \in Page
  BY DEF Page
<1>3. /\ Sized(f, n) \in Seq(Page)
      /\ Len(Sized(f, n)) = n
      /\ \A i \in 1 .. n : Sized(f, n)[i] = IF i <= Len(f) THEN f[i] ELSE Fresh
  BY <1>2, SizedFacts
<1>4. QED
  BY <1>1, <1>3 DEF Longer

LEMMA LongerKeeps ==
  ASSUME NEW t \in Seq(Page \cup {Gone}), NEW f \in Seq(Page), NEW g, Longer(f, g), KeptIn(t, f)
  PROVE  KeptIn(t, g)
<1>1. /\ Len(f) \in Nat
      /\ Len(g) \in Nat
  BY DEF Longer
<1>2. QED
  BY <1>1 DEF KeptIn, Longer

\* A mapped stream that is given a size has it, or has lost its view on the way.
LEMMA SetSizeFacts ==
  ASSUME NEW f \in Seq(Page), NEW s \in MappedStreams, NEW n \in Nat, NEW r \in fSetSize(f, s, n)
  PROVE  /\ Longer(f, r.f)
         /\ r.s \in MappedStreams /\ r.s.write = s.write
         /\ \/ r.ok = TRUE /\ r.s.len = n /\ n <= Len(r.f) /\ (s.view => r.s.view)
            \/ r.ok = FALSE /\ r.s.len = s.len /\ n > Len(f)
<1>1. Len(f) \in Nat
  OBVIOUS
<1>2. CASE n <= Len(f)
  <2>1. r = Result(TRUE, f, [s EXCEPT !.len = n])
    BY <1>2 DEF fSetSize
  <2>2. r.ok = TRUE /\ r.f = f /\ r.s = [s EXCEPT !.len = n]
    BY <2>1 DEF Result
  <2>3. [s EXCEPT !.len = n] \in MappedStreams
    BY DEF MappedStreams
  <2>4. r.s.write = s.write /\ r.s.len = n /\ r.s.view = s.view
    BY <2>2 DEF MappedStreams
  <2>5. QED
    BY <1>1, <1>2, <2>2, <2>3, <2>4 DEF Longer
<1>3. CASE ~(n <= Len(f))
  <2>1. PICK size \in SizesOnDisk(f, n) : r = Grown(f, s, n, size)
    BY <1>3 DEF fSetSize
  <2>2. size \in Nat /\ size >= Len(f)
    BY <1>1, <1>3, SizesGrow
  <2>3. Longer(f, Sized(f, size)) /\ Len(Sized(f, size)) = size
    BY <2>2, SizedLonger
  <2>4. CASE size < n \/ ~Maps(Sized(f, size))
    <3>1. r.ok = FALSE /\ r.f = Sized(f, size) /\ r.s = [s EXCEPT !.view = FALSE]
      BY <2>1, <2>4 DEF Grown, Result
    <3>2. r.s \in MappedStreams /\ r.s.write = s.write /\ r.s.len = s.len
      BY <3>1 DEF MappedStreams
    <3>3. QED
      BY <1>1, <1>3, <2>3, <3>1, <3>2
  <2>5. CASE ~(size < n \/ ~Maps(Sized(f, size)))
    <3>1. r.ok = TRUE /\ r.f = Sized(f, size) /\ r.s = [s EXCEPT !.len = n, !.view = TRUE]
      BY <2>1, <2>5 DEF Grown, Result
    <3>2. r.s \in MappedStreams /\ r.s.write = s.write /\ r.s.len = n /\ r.s.view = TRUE
      BY <3>1 DEF MappedStreams
    <3>3. QED
      BY <2>2, <2>3, <2>5, <3>1, <3>2
  <2>6. QED
    BY <2>4, <2>5
<1>4. QED
  BY <1>2, <1>3

-----------------------------------------------------------------------------
(* The invariant holds initially, and every action keeps it.               *)

LEMMA InitInv == BytesInit => IInv
<1>1. <<>> \in Seq(Page \cup {Gone}) /\ Len(<<>>) = 0
  OBVIOUS
<1>2. QED
  BY <1>1 DEF BytesInit, IInv, TypeOK, KeptIn, NoStream

LEMMA Kinds ==
  /\ \A s \in MappedStreams : s.kind = "mapped" /\ s.write = TRUE
  /\ \A s \in OtherStreams : s.kind \in {"crt", "win", "real"}
  /\ NoStream.kind = "none" /\ LostStream.kind = "lost"
  /\ NoStream.write = FALSE /\ LostStream.write = FALSE
  /\ \A k \in {"crt", "win", "real"}, w \in BOOLEAN, n \in Nat : Stream(k, w, n) \in OtherStreams
  /\ \A n \in Nat :
       /\ Stream("mapped", TRUE, n) \in MappedStreams
       /\ Stream("mapped", TRUE, n).len = n
       /\ Stream("mapped", TRUE, n).view = TRUE
  /\ FileKind \in {"crt", "win"}
  /\ NoFile \notin Seq(Page)
<1>1. NoFile \notin Seq(Page)
  <2>1. SUFFICES ASSUME NoFile \in Seq(Page) PROVE FALSE
    OBVIOUS
  <2>2. Len(NoFile) = 1 /\ NoFile[1] = Gone
    BY DEF NoFile
  <2>3. NoFile[1] \in Page
    BY <2>1, <2>2, ElementOfSeq
  <2>4. QED
    BY <2>2, <2>3 DEF Page, Gone, Fresh, Written
<1>2. QED
  BY <1>1 DEF MappedStreams, OtherStreams, NoStream, LostStream, Stream, FileKind

LEMMA OpenInv ==
  ASSUME IInv, NEW write \in BOOLEAN, Open(write)
  PROVE  IInv'
<1> USE DEF TypeOK
<1>1. file \in Seq(Page) /\ Len(file) \in Nat /\ told' = told /\ mac' = mac /\ tidy' = tidy
  BY DEF IInv, Open, Opened
<1>2. tidy => Len(file) = mac
  BY Kinds, <1>1 DEF IInv, Open, Trimmed
<1>3. stm' = OpenThere(write).s /\ file' = OpenThere(write).f
  BY DEF Open, Opened
<1>4. CASE write /\ mapped
  <2> DEFINE s == Stream("mapped", TRUE, Len(file))
  <2>1. s \in MappedStreams /\ s.kind = "mapped" /\ s.len = Len(file) /\ s.write = TRUE /\ s.view = TRUE
    BY Kinds, <1>1
  <2> HIDE DEF s
  <2>2. Released(file, s) = file
    BY <1>1, <2>1, SizedToItself DEF Released, Page
  <2>3. OpenThere(write) = MapOpen(file, s)
    BY <1>4 DEF OpenThere, s
  <2>4. file' = file /\ stm' \in {s, NoStream}
    BY <1>3, <2>2, <2>3 DEF MapOpen
  <2>5. stm' = s => SeenBy(stm', told', file')
    <3>1. \A i \in 1 .. Len(told) : told[i] # Gone => i <= Len(file)
      BY DEF IInv, KeptIn
    <3>2. QED
      BY <1>1, <2>1, <2>4, <3>1 DEF SeenBy
  <2>6. tidy => Trimmed(stm', file', mac')
    BY <1>1, <1>2, <2>1, <2>4, Kinds DEF Trimmed
  <2>7. KeptIn(told', file')
    BY <1>1, <2>4 DEF IInv
  <2>8. TypeOK'
    BY <1>1, <2>1, <2>4, Kinds DEF IInv
  <2>9. stm'.kind = "mapped" => SeenBy(stm', told', file')
    BY <2>4, <2>5, Kinds
  <2>10. QED
    BY <1>1, <2>6, <2>7, <2>8, <2>9 DEF IInv
<1>5. CASE ~(write /\ mapped)
  <2>1. file' = file /\ stm' = Stream(FileKind, write, 0)
    BY <1>3, <1>5 DEF OpenThere
  <2>2. stm' \in OtherStreams
    BY <2>1, Kinds
  <2>3. tidy => Trimmed(stm', file', mac')
    BY <1>1, <1>2, <2>1, <2>2, Kinds DEF Trimmed
  <2>4. TypeOK'
    BY <1>1, <2>1, <2>2, Kinds DEF IInv
  <2>5. QED
    BY <1>1, <2>1, <2>2, <2>3, <2>4, Kinds DEF IInv
<1>6. QED
  BY <1>4, <1>5

\* Nothing was told of a file that is new.
LEMMA CreateInv ==
  ASSUME cbGrowth \in Nat, MinSize \in Nat, IInv, Create
  PROVE  IInv'
<1> USE DEF TypeOK
<1> DEFINE f == IF file = NoFile THEN <<>> ELSE file
<1>1. f \in Seq(Page) /\ Len(f) \in Nat
  BY DEF IInv
<1>2. /\ told' = <<>> /\ mac' = 0 /\ Len(told') = 0
      /\ told' \in Seq(Page \cup {Gone})
  BY DEF Create, Opened
<1>3. tidy' \in BOOLEAN /\ (tidy' => file = NoFile)
  BY DEF IInv, Create
<1>4. stm' = OpenNew.s /\ file' = OpenNew.f
  BY DEF Create, Opened
<1>5. SUFFICES /\ file' \in Seq(Page)
               /\ stm' \in {NoStream} \cup MappedStreams \cup OtherStreams
               /\ stm'.kind = "mapped" => SeenBy(stm', told', file')
               /\ tidy' => Trimmed(stm', file', mac')
  <2>1. KeptIn(told', file')
    BY <1>2 DEF KeptIn
  <2>2. TypeOK'
    BY <1>2, <1>3, <1>5, Kinds DEF IInv
  <2>3. QED
    BY <1>5, <2>1, <2>2 DEF IInv
<1>6. CASE mapped
  <2> DEFINE s == Stream("mapped", TRUE, 0)
             g == IF Fits(cbGrowth) THEN Sized(f, cbGrowth)
                  ELSE IF Fits(MinSize) THEN Sized(f, MinSize) ELSE f
  <2>1. s \in MappedStreams /\ s.kind = "mapped" /\ s.len = 0 /\ s.write = TRUE /\ s.view = TRUE
    BY Kinds
  <2>2. g \in Seq(Page) /\ Len(g) \in Nat
    BY <1>1, SizedFacts DEF Page
  <2>3. OpenNew = MapOpen(g, s)
    BY <1>6 DEF OpenNew, MapCreate
  <2> HIDE DEF s, g, f
  <2>4. CASE Maps(g)
    <3>1. stm' = s /\ file' = g
      BY <1>4, <2>3, <2>4 DEF MapOpen
    <3>2. SeenBy(stm', told', file')
      BY <1>2, <2>1, <2>2, <3>1 DEF SeenBy
    <3>3. QED
      BY <1>2, <2>1, <2>2, <3>1, <3>2 DEF Trimmed
  <2>5. CASE ~Maps(g)
    <3>1. stm' = NoStream /\ file' = Sized(g, 0)
      BY <1>4, <2>1, <2>3, <2>5 DEF MapOpen, Released
    <3>2. file' \in Seq(Page) /\ Len(file') = 0
      BY <2>2, <3>1, SizedFacts DEF Page
    <3>3. QED
      BY <1>2, <3>1, <3>2, Kinds DEF Trimmed
  <2>6. QED
    BY <2>4, <2>5
<1>7. CASE ~mapped
  <2>1. stm' = Stream(FileKind, TRUE, 0) /\ file' = IF os.fds THEN f ELSE <<>>
    BY <1>4, <1>7 DEF OpenNew
  <2>2. stm' \in OtherStreams
    BY <2>1, Kinds
  <2>3. file' \in Seq(Page) /\ (tidy' => Len(file') = 0)
    BY <1>1, <1>3, <2>1
  <2>4. QED
    BY <1>2, <2>2, <2>3, Kinds DEF Trimmed
<1>8. QED
  BY <1>6, <1>7

LEMMA OpenRealInv ==
  ASSUME IInv, OpenReal
  PROVE  IInv'
<1> USE DEF TypeOK
<1>1. file \in Seq(Page) /\ stm = NoStream
  BY DEF IInv, OpenReal
<1>2. /\ stm' = Stream("real", TRUE, 0) /\ file' = file
      /\ told' = told /\ mac' = mac /\ tidy' = tidy
  BY DEF OpenReal, Opened
<1>3. stm' \in OtherStreams
  BY <1>2, Kinds
<1>4. tidy => Trimmed(stm', file', mac')
  BY <1>1, <1>2, <1>3, Kinds DEF IInv, Trimmed
<1>5. TypeOK'
  BY <1>1, <1>2, <1>3, Kinds DEF IInv
<1>6. QED
  BY <1>2, <1>3, <1>4, <1>5, Kinds DEF IInv

\* What a stream gives back lies behind all that was written.
LEMMA CloseInv ==
  ASSUME IInv, Close
  PROVE  IInv'
<1> USE DEF TypeOK
<1>1. /\ file \in Seq(Page) /\ Len(file) \in Nat
      /\ stm \in MappedStreams \cup OtherStreams /\ stm.kind # "lost"
  BY Kinds DEF IInv, Close, Usable
<1>2. /\ stm' = NoStream /\ file' = Released(file, stm)
      /\ told' = told /\ mac' = mac /\ tidy' = tidy
  BY DEF Close
<1>3. CASE stm.kind = "mapped"
  <2>1. stm.len \in Nat /\ SeenBy(stm, told, file)
    BY <1>1, <1>3, Kinds DEF IInv, MappedStreams, OtherStreams
  <2>2. /\ file' \in Seq(Page) /\ Len(file') = stm.len
        /\ \A i \in 1 .. stm.len : i <= Len(file) => file'[i] = file[i]
    <3>1. file' = Sized(file, stm.len)
      BY <1>1, <1>2, <1>3, Kinds DEF Released
    <3>2. QED
      BY <1>1, <2>1, <3>1, SizedFacts DEF Page
  <2>3. KeptIn(told', file')
    BY <1>1, <1>2, <2>1, <2>2 DEF IInv, KeptIn, SeenBy
  <2>4. tidy => Trimmed(stm', file', mac')
    BY <1>1, <1>2, <1>3, <2>2, Kinds DEF IInv, Trimmed
  <2>5. QED
    BY <1>2, <2>2, <2>3, <2>4, Kinds DEF IInv
<1>4. CASE stm.kind # "mapped"
  <2>1. file' = file
    BY <1>2, <1>4 DEF Released
  <2>2. tidy => Trimmed(stm', file', mac')
    BY <1>1, <1>2, <1>4, <2>1, Kinds DEF IInv, Trimmed
  <2>3. QED
    BY <1>1, <1>2, <2>1, <2>2, Kinds DEF IInv
<1>5. QED
  BY <1>3, <1>4

LEMMA DiesInv ==
  ASSUME IInv, Dies
  PROVE  IInv'
BY Kinds DEF IInv, TypeOK, Dies

LEMMA HoldInv ==
  ASSUME IInv, Hold
  PROVE  IInv'
BY DEF IInv, TypeOK, Hold

LEMMA CutInv ==
  ASSUME NEW n \in Nat, IInv, Cut(n)
  PROVE  IInv'
<1> USE DEF TypeOK
<1>1. file \in Seq(Page) /\ Len(file) \in Nat /\ n < Len(file)
  BY DEF IInv, Cut
<1>2. /\ file' = SubSeq(file, 1, n) /\ stm' = NoStream /\ mac' = mac
      /\ tidy' = FALSE
      /\ told' = [i \in DOMAIN told |-> IF i <= n THEN told[i] ELSE Gone]
  BY DEF Cut
<1>3. file' \in Seq(Page) /\ Len(file') = n /\ \A i \in 1 .. n : file'[i] = file[i]
  BY <1>1, <1>2
<1>4. Len(told) \in Nat /\ DOMAIN told = 1 .. Len(told)
  BY DEF IInv
<1>5. told' \in [1 .. Len(told) -> Page \cup {Gone}]
  <2>1. \A i \in 1 .. Len(told) : told[i] \in Page \cup {Gone}
    BY ElementOfSeq DEF IInv
  <2>2. QED
    BY <1>2, <1>4, <2>1
<1>6. told' \in Seq(Page \cup {Gone}) /\ Len(told') = Len(told)
  BY <1>4, <1>5, IsASeq
<1>7. KeptIn(told', file')
  BY <1>1, <1>2, <1>3, <1>4, <1>6 DEF IInv, KeptIn
<1>8. QED
  BY <1>2, <1>3, <1>6, <1>7, Kinds DEF IInv

\* A page that a cut took away is all that a mapped stream can be asked for behind its end.
LEMMA ReadInv ==
  ASSUME NEW i \in Nat, i < mac, IInv, Read(i)
  PROVE  IInv'
<1> USE DEF TypeOK
<1>1. PICK r \in Sought(i) : file' = r.f /\ stm' = r.s
  BY DEF Read
<1>2. /\ file \in Seq(Page) /\ Len(file) \in Nat /\ file # NoFile
      /\ stm \in MappedStreams \cup OtherStreams
      /\ told' = told /\ mac' = mac /\ tidy' = tidy
  BY Kinds DEF IInv, Read, Usable
<1>3. CASE stm.kind = "mapped" /\ i >= stm.len
  <2>1. stm \in MappedStreams /\ SeenBy(stm, told, file) /\ r \in fSetSize(file, stm, i)
    BY <1>1, <1>2, <1>3, Kinds DEF IInv, Sought
  <2>2. /\ Longer(file, r.f)
        /\ r.s \in MappedStreams
        /\ \/ r.ok = TRUE /\ r.s.len = i /\ i <= Len(r.f) /\ (stm.view => r.s.view)
           \/ r.ok = FALSE /\ r.s.len = stm.len /\ i > Len(file)
    BY <1>2, <2>1, SetSizeFacts
  <2>3. stm.len \in Nat /\ r.s.len \in Nat
    BY <2>1, <2>2 DEF MappedStreams
  <2>4. r.f \in Seq(Page) /\ Len(r.f) \in Nat /\ Len(file) <= Len(r.f)
    BY <2>2 DEF Longer
  <2>5. told[i + 1] = Gone /\ i + 1 \in 1 .. Len(told)
    BY <1>3, <2>1, <2>3 DEF IInv, SeenBy
  <2>6. SeenBy(r.s, told, r.f)
    BY <1>2, <1>3, <2>1, <2>2, <2>3, <2>4, <2>5 DEF SeenBy
  <2>7. KeptIn(told, r.f)
    BY <1>2, <2>2, LongerKeeps DEF IInv
  <2>8. ~tidy
    BY <1>2, <1>3 DEF IInv, Trimmed
  <2>9. TypeOK'
    BY <1>1, <1>2, <2>2, <2>4, Kinds DEF IInv
  <2>10. QED
    BY <1>1, <1>2, <2>6, <2>7, <2>8, <2>9 DEF IInv
<1>4. CASE ~(stm.kind = "mapped" /\ i >= stm.len)
  <2>1. file' = file /\ stm' = stm
    BY <1>1, <1>4 DEF Sought, Result
  <2>2. QED
    BY <1>2, <2>1 DEF IInv
<1>5. QED
  BY <1>3, <1>4

LEMMA WriteInv ==
  ASSUME NEW i \in Nat, i < mac, IInv, Write(i)
  PROVE  IInv'
<1> USE DEF TypeOK
<1>1. /\ file \in Seq(Page) /\ Len(file) \in Nat /\ file # NoFile
      /\ stm \in MappedStreams \cup OtherStreams
      /\ stm' = stm /\ mac' = mac /\ tidy' = tidy
  BY Kinds DEF IInv, Write
<1>2. i + 1 \in 1 .. Len(told) /\ Len(told) \in Nat
  BY DEF IInv
<1>3. stm.kind = "mapped" => stm.view /\ i < stm.len /\ stm.len \in Nat /\ SeenBy(stm, told, file)
  BY <1>1, Kinds DEF IInv, Write, Readable, MappedStreams
<1>4. i + 1 \in 1 .. Len(file)
  BY <1>1, <1>3 DEF Write, Readable, SeenBy
<1>5. /\ file' \in Seq(Page) /\ Len(file') = Len(file)
      /\ file'[i + 1] = Written
      /\ \A j \in 1 .. Len(file) : j # i + 1 => file'[j] = file[j]
  BY <1>1, <1>4 DEF Write, Page
<1>6. /\ told' \in Seq(Page \cup {Gone}) /\ Len(told') = Len(told)
      /\ \A j \in 1 .. Len(told) : j # i + 1 => told'[j] = told[j]
  BY <1>2 DEF IInv, Write, Page
<1>7. KeptIn(told', file')
  BY <1>1, <1>2, <1>4, <1>5, <1>6 DEF IInv, KeptIn
<1>8. stm.kind = "mapped" => SeenBy(stm', told', file')
  BY <1>1, <1>2, <1>3, <1>5, <1>6 DEF SeenBy
<1>9. tidy => Trimmed(stm', file', mac')
  BY <1>1, <1>5 DEF IInv, Trimmed
<1>10. TypeOK'
  BY <1>1, <1>5, <1>6, Kinds DEF IInv
<1>11. QED
  BY <1>1, <1>7, <1>8, <1>9, <1>10 DEF IInv

\* What setStreamSize leaves of the file and the stream: the size that was asked for,
\* or a file that has all it had, behind the same stream or another one.
LEMMA StreamSized ==
  ASSUME IInv, NEW n \in Nat, stm.write, mac < n, NEW r \in setStreamSize(n)
  PROVE  /\ r.ok \in BOOLEAN
         /\ r.f \in Seq(Page)
         /\ KeptIn(told, r.f)
         /\ r.s \in {LostStream} \cup MappedStreams \cup OtherStreams
         /\ r.s.kind = "mapped" =>
              stm.kind = "mapped" /\ r.ok = TRUE /\ r.s.len = n /\ n <= Len(r.f) /\ (stm.view => r.s.view)
         /\ r.ok = TRUE => n <= Len(r.f)
         /\ r.s.kind = stm.kind =>
              IF r.ok = TRUE THEN stm.kind # "mapped" => Len(r.f) = n
                             ELSE stm.kind # "mapped" /\ r.f = file /\ r.s = stm
<1> USE DEF TypeOK
<1>1. /\ file \in Seq(Page) /\ Len(file) \in Nat /\ Len(told) = mac /\ mac \in Nat
      /\ stm \in MappedStreams \cup OtherStreams
      /\ KeptIn(told, file)
  BY Kinds DEF IInv
<1>2. ASSUME NEW g \in Seq(Page), KeptIn(told, g)
      PROVE  /\ Sized(g, n) \in Seq(Page) /\ Len(Sized(g, n)) = n
             /\ KeptIn(told, Sized(g, n))
  <2>1. /\ Sized(g, n) \in Seq(Page) /\ Len(Sized(g, n)) = n /\ Len(g) \in Nat
        /\ \A i \in 1 .. n : i <= Len(g) => Sized(g, n)[i] = g[i]
    BY SizedFacts DEF Page
  <2>2. QED
    BY <1>1, <1>2, <2>1 DEF KeptIn
<1>3. CASE stm.kind # "mapped"
  <2>1. r = PlainSize(Result(FALSE, file, stm), n)
    BY <1>3 DEF setStreamSize
  <2>2. stm \in OtherStreams
    BY <1>1, <1>3, Kinds
  <2>3. CASE Fits(n)
    <3>1. r.ok = TRUE /\ r.f = Sized(file, n) /\ r.s = stm
      BY <2>1, <2>3 DEF PlainSize, Result
    <3>2. r.f \in Seq(Page) /\ Len(r.f) = n /\ KeptIn(told, r.f)
      BY <1>1, <1>2, <3>1
    <3>3. n <= Len(r.f)
      BY <3>2
    <3>4. r.s.kind # "mapped" /\ r.ok \in BOOLEAN
      BY <1>3, <3>1
    <3>5. QED
      BY <1>3, <2>2, <3>1, <3>2, <3>3, <3>4
  <2>4. CASE ~Fits(n)
    <3>1. r.ok = FALSE /\ r.f = file /\ r.s = stm
      BY <2>1, <2>4 DEF PlainSize, Result
    <3>2. QED
      BY <1>1, <1>3, <2>2, <3>1
  <2>5. QED
    BY <2>3, <2>4
<1>4. CASE stm.kind = "mapped"
  <2>1. stm \in MappedStreams
    BY <1>1, <1>4, Kinds
  <2>2. PICK q \in fSetSize(file, stm, n) : r = AfterSwitch(q, n)
    BY <1>4 DEF setStreamSize
  <2>3. /\ Longer(file, q.f)
        /\ q.s \in MappedStreams
        /\ \/ q.ok = TRUE /\ q.s.len = n /\ n <= Len(q.f) /\ (stm.view => q.s.view)
           \/ q.ok = FALSE /\ q.s.len = stm.len /\ n > Len(file)
    BY <1>1, <2>1, SetSizeFacts
  <2>4. q.f \in Seq(Page) /\ KeptIn(told, q.f)
    BY <1>1, <2>3, LongerKeeps DEF IInv, Longer
  <2>5. CASE q.ok = TRUE
    <3>1. r = q
      BY <2>2, <2>5 DEF AfterSwitch
    <3>2. QED
      BY <1>4, <2>3, <2>4, <2>5, <3>1
  <2>6. CASE q.ok = FALSE
    <3> DEFINE d == [q EXCEPT !.s = IF os.fds THEN Stream("crt", TRUE, 0) ELSE LostStream]
    <3>1. \E a, b, c : q = Result(a, b, c)
      <4>1. PICK size : q = Grown(file, stm, n, size) \/ q = Result(TRUE, file, [stm EXCEPT !.len = n])
        BY DEF fSetSize
      <4>2. QED
        BY <4>1 DEF Grown
    <3>2. d.ok = FALSE /\ d.f = q.f /\ d.s = IF os.fds THEN Stream("crt", TRUE, 0) ELSE LostStream
      BY <2>6, <3>1 DEF Result
    <3>3. d = Detached(q)
      BY DEF Detached
    <3> HIDE DEF d
    <3>4. r = IF os.fds THEN PlainSize(d, n) ELSE d
      BY <2>2, <2>6, <3>3 DEF AfterSwitch
    <3>5. d.s \in {LostStream} \cup OtherStreams
      <4>1. Stream("crt", TRUE, 0) \in OtherStreams
        BY DEF OtherStreams, Stream
      <4>2. QED
        BY <3>2, <4>1
    <3>6. d.s.kind # "mapped"
      BY <3>5 DEF LostStream, OtherStreams
    <3>7. CASE os.fds /\ Fits(n)
      <4>1. r.ok = TRUE /\ r.f = Sized(q.f, n) /\ r.s = d.s
        BY <3>2, <3>4, <3>7 DEF PlainSize, Result
      <4>2. r.f \in Seq(Page) /\ Len(r.f) = n /\ KeptIn(told, r.f)
        BY <1>2, <2>4, <4>1
      <4>3. n <= Len(r.f)
        BY <4>2
      <4>4. r.s.kind # "mapped" /\ r.s.kind # stm.kind /\ r.ok \in BOOLEAN
        BY <1>4, <3>5, <3>6, <4>1
      <4>5. QED
        BY <3>5, <3>6, <4>1, <4>2, <4>3, <4>4
    <3>8. CASE ~(os.fds /\ Fits(n))
      <4>1. r = d
        BY <3>4, <3>8 DEF PlainSize
      <4>2. QED
        BY <1>4, <2>4, <3>2, <3>5, <3>6, <4>1
    <3>9. QED
      BY <3>7, <3>8
  <2>7. QED
    BY <2>3, <2>5, <2>6
<1>5. QED
  BY <1>3, <1>4

LEMMA ExtendInv ==
  ASSUME IInv, NEW n \in Nat, Extend(n)
  PROVE  IInv'
<1> USE DEF TypeOK
<1>1. PICK r \in setStreamSize(n) :
        /\ file' = r.f /\ stm' = r.s
        /\ mac' = IF r.ok THEN n ELSE mac
        /\ told' = IF r.ok THEN Sized(told, n) ELSE told
        /\ tidy' = (tidy /\ r.s.kind = stm.kind)
  BY DEF Extend
<1>2. /\ r.ok \in BOOLEAN
      /\ r.f \in Seq(Page)
      /\ KeptIn(told, r.f)
      /\ r.s \in {LostStream} \cup MappedStreams \cup OtherStreams
      /\ r.s.kind = "mapped" =>
           stm.kind = "mapped" /\ r.ok = TRUE /\ r.s.len = n /\ n <= Len(r.f) /\ (stm.view => r.s.view)
      /\ r.ok = TRUE => n <= Len(r.f)
      /\ r.s.kind = stm.kind =>
           IF r.ok = TRUE THEN stm.kind # "mapped" => Len(r.f) = n
                          ELSE stm.kind # "mapped" /\ r.f = file /\ r.s = stm
  BY StreamSized DEF Extend
<1>3. /\ file \in Seq(Page) /\ file # NoFile /\ Len(told) = mac /\ mac \in Nat
      /\ mac < n /\ tidy \in BOOLEAN
      /\ told \in Seq(Page \cup {Gone})
      /\ stm \in MappedStreams \cup OtherStreams
  BY Kinds DEF IInv, Extend
<1>4. Len(r.f) \in Nat
  BY <1>2
<1>5. CASE r.ok = FALSE
  <2>1. /\ told' = told /\ mac' = mac /\ r.s.kind # "mapped"
        /\ tidy' => stm.kind # "mapped" /\ r.f = file /\ r.s = stm /\ tidy
    BY <1>1, <1>2, <1>5
  <2>2. tidy' => Trimmed(stm', file', mac')
    BY <1>1, <1>3, <2>1 DEF IInv, Trimmed
  <2>3. TypeOK'
    BY <1>1, <1>2, <1>3, <2>1, Kinds DEF IInv
  <2>4. QED
    BY <1>1, <1>2, <2>1, <2>2, <2>3 DEF IInv
<1>6. CASE r.ok = TRUE
  <2> DEFINE t == Sized(told, n)
  <2>1. /\ t \in Seq(Page \cup {Gone}) /\ Len(t) = n
        /\ \A i \in 1 .. n : t[i] = IF i <= mac THEN told[i] ELSE Fresh
    BY <1>3, SizedFacts DEF Page
  <2>2. told' = t /\ mac' = n
    BY <1>1, <1>6
  <2> HIDE DEF t
  <2>3. KeptIn(t, r.f)
    BY <1>2, <1>3, <1>4, <1>6, <2>1 DEF KeptIn, Fresh, Written
  <2>4. ASSUME r.s.kind = "mapped"
        PROVE  SeenBy(r.s, t, r.f)
    <3>1. SeenBy(stm, told, file) /\ r.s.len = n /\ n <= Len(r.f) /\ (stm.view => r.s.view)
      BY <1>2, <2>4 DEF IInv
    <3>2. r.s.view \/ \E j \in 1 .. Len(t) : t[j] = Gone
      BY <1>3, <2>1, <3>1 DEF SeenBy
    <3>3. QED
      BY <2>1, <3>1, <3>2 DEF SeenBy
  <2>5. tidy' => Trimmed(stm', file', mac')
    <3>1. r.s.kind = stm.kind /\ stm.kind # "lost" =>
            Trimmed(r.s, r.f, n)
      BY <1>2, <1>6 DEF Trimmed
    <3>2. stm.kind # "lost"
      BY <1>3, Kinds
    <3>3. QED
      BY <1>1, <2>2, <3>1, <3>2
  <2>6. TypeOK'
    BY <1>1, <1>2, <1>3, <2>1, <2>2, Kinds DEF IInv
  <2>7. QED
    BY <1>1, <2>2, <2>3, <2>4, <2>5, <2>6 DEF IInv
<1>7. QED
  BY <1>2, <1>5, <1>6


LEMMA Preserved ==
  ASSUME cbGrowth \in Nat, MinSize \in Nat, IInv, [BytesNext]_bytesVars
  PROVE  IInv'
<1>1. CASE UNCHANGED bytesVars
  BY <1>1 DEF IInv, TypeOK, bytesVars
<1>2. CASE \E write \in BOOLEAN : Open(write)
  BY <1>2, OpenInv
<1>3. CASE Create
  BY <1>3, CreateInv
<1>4. CASE OpenReal
  BY <1>4, OpenRealInv
<1>5. CASE Close
  BY <1>5, CloseInv
<1>6. CASE Dies
  BY <1>6, DiesInv
<1>7. CASE Hold
  BY <1>7, HoldInv
<1>8. CASE \E n \in 1 .. MaxMac : Extend(n)
  <2>1. PICK n \in 1 .. MaxMac : Extend(n)
    BY <1>8
  <2>2. n \in Nat
    OBVIOUS
  <2>3. QED
    BY <2>1, <2>2, ExtendInv
<1>9. CASE \E i \in {0, mac - 1} \cap 0 .. MaxMac : i < mac /\ (Read(i) \/ Write(i))
  <2>1. PICK i \in {0, mac - 1} \cap 0 .. MaxMac : i < mac /\ (Read(i) \/ Write(i))
    BY <1>9
  <2>2. i \in Nat
    OBVIOUS
  <2>3. QED
    BY <2>1, <2>2, ReadInv, WriteInv
<1>10. CASE \E n \in 0 .. MaxMac : Cut(n)
  <2>1. PICK n \in 0 .. MaxMac : Cut(n)
    BY <1>10
  <2>2. n \in Nat
    OBVIOUS
  <2>3. QED
    BY <2>1, <2>2, CutInv
<1>11. QED
  BY <1>1, <1>2, <1>3, <1>4, <1>5, <1>6, <1>7, <1>8, <1>9, <1>10 DEF BytesNext

-----------------------------------------------------------------------------
(* What follows.                                                           *)

LEMMA InvRight == IInv => StreamsRight
<1> SUFFICES ASSUME IInv PROVE StreamsRight
  OBVIOUS
<1> USE DEF TypeOK
<1>1. Len(told) = mac /\ mac \in Nat /\ DOMAIN told = 1 .. Len(told)
  BY DEF IInv
<1>2. ASSUME NEW i \in DOMAIN told, told[i] # Gone
      PROVE  /\ i <= Len(file)
             /\ told[i] = Written => file[i] = Written
             /\ Usable => Readable(i - 1) \/ (\E j \in DOMAIN told : told[j] = Gone)
  <2>1. i <= Len(file) /\ (told[i] = Written => file[i] = Written)
    BY <1>1, <1>2 DEF IInv, KeptIn
  <2>2. file \in Seq(Page) /\ Len(file) \in Nat
    BY <1>1, <1>2 DEF IInv
  <2>3. CASE stm.kind = "mapped"
    <3>1. SeenBy(stm, told, file) /\ stm.len \in Nat
      BY <2>3, Kinds DEF IInv, MappedStreams
    <3>2. i <= stm.len
      BY <1>1, <1>2, <3>1 DEF SeenBy
    <3>3. stm.view \/ \E j \in DOMAIN told : told[j] = Gone
      BY <1>1, <3>1 DEF SeenBy
    <3>4. QED
      BY <1>1, <2>1, <2>3, <3>1, <3>2, <3>3 DEF Readable
  <2>4. CASE stm.kind # "mapped"
    BY <1>1, <2>1, <2>2, <2>4 DEF Readable
  <2>5. QED
    BY <2>3, <2>4
<1>3. PagesKept
  BY <1>2 DEF PagesKept
<1>4. GrowthGivenBack
  BY Kinds DEF IInv, Trimmed, GrowthGivenBack
<1>5. QED
  BY <1>3, <1>4 DEF StreamsRight

\* Whatever the system refuses while a file grows, is opened or created - room, memory,
\* descriptors - and whatever the file lost while it was closed: every page written and
\* not cut off is in the file and can be read, and a file whose streams ended in order
\* is as long as the multistream file in it (mapfile.cpp:176-322, msf.cpp:1699-1747).
THEOREM StreamsKept ==
  ASSUME cbGrowth \in Nat, MinSize \in Nat
  PROVE  BytesSpec => []StreamsRight
<1>1. BytesInit => IInv
  BY InitInv
<1>2. IInv /\ [BytesNext]_bytesVars => IInv'
  BY Preserved
<1>3. QED
  BY <1>1, <1>2, InvRight, PTL DEF BytesSpec
=============================================================================
