---------------------------- MODULE ByteStreams -----------------------------
(* The byte streams that a multistream file is kept in (PDB/msf/istream.h,  *)
(* mapfile.cpp, and setStreamSize of msf.cpp): a file mapped to memory that  *)
(* grows ahead of its length, a file behind the CRT or behind the system's   *)
(* calls, or a client's IStream, and the switch from the first to the second *)
(* when no more memory or disk is left.                                      *)
(*                                                                           *)
(* Simplifications:                                                          *)
(*  - Sizes are in pages of the multistream file; a page holds one value.    *)
(*  - Every read and write seeks first, so the position is its argument.     *)
(*  - What the system refuses depends on the size only: a disk of os.disk    *)
(*    pages, views of at most os.view pages, CRT descriptors or none.        *)
(*  - Flushes succeed, so that nothing depends on the file being remote.     *)
EXTENDS Naturals, Sequences

CONSTANTS
  Systems,   \* what the system has: records of disk, view, fds
  cbGrowth,  \* which is cbDefFileSize too
  MinSize,   \* cbMinFileSize
  MaxMac,    \* bound: pages of the multistream file
  MaxCuts    \* bound: times that the file is cut short while it is closed

VARIABLES
  os,        \* the system
  mapped,    \* is the code built with MAPPED_IO?
  file,      \* the pages of the file, or none
  held,      \* does another process have the file open?
  stm,       \* pIStream
  mac,       \* pages of the multistream file
  told,      \* the pages as they were written; Gone for those cut off
  tidy,      \* did all streams end in order, on files that were whole?
  ncuts

bytesVars == <<os, mapped, file, held, stm, mac, told, tidy, ncuts>>

Gone == 9
NoFile == <<Gone>>
NoStream == [kind |-> "none", write |-> FALSE]
LostStream == [kind |-> "lost", write |-> FALSE]
Fresh == 0
Written == 1
Stream(kind, write, len) == [kind |-> kind, write |-> write, len |-> len, view |-> kind = "mapped"]

Usable == stm.kind \notin {"none", "lost"}

TheLarger(a, b) == IF a > b THEN a ELSE b

\* The file with its end set at n: pages go, or empty ones come.
Sized(f, n) == [i \in 1 .. n |-> IF i <= Len(f) THEN f[i] ELSE Fresh]

\* SetFileSize
Fits(n) == n <= os.disk
\* fMapFileToMemory: nothing is no view.
Maps(f) == Len(f) \in 1 .. os.view

-----------------------------------------------------------------------------
(* Files mapped to memory.                                                 *)

\* The sizes fSetSize tries: from the first multiple of the growth that is enough,
\* a quarter of it less each time, until one is no more than is asked for; then just
\* what is asked for.
Step(f) == TheLarger(Len(f), cbGrowth)
FirstTry(f, n) == Len(f) + ((n - Len(f) + Step(f) - 1) \div Step(f)) * Step(f)
Tries(f, n) ==
  {m \in Len(f) .. FirstTry(f, n) :
     (FirstTry(f, n) - m) % (Step(f) \div 4) = 0 /\ m + (Step(f) \div 4) > n} \cup {n}

\* The size that is left on the disk: the largest that is tried and fits, or the old one.
SizesOnDisk(f, n) ==
  {m \in Tries(f, n) \cup {Len(f)} : Fits(m) /\ \A q \in Tries(f, n) : q > m => ~Fits(q)}

\* What becomes of a file and its stream.  Mutant: the length is that of the file.
Result(ok, f, s) == [ok |-> ok, f |-> f, s |-> s]
AllOfIt(f, s, n, size) ==
  IF size < n \/ ~Maps(Sized(f, size))
    THEN Result(FALSE, Sized(f, size), [s EXCEPT !.view = FALSE])
    ELSE Result(TRUE, Sized(f, size), [s EXCEPT !.len = size, !.view = TRUE])

\* The view goes before the file grows, and comes back only if it has grown.
Grown(f, s, n, size) ==
  IF size < n \/ ~Maps(Sized(f, size))
    THEN Result(FALSE, Sized(f, size), [s EXCEPT !.view = FALSE])
    ELSE Result(TRUE, Sized(f, size), [s EXCEPT !.len = n, !.view = TRUE])

fSetSize(f, s, n) ==
  IF n <= Len(f) THEN {Result(TRUE, f, [s EXCEPT !.len = n])}
                 ELSE {Grown(f, s, n, size) : size \in SizesOnDisk(f, n)}

\* Mutants: the whole file stays; any stream cuts the file to the length it knows.
KeepsSize(f, s) == f
AnyCuts(f, s) == IF s.write THEN Sized(f, s.len) ELSE f
\* ~MemoryMappedFile gives back what the file grew ahead; the file of a stream
\* that was detached is no longer its own.
Released(f, s) == IF s.kind = "mapped" /\ s.write THEN Sized(f, s.len) ELSE f

\* Init: a file that is there is mapped, or one is created of the default size,
\* or of the least.  A file that cannot be mapped stays, as long as it was; an
\* empty one can never be.
MapOpen(f, s) ==
  IF Maps(f) THEN [s |-> s, f |-> f] ELSE [s |-> NoStream, f |-> Released(f, s)]
MapCreate(f) ==
  LET sized == IF Fits(cbGrowth) THEN Sized(f, cbGrowth) ELSE IF Fits(MinSize) THEN Sized(f, MinSize)
               ELSE f
  IN MapOpen(sized, Stream("mapped", TRUE, 0))

-----------------------------------------------------------------------------
(* Opening and closing.                                                    *)

FileKind == IF os.fds THEN "crt" ELSE "win"

\* internalOpen's choice of a stream for a file that is there and not held.
OpenThere(write) ==
  IF write /\ mapped THEN MapOpen(file, Stream("mapped", TRUE, Len(file)))
  ELSE [s |-> Stream(FileKind, write, 0), f |-> file]

\* The second try, which creates: it finds no file, or one that was held at the
\* first try and no longer is.  MSF_HB::create will write over that one, which
\* CREATE_ALWAYS even truncates.
OpenNew ==
  LET f == IF file = NoFile THEN <<>> ELSE file
  IN IF mapped THEN MapCreate(f)
     ELSE [s |-> Stream(FileKind, TRUE, 0), f |-> IF os.fds THEN f ELSE <<>>]

\* The multistream file on a stream: what its header says if it was there.
Opened(r, new) ==
  /\ stm' = r.s /\ file' = r.f
  /\ mac' = IF new THEN 0 ELSE mac
  /\ told' = IF new THEN <<>> ELSE told

\* internalOpen: the file is there and can be had.
Open(write) ==
  /\ stm = NoStream /\ file # NoFile /\ ~held
  /\ Opened(OpenThere(write), FALSE)
  /\ UNCHANGED <<os, mapped, held, tidy, ncuts>>

\* internalOpen: the first try fails, and the second creates a file.
Create ==
  /\ stm = NoStream
  /\ file = NoFile \/ held
  /\ held' = FALSE
  /\ Opened(OpenNew, TRUE)
  /\ tidy' = (tidy /\ ~held)
  /\ UNCHANGED <<os, mapped, ncuts>>

\* internalStreamOpen: a client's stream on the file.
OpenReal ==
  /\ stm = NoStream /\ file # NoFile /\ ~held
  /\ Opened([s |-> Stream("real", TRUE, 0), f |-> file], FALSE)
  /\ UNCHANGED <<os, mapped, held, tidy, ncuts>>

\* The last reference to the stream goes.
Close ==
  /\ Usable
  /\ stm' = NoStream
  /\ file' = Released(file, stm)
  /\ UNCHANGED <<os, mapped, held, mac, told, tidy, ncuts>>

\* The process ends with the stream open; what a view holds is in the file.
Dies ==
  /\ stm # NoStream
  /\ stm' = NoStream /\ tidy' = FALSE
  /\ UNCHANGED <<os, mapped, file, held, mac, told, ncuts>>

-----------------------------------------------------------------------------
(* Sizes, reads and writes.                                                *)

\* switchToCRTStream: the view goes, the handle is given to the CRT, and the old
\* stream is released without a file; with no descriptor left there is no stream.
Detached(r) == [r EXCEPT !.s = IF os.fds THEN Stream("crt", TRUE, 0) ELSE LostStream]

PlainSize(r, n) == IF Fits(n) THEN Result(TRUE, Sized(r.f, n), r.s) ELSE r

\* setStreamSize: what the mapped file cannot do, the CRT is asked to.
AfterSwitch(r, n) ==
  IF r.ok THEN r ELSE IF os.fds THEN PlainSize(Detached(r), n) ELSE Detached(r)
setStreamSize(n) ==
  IF stm.kind = "mapped" THEN {AfterSwitch(r, n) : r \in fSetSize(file, stm, n)}
                         ELSE {PlainSize(Result(FALSE, file, stm), n)}

\* allocPn extends the file by some pages.  A multistream file that lost its
\* stream cannot be used again.
Extend(n) ==
  /\ stm.write /\ mac < n
  /\ \E r \in setStreamSize(n) :
       /\ file' = r.f /\ stm' = r.s
       /\ mac' = IF r.ok THEN n ELSE mac
       /\ told' = IF r.ok THEN Sized(told, n) ELSE told
       /\ tidy' = (tidy /\ r.s.kind = stm.kind)
  /\ UNCHANGED <<os, mapped, held, ncuts>>

\* Seek of a mapped stream at its end or behind it sets its size, also to read.
Sought(i) ==
  IF stm.kind = "mapped" /\ i >= stm.len THEN fSetSize(file, stm, i)
                                        ELSE {Result(TRUE, file, stm)}

\* Can page i (from 0) be read, and what does it hold?
Readable(i) ==
  IF stm.kind = "mapped" THEN stm.view /\ i < stm.len ELSE i < Len(file)

Read(i) ==
  /\ Usable
  /\ \E r \in Sought(i) : file' = r.f /\ stm' = r.s
  /\ UNCHANGED <<os, mapped, held, mac, told, tidy, ncuts>>

\* A write into the length; a stream without a view writes nothing.
Write(i) ==
  /\ stm.write /\ Readable(i)
  /\ file' = [file EXCEPT ![i + 1] = Written]
  /\ told' = [told EXCEPT ![i + 1] = Written]
  /\ UNCHANGED <<os, mapped, held, stm, mac, tidy, ncuts>>

-----------------------------------------------------------------------------
(* Others: a copy that is cut short, and a process that holds the file.     *)

Cut(n) ==
  /\ stm = NoStream /\ file # NoFile /\ ncuts < MaxCuts
  /\ n < Len(file)
  /\ file' = SubSeq(file, 1, n)
  /\ told' = [i \in DOMAIN told |-> IF i <= n THEN told[i] ELSE Gone]
  /\ ncuts' = ncuts + 1 /\ tidy' = FALSE
  /\ UNCHANGED <<os, mapped, held, stm, mac>>

Hold ==
  /\ stm = NoStream /\ file # NoFile
  /\ held' = ~held
  /\ UNCHANGED <<os, mapped, file, stm, mac, told, tidy, ncuts>>

BytesInit ==
  /\ os \in Systems /\ mapped \in BOOLEAN
  /\ file = NoFile /\ held = FALSE
  /\ stm = NoStream /\ mac = 0 /\ told = <<>> /\ tidy = TRUE /\ ncuts = 0

BytesNext ==
  \/ \E write \in BOOLEAN : Open(write)
  \/ Create \/ OpenReal \/ Close \/ Dies \/ Hold
  \/ \E n \in 1 .. MaxMac : Extend(n)
  \/ \E i \in {0, mac - 1} \cap 0 .. MaxMac : i < mac /\ (Read(i) \/ Write(i))
  \/ \E n \in 0 .. MaxMac : Cut(n)

BytesSpec == BytesInit /\ [][BytesNext]_bytesVars

-----------------------------------------------------------------------------
\* Whatever was refused on the way - room on the disk, memory for a view, a
\* descriptor - a page that was written is in the file, and a stream that is open
\* reads it; only to look for a page of a file that was cut may lose the view.
PagesKept ==
  \A i \in DOMAIN told :
    told[i] # Gone =>
      /\ i <= Len(file)
      /\ told[i] = Written => file[i] = Written
      /\ Usable => Readable(i - 1) \/ (\E j \in DOMAIN told : told[j] = Gone)

\* A file whose streams were all closed in order is as long as the multistream
\* file in it: what it had grown ahead is given back.
GrowthGivenBack == tidy /\ stm = NoStream /\ file # NoFile => Len(file) = mac

StreamsRight == PagesKept /\ GrowthGivenBack
=============================================================================
