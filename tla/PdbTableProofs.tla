--------------------------- MODULE PdbTableProofs ---------------------------
(***************************************************************************)
(* Proofs about module PdbTable: for any number of files and clients, and  *)
(* whatever the timeout manager and its thread do in between, the counts   *)
(* of clients are right, the table, the queue and the multistream files    *)
(* agree, and clients share a PDB only in modes that go together.          *)
(***************************************************************************)
EXTENDS PdbTable, FiniteSetTheorems, TLAPS

TypeOK ==
  /\ msf \in [Files -> [open : BOOLEAN, fWrite : BOOLEAN, refcount : Nat]]
  /\ pdb \in [Files -> [open : BOOLEAN, count : Nat, mode : Modes, full : BOOLEAN]]
  /\ handle \in [Clients -> [open : BOOLEAN, file : Files \cup {NoHandle.file}, mode : Modes]]
  /\ \A c \in Clients : handle[c].open => handle[c].file \in Files
  /\ queue \subseteq Files /\ expired \subseteq queue

\* HandlesCounted of one file; and nobody has a PDB that is not in the table.
Counted(f) ==
  /\ pdb[f].count = Cardinality(Holders(f))
  /\ f \in queue <=> pdb[f].open /\ pdb[f].count = 0
  /\ pdb[f].open <=> msf[f].open
  /\ msf[f].open => msf[f].refcount = 1
  /\ ~pdb[f].open => pdb[f].count = 0
AllCounted == \A f \in Files : Counted(f)

\* The modes that the clients of a PDB can have when it is open in a mode.
Joined == [WE |-> {"WE"}, RE |-> {"RE", "RS"}, WS |-> {"WS", "RS"}, RS |-> {"RS"}]

\* The mode of a PDB stands for those of all its clients; a PDB that is written
\* exclusively has one client, and one that is written has a file for writing.
ModesJoined ==
  \A f \in Files : \A c \in Holders(f) :
    /\ handle[c].mode \in Joined[pdb[f].mode]
    /\ pdb[f].mode = "WE" => \A d \in Holders(f) : d = c
    /\ ~fRead(handle[c].mode) => msf[f].fWrite

IInv == TypeOK /\ AllCounted /\ ModesJoined

-----------------------------------------------------------------------------
(* The clients of a PDB.                                                   *)

LEMMA HoldersFinite ==
  ASSUME NEW f
  PROVE  Holders(f) \subseteq Clients /\ IsFiniteSet(Holders(f))
<1>1. Holders(f) \subseteq Clients
  BY DEF Holders
<1>2. QED
  BY <1>1, FS_Subset, PdbTableAssumption

\* A client that had nothing open gets a PDB, or closes the one it has.
Takes(c, f, m) ==
  ~handle[c].open /\ handle' = [handle EXCEPT ![c] = [open |-> TRUE, file |-> f, mode |-> m]]
Gives(c, f) ==
  handle[c].open /\ f = handle[c].file /\ handle' = [handle EXCEPT ![c] = NoHandle]

LEMMA HandleTaken ==
  ASSUME TypeOK, NEW c \in Clients, NEW f \in Files, NEW m \in Modes, Takes(c, f, m)
  PROVE  /\ c \notin Holders(f)
         /\ Holders(f)' = Holders(f) \cup {c}
         /\ Cardinality(Holders(f)') = Cardinality(Holders(f)) + 1
         /\ \A g \in Files \ {f} : Holders(g)' = Holders(g)
         /\ \A d \in Clients \ {c} : handle'[d] = handle[d]
         /\ handle'[c].mode = m
<1>1. /\ handle'[c] = [open |-> TRUE, file |-> f, mode |-> m]
      /\ \A d \in Clients \ {c} : handle'[d] = handle[d]
  BY DEF TypeOK, Takes
<1>2. c \notin Holders(f)
  BY DEF Holders, Takes
<1>3. Holders(f)' = Holders(f) \cup {c}
  <2>1. \A d : d \in Holders(f)' <=> d \in Holders(f) \/ d = c
    BY <1>1 DEF Holders
  <2>2. QED
    BY <2>1
<1>4. Cardinality(Holders(f)') = Cardinality(Holders(f)) + 1
  BY <1>2, <1>3, HoldersFinite, FS_AddElement
<1>5. ASSUME NEW g \in Files \ {f}
      PROVE  Holders(g)' = Holders(g)
  <2>1. \A d : d \in Holders(g)' <=> d \in Holders(g)
    BY <1>1 DEF Holders, Takes
  <2>2. QED
    BY <2>1
<1>6. QED
  BY <1>1, <1>2, <1>3, <1>4, <1>5

LEMMA HandleGiven ==
  ASSUME TypeOK, NEW c \in Clients, NEW f \in Files, Gives(c, f)
  PROVE  /\ c \in Holders(f)
         /\ Holders(f)' = Holders(f) \ {c}
         /\ Cardinality(Holders(f)') = Cardinality(Holders(f)) - 1
         /\ \A g \in Files \ {f} : Holders(g)' = Holders(g)
         /\ \A d \in Clients \ {c} : handle'[d] = handle[d]
<1>1. /\ ~handle'[c].open
      /\ \A d \in Clients \ {c} : handle'[d] = handle[d]
  BY DEF TypeOK, NoHandle, Gives
<1>2. c \in Holders(f)
  BY DEF Holders, Gives
<1>3. Holders(f)' = Holders(f) \ {c}
  <2>1. \A d : d \in Holders(f)' <=> d \in Holders(f) /\ d # c
    BY <1>1 DEF Holders
  <2>2. QED
    BY <2>1
<1>4. Cardinality(Holders(f)') = Cardinality(Holders(f)) - 1
  BY <1>2, <1>3, HoldersFinite, FS_RemoveElement
<1>5. ASSUME NEW g \in Files \ {f}
      PROVE  Holders(g)' = Holders(g)
  <2>1. \A d : d \in Holders(g)' <=> d \in Holders(g)
    BY <1>1 DEF Holders, Gives
  <2>2. QED
    BY <2>1
<1>6. QED
  BY <1>1, <1>2, <1>3, <1>4, <1>5

\* Nobody has a PDB whose count is zero.
LEMMA UnheldFacts ==
  ASSUME AllCounted, NEW f \in Files, pdb[f].count = 0
  PROVE  Holders(f) = {}
BY HoldersFinite, FS_EmptySet DEF AllCounted, Counted

\* A file that a step leaves alone.
LEMMA CountedStays ==
  ASSUME AllCounted, NEW f \in Files, Holders(f)' = Holders(f),
         pdb'[f] = pdb[f], msf'[f] = msf[f], f \in queue' <=> f \in queue
  PROVE  Counted(f)'
BY DEF AllCounted, Counted

-----------------------------------------------------------------------------
(* Each action keeps the inductive invariant.                              *)

\* The clients stay as they were.
LEMMA HoldersStay ==
  ASSUME handle' = handle, NEW f
  PROVE  Holders(f)' = Holders(f)
BY DEF Holders

LEMMA InitIInv == Init => IInv
<1> SUFFICES ASSUME Init PROVE IInv
  OBVIOUS
<1>1. \A f \in Files : Holders(f) = {}
  BY DEF Init, Holders, NoHandle
<1>2. TypeOK
  BY DEF Init, TypeOK, NoMsf, NoPdb, NoHandle, Modes
<1>3. AllCounted
  BY <1>1, FS_EmptySet DEF Init, AllCounted, Counted, NoMsf, NoPdb
<1>4. ModesJoined
  BY <1>1 DEF ModesJoined
<1>5. QED
  BY <1>2, <1>3, <1>4 DEF IInv

\* A file whose PDB has no client gets a new one, or none; the queue loses the file.
LEMMA NewPdbStep ==
  ASSUME IInv, NEW c \in Clients, NEW f \in Files, NEW m \in Modes, NEW full \in BOOLEAN,
         ~handle[c].open, pdb[f].count = 0,
         queue' = queue \ {f}, expired' \subseteq queue', NewPdb(c, f, m, full)
  PROVE  IInv'
<1> USE DEF IInv
<1>1. Holders(f) = {}
  BY UnheldFacts
<1>2. CASE /\ msf' = [msf EXCEPT ![f] = [open |-> TRUE, fWrite |-> ~fRead(m), refcount |-> 1]]
           /\ pdb' = [pdb EXCEPT ![f] = [open |-> TRUE, count |-> 1, mode |-> m, full |-> full]]
           /\ handle' = [handle EXCEPT ![c] = [open |-> TRUE, file |-> f, mode |-> m]]
  <2>1. /\ Holders(f)' = {c}
        /\ \A g \in Files \ {f} : Holders(g)' = Holders(g)
        /\ \A d \in Clients \ {c} : handle'[d] = handle[d]
        /\ handle'[c].mode = m
    <3>0. Takes(c, f, m)
      BY <1>2 DEF Takes
    <3>1. /\ Holders(f)' = Holders(f) \cup {c}
          /\ \A g \in Files \ {f} : Holders(g)' = Holders(g)
          /\ \A d \in Clients \ {c} : handle'[d] = handle[d]
          /\ handle'[c].mode = m
      BY <3>0, HandleTaken
    <3>2. QED
      BY <1>1, <3>1
  <2>2. TypeOK'
    BY <1>2 DEF TypeOK, fRead
  <2>3. AllCounted'
    <3>1. /\ Cardinality(Holders(f)') = 1
          /\ pdb'[f] = [open |-> TRUE, count |-> 1, mode |-> m, full |-> full]
          /\ msf'[f] = [open |-> TRUE, fWrite |-> ~fRead(m), refcount |-> 1]
          /\ \A g \in Files \ {f} : pdb'[g] = pdb[g] /\ msf'[g] = msf[g]
      BY <1>2, <2>1, FS_Singleton DEF TypeOK
    <3>2. Counted(f)'
      BY <3>1 DEF Counted
    <3>3. \A g \in Files \ {f} : Counted(g)'
      BY <2>1, <3>1, CountedStays
    <3>4. QED
      BY <3>2, <3>3 DEF AllCounted
  <2>4. m \in Joined[m]
    BY DEF Joined, Modes
  <2>5. ModesJoined'
    <3> SUFFICES ASSUME NEW g \in Files, NEW d \in Holders(g)'
                 PROVE  /\ handle'[d].mode \in Joined[pdb'[g].mode]
                        /\ pdb'[g].mode = "WE" => \A e \in Holders(g)' : e = d
                        /\ ~fRead(handle'[d].mode) => msf'[g].fWrite
      BY DEF ModesJoined
    <3>1. CASE g = f
      BY <1>2, <2>1, <2>4, <3>1 DEF TypeOK
    <3>2. CASE g # f
      <4>1. d # c /\ d \in Clients
        BY <2>1, <3>2 DEF Holders
      <4>2. pdb'[g] = pdb[g] /\ msf'[g] = msf[g]
        BY <1>2, <3>2 DEF TypeOK
      <4>3. QED
        BY <2>1, <3>2, <4>1, <4>2 DEF ModesJoined
    <3>3. QED
      BY <3>1, <3>2
  <2>6. QED
    BY <2>2, <2>3, <2>5
<1>3. CASE /\ msf' = [msf EXCEPT ![f] = NoMsf]
           /\ pdb' = [pdb EXCEPT ![f] = NoPdb]
           /\ UNCHANGED handle
  <2>1. \A g \in Files : Holders(g)' = Holders(g)
    BY <1>3, HoldersStay
  <2>2. TypeOK'
    BY <1>3 DEF TypeOK, NoMsf, NoPdb, Modes
  <2>3. AllCounted'
    <3>1. /\ pdb'[f] = NoPdb /\ msf'[f] = NoMsf
          /\ \A g \in Files \ {f} : pdb'[g] = pdb[g] /\ msf'[g] = msf[g]
      BY <1>3 DEF TypeOK
    <3>2. Counted(f)'
      BY <1>1, <2>1, <3>1, FS_EmptySet DEF Counted, NoMsf, NoPdb
    <3>3. \A g \in Files \ {f} : Counted(g)'
      BY <2>1, <3>1, CountedStays
    <3>4. QED
      BY <3>2, <3>3 DEF AllCounted
  <2>4. ModesJoined'
    <3> SUFFICES ASSUME NEW g \in Files, NEW d \in Holders(g)'
                 PROVE  /\ handle'[d].mode \in Joined[pdb'[g].mode]
                        /\ pdb'[g].mode = "WE" => \A e \in Holders(g)' : e = d
                        /\ ~fRead(handle'[d].mode) => msf'[g].fWrite
      BY DEF ModesJoined
    <3>1. g # f
      BY <1>1, <2>1
    <3>2. pdb'[g] = pdb[g] /\ msf'[g] = msf[g]
      BY <1>3, <3>1 DEF TypeOK
    <3>3. QED
      BY <1>3, <2>1, <3>2 DEF ModesJoined
  <2>5. QED
    BY <2>2, <2>3, <2>4
<1>4. QED
  BY <1>2, <1>3 DEF NewPdb

LEMMA OpenFirstStep ==
  ASSUME IInv, NEW c \in Clients, NEW f \in Files, NEW m \in Modes, NEW full \in BOOLEAN,
         OpenFirst(c, f, m, full)
  PROVE  IInv'
<1>1. pdb[f].count = 0 /\ f \notin queue
  BY DEF IInv, OpenFirst, AllCounted, Counted
<1>2. ~handle[c].open /\ NewPdb(c, f, m, full)
  BY DEF OpenFirst, Opens
<1>3. queue' = queue \ {f} /\ expired' \subseteq queue'
  BY <1>1 DEF IInv, OpenFirst, manager, TypeOK
<1>4. QED
  BY <1>1, <1>2, <1>3, NewPdbStep

LEMMA OpenAgainStep ==
  ASSUME IInv, NEW c \in Clients, NEW f \in Files, NEW m \in Modes, NEW full \in BOOLEAN,
         OpenAgain(c, f, m, full)
  PROVE  IInv'
BY NewPdbStep DEF OpenAgain, Opens

LEMMA OpenSharedStep ==
  ASSUME IInv, NEW c \in Clients, NEW f \in Files, NEW m \in Modes, NEW full \in BOOLEAN,
         OpenShared(c, f, m, full)
  PROVE  IInv'
<1> USE DEF IInv
<1> DEFINE p == SharedMode(m, pdb[f].mode)
<1>1. /\ pdb[f].open /\ ~handle[c].open /\ ~AccessDenied(f, m) /\ SharesFlag(m, pdb[f].mode)
      /\ queue' = queue \ {f} /\ expired' \subseteq queue'
      /\ handle' = [handle EXCEPT ![c] = [open |-> TRUE, file |-> f, mode |-> m]]
      /\ UNCHANGED msf
  BY DEF OpenShared, Opens, Conflict, Dequeued
<1>2. p \in Modes
  BY DEF SharedMode, TypeOK
<1>3. /\ pdb'[f].open /\ pdb'[f].count = pdb[f].count + 1 /\ pdb'[f].mode = p
      /\ \A g \in Files \ {f} : pdb'[g] = pdb[g]
      /\ pdb' \in [Files -> [open : BOOLEAN, count : Nat, mode : Modes, full : BOOLEAN]]
  <2>1. pdb' = [pdb EXCEPT ![f].count = @ + 1, ![f].mode = p]
    BY DEF OpenShared
  <2>2. pdb \in [Files -> [open : BOOLEAN, count : Nat, mode : Modes, full : BOOLEAN]]
    BY DEF TypeOK
  <2>4. pdb'[f] = [pdb[f] EXCEPT !.count = @ + 1, !.mode = p]
    BY <2>1, <2>2
  <2>5. \A g \in Files \ {f} : pdb'[g] = pdb[g]
    BY <2>1, <2>2
  <2>3. pdb' \in [Files -> [open : BOOLEAN, count : Nat, mode : Modes, full : BOOLEAN]]
    <3>1. pdb[f] \in [open : BOOLEAN, count : Nat, mode : Modes, full : BOOLEAN]
      BY <2>2
    <3>2. pdb'[f] \in [open : BOOLEAN, count : Nat, mode : Modes, full : BOOLEAN]
      <4>1. PICK o \in BOOLEAN, k \in Nat, q \in Modes, u \in BOOLEAN :
              pdb[f] = [open |-> o, count |-> k, mode |-> q, full |-> u]
        BY <3>1
      <4>2. pdb'[f] = [open |-> o, count |-> k + 1, mode |-> p, full |-> u]
        <5> HIDE DEF p
        <5>1. [[open |-> o, count |-> k, mode |-> q, full |-> u] EXCEPT !.count = k + 1]
                = [open |-> o, count |-> k + 1, mode |-> q, full |-> u]
          BY SMTT(30)
        <5>2. [[open |-> o, count |-> k + 1, mode |-> q, full |-> u] EXCEPT !.mode = p]
                = [open |-> o, count |-> k + 1, mode |-> p, full |-> u]
          BY SMTT(30)
        <5>3. [pdb[f] EXCEPT !.count = @ + 1, !.mode = p]
                = [[pdb[f] EXCEPT !.count = pdb[f].count + 1] EXCEPT !.mode = p]
          OBVIOUS
        <5>4. pdb[f].count = k
          BY <4>1
        <5>5. QED
          BY <2>4, <4>1, <5>1, <5>2, <5>3, <5>4
      <4>3. k + 1 \in Nat
        OBVIOUS
      <4>4. QED
        BY <1>2, <4>2, <4>3
    <3>3. \A g \in Files : pdb'[g] \in [open : BOOLEAN, count : Nat, mode : Modes, full : BOOLEAN]
      BY <2>2, <2>5, <3>2
    <3>4. pdb' = [g \in Files |-> pdb'[g]]
      BY <2>1, <2>2
    <3>5. QED
      BY <3>3, <3>4
  <2>6. QED
    BY <1>1, <2>2, <2>3, <2>4, <2>5
<1>4. /\ c \notin Holders(f)
      /\ Holders(f)' = Holders(f) \cup {c}
      /\ Cardinality(Holders(f)') = Cardinality(Holders(f)) + 1
      /\ \A g \in Files \ {f} : Holders(g)' = Holders(g)
      /\ \A d \in Clients \ {c} : handle'[d] = handle[d]
      /\ handle'[c].mode = m
  <2>1. Takes(c, f, m)
    BY <1>1 DEF Takes
  <2>2. QED
    BY <2>1, HandleTaken
<1>5. TypeOK'
  BY <1>1, <1>3 DEF TypeOK
<1>6. AllCounted'
  <2>1. Counted(f)'
    BY <1>1, <1>3, <1>4 DEF TypeOK, AllCounted, Counted
  <2>2. \A g \in Files \ {f} : Counted(g)'
    BY <1>1, <1>3, <1>4, CountedStays
  <2>3. QED
    BY <2>1, <2>2 DEF AllCounted
<1>7. /\ pdb[f].mode # "WE" /\ p # "WE"
      /\ m \in Joined[p] /\ Joined[pdb[f].mode] \subseteq Joined[p]
  BY <1>1 DEF SharesFlag, SharedMode, Joined, Modes, fRead, fWriteShared, TypeOK
<1>8. ~fRead(m) => msf[f].fWrite
  BY <1>1 DEF AccessDenied, AllCounted, Counted
<1>9. ModesJoined'
  <2> SUFFICES ASSUME NEW g \in Files, NEW d \in Holders(g)'
               PROVE  /\ handle'[d].mode \in Joined[pdb'[g].mode]
                      /\ pdb'[g].mode = "WE" => \A e \in Holders(g)' : e = d
                      /\ ~fRead(handle'[d].mode) => msf'[g].fWrite
    BY DEF ModesJoined
  <2>1. CASE d = c /\ g = f
    BY <1>1, <1>3, <1>4, <1>7, <1>8, <2>1
  <2>2. CASE d # c
    <3>1. d \in Clients /\ d \in Holders(g)
      BY <1>4, <2>2 DEF Holders
    <3>2. CASE g = f
      BY <1>1, <1>3, <1>4, <1>7, <2>2, <3>1, <3>2 DEF ModesJoined
    <3>3. CASE g # f
      BY <1>1, <1>3, <1>4, <2>2, <3>1, <3>3 DEF ModesJoined
    <3>4. QED
      BY <3>2, <3>3
  <2>3. CASE d = c /\ g # f
    BY <1>1, <1>4, <2>3 DEF Holders
  <2>4. QED
    BY <2>1, <2>2, <2>3
<1>10. QED
  BY <1>5, <1>6, <1>9

\* The PDBs of S, which nobody has, leave the table and the queue.
LEMMA InternalCloseStep ==
  ASSUME IInv, NEW S, S \subseteq queue, InternalClose(S), handle' = handle,
         queue' = queue \ S, expired' \subseteq queue'
  PROVE  IInv'
<1> USE DEF IInv
<1>1. \A f \in Files : Holders(f)' = Holders(f)
  BY HoldersStay
<1>2. \A f \in S : f \in Files /\ pdb[f].open /\ pdb[f].count = 0 /\ msf[f].refcount = 1
  BY DEF TypeOK, AllCounted, Counted
<1>3. \A f \in Files : /\ pdb'[f] = IF f \in S THEN NoPdb ELSE pdb[f]
                       /\ msf'[f] = IF f \in S THEN NoMsf ELSE msf[f]
  BY <1>2 DEF InternalClose
<1>4. TypeOK'
  <2>1. NoPdb \in [open : BOOLEAN, count : Nat, mode : Modes, full : BOOLEAN]
    BY DEF NoPdb, Modes
  <2>2. NoMsf \in [open : BOOLEAN, fWrite : BOOLEAN, refcount : Nat]
    BY DEF NoMsf
  <2>3. pdb' \in [Files -> [open : BOOLEAN, count : Nat, mode : Modes, full : BOOLEAN]]
    BY <2>1 DEF InternalClose, TypeOK
  <2>4. msf' = [f \in Files |-> IF f \in S THEN NoMsf ELSE msf[f]]
    BY <1>2 DEF InternalClose
  <2>5. msf' \in [Files -> [open : BOOLEAN, fWrite : BOOLEAN, refcount : Nat]]
    BY <2>2, <2>4 DEF TypeOK
  <2>6. QED
    BY <2>3, <2>5 DEF TypeOK
<1>5. AllCounted'
  <2>1. ASSUME NEW f \in S
        PROVE  Counted(f)'
    BY <1>1, <1>2, <1>3 DEF AllCounted, Counted, NoPdb, NoMsf
  <2>2. ASSUME NEW f \in Files \ S
        PROVE  Counted(f)'
    BY <1>1, <1>3, CountedStays
  <2>3. QED
    BY <2>1, <2>2 DEF AllCounted
<1>6. ModesJoined'
  <2>1. \A f \in S : Holders(f) = {}
    BY <1>2, UnheldFacts
  <2>2. QED
    BY <1>1, <1>3, <2>1 DEF ModesJoined
<1>7. QED
  BY <1>4, <1>5, <1>6

LEMMA CloseOthersLeftStep ==
  ASSUME IInv, NEW c \in Clients, CloseOthersLeft(c)
  PROVE  IInv'
<1> USE DEF IInv
<1>0. PICK f \in Files : f = handle[c].file
  BY DEF CloseOthersLeft, TypeOK
<1>1. handle[c].open /\ pdb[f].count > 1 /\ UNCHANGED <<msf, queue, expired>>
  BY <1>0 DEF CloseOthersLeft, manager
<1>2. /\ Holders(f)' = Holders(f) \ {c}
      /\ Cardinality(Holders(f)') = Cardinality(Holders(f)) - 1
      /\ \A g \in Files \ {f} : Holders(g)' = Holders(g)
      /\ \A d \in Clients \ {c} : handle'[d] = handle[d]
  <2>1. Gives(c, f)
    BY <1>0, <1>1 DEF Gives, CloseOthersLeft
  <2>2. QED
    BY <2>1, HandleGiven
<1>3. /\ pdb'[f].open = pdb[f].open /\ pdb'[f].count = pdb[f].count - 1
      /\ pdb'[f].mode = pdb[f].mode
      /\ \A g \in Files \ {f} : pdb'[g] = pdb[g]
      /\ pdb' \in [Files -> [open : BOOLEAN, count : Nat, mode : Modes, full : BOOLEAN]]
  BY <1>0, <1>1 DEF CloseOthersLeft, TypeOK
<1>4. TypeOK'
  BY <1>1, <1>3 DEF CloseOthersLeft, TypeOK, NoHandle, Modes
<1>5. AllCounted'
  <2>1. Counted(f)'
    BY <1>1, <1>2, <1>3 DEF TypeOK, AllCounted, Counted
  <2>2. \A g \in Files \ {f} : Counted(g)'
    BY <1>1, <1>2, <1>3, CountedStays
  <2>3. QED
    BY <2>1, <2>2 DEF AllCounted
<1>6. ModesJoined'
  <2> SUFFICES ASSUME NEW g \in Files, NEW d \in Holders(g)'
               PROVE  /\ handle'[d].mode \in Joined[pdb'[g].mode]
                      /\ pdb'[g].mode = "WE" => \A e \in Holders(g)' : e = d
                      /\ ~fRead(handle'[d].mode) => msf'[g].fWrite
    BY DEF ModesJoined
  <2>1. d \in Holders(g) /\ handle'[d] = handle[d] /\ Holders(g)' \subseteq Holders(g)
    <3>1. CASE g = f
      BY <1>2, <3>1 DEF Holders
    <3>2. CASE g # f
      <4>1. d \in Holders(g) /\ Holders(g)' = Holders(g)
        BY <1>2, <3>2
      <4>2. d # c /\ d \in Clients
        BY <1>0, <3>2, <4>1 DEF Holders
      <4>3. QED
        BY <1>2, <4>1, <4>2
    <3>3. QED
      BY <3>1, <3>2
  <2>2. pdb'[g].mode = pdb[g].mode /\ msf'[g] = msf[g]
    BY <1>1, <1>3
  <2>3. QED
    BY <2>1, <2>2 DEF ModesJoined
<1>7. QED
  BY <1>4, <1>5, <1>6

LEMMA CloseLastStep ==
  ASSUME IInv, NEW c \in Clients, CloseLast(c)
  PROVE  IInv'
<1> USE DEF IInv
<1>0. PICK f \in Files : f = handle[c].file
  BY DEF CloseLast, TypeOK
<1>1. /\ handle[c].open /\ pdb[f].count = 1 /\ UNCHANGED expired
      /\ handle' = [handle EXCEPT ![c] = NoHandle]
  BY <1>0 DEF CloseLast
<1>2. f \notin queue /\ pdb[f].open /\ msf[f].refcount = 1
  BY <1>1 DEF AllCounted, Counted
<1>3. /\ Cardinality(Holders(f)') = 0 /\ Holders(f)' = {}
      /\ \A g \in Files \ {f} : Holders(g)' = Holders(g)
      /\ \A d \in Clients \ {c} : handle'[d] = handle[d]
  <2>1. /\ c \in Holders(f)
        /\ Holders(f)' = Holders(f) \ {c}
        /\ Cardinality(Holders(f)') = Cardinality(Holders(f)) - 1
        /\ \A g \in Files \ {f} : Holders(g)' = Holders(g)
        /\ \A d \in Clients \ {c} : handle'[d] = handle[d]
    <3>1. Gives(c, f)
      BY <1>0, <1>1 DEF Gives
    <3>2. QED
      BY <3>1, HandleGiven
  <2>2. Cardinality(Holders(f)) = 1
    BY <1>1 DEF AllCounted, Counted
  <2>3. Holders(f) = {c}
    BY <2>1, <2>2, HoldersFinite, FS_Singleton
  <2>4. QED
    BY <2>1, <2>2, <2>3
<1>4. handle' \in [Clients -> [open : BOOLEAN, file : Files \cup {NoHandle.file}, mode : Modes]]
  BY <1>1 DEF TypeOK, NoHandle, Modes
<1>5. \A d \in Clients : handle'[d].open => handle'[d].file \in Files
  BY <1>1 DEF TypeOK, NoHandle
\* In either case the other PDBs stay, and this one has no clients left.
<1>6. ASSUME \A g \in Files \ {f} : pdb'[g] = pdb[g] /\ msf'[g] = msf[g]
      PROVE  ModesJoined'
  <2> SUFFICES ASSUME NEW g \in Files, NEW d \in Holders(g)'
               PROVE  /\ handle'[d].mode \in Joined[pdb'[g].mode]
                      /\ pdb'[g].mode = "WE" => \A e \in Holders(g)' : e = d
                      /\ ~fRead(handle'[d].mode) => msf'[g].fWrite
    BY DEF ModesJoined
  <2>1. g # f
    BY <1>3
  <2>2. d \in Holders(g) /\ Holders(g)' = Holders(g)
    BY <1>3, <2>1
  <2>3. d # c /\ d \in Clients
    BY <1>0, <2>1, <2>2 DEF Holders
  <2>4. QED
    BY <1>3, <1>6, <2>1, <2>2, <2>3 DEF ModesJoined
<1>7. CASE InternalClose({f}) /\ UNCHANGED <<queue, notEmpty>>
  <2>1. \A g \in Files : /\ pdb'[g] = IF g = f THEN NoPdb ELSE pdb[g]
                         /\ msf'[g] = IF g = f THEN NoMsf ELSE msf[g]
    BY <1>2, <1>7 DEF InternalClose
  <2>2. /\ pdb' = [g \in Files |-> IF g \in {f} THEN NoPdb ELSE pdb[g]]
        /\ msf' = [g \in Files |-> IF g \in {f} THEN NoMsf ELSE msf[g]]
    BY <1>2, <1>7 DEF InternalClose
  <2>3. NoPdb \in [open : BOOLEAN, count : Nat, mode : Modes, full : BOOLEAN]
    BY DEF NoPdb, Modes
  <2>4. NoMsf \in [open : BOOLEAN, fWrite : BOOLEAN, refcount : Nat]
    BY DEF NoMsf
  <2>5. TypeOK'
    BY <1>1, <1>4, <1>5, <1>7, <2>2, <2>3, <2>4 DEF TypeOK
  <2>6. AllCounted'
    <3>1. Counted(f)'
      BY <1>2, <1>3, <1>7, <2>1 DEF Counted, NoPdb, NoMsf
    <3>2. \A g \in Files \ {f} : Counted(g)'
      BY <1>3, <1>7, <2>1, CountedStays
    <3>3. QED
      BY <3>1, <3>2 DEF AllCounted
  <2>7. QED
    BY <1>6, <2>1, <2>5, <2>6
<1>8. CASE pdb' = [pdb EXCEPT ![f].count = 0] /\ queue' = queue \cup {f} /\ UNCHANGED msf
  <2>1. /\ pdb'[f].open /\ pdb'[f].count = 0
        /\ \A g \in Files \ {f} : pdb'[g] = pdb[g]
        /\ pdb' \in [Files -> [open : BOOLEAN, count : Nat, mode : Modes, full : BOOLEAN]]
    BY <1>1, <1>2, <1>8 DEF TypeOK
  <2>2. TypeOK'
    BY <1>1, <1>4, <1>5, <1>8, <2>1 DEF TypeOK
  <2>3. AllCounted'
    <3>1. Counted(f)'
      BY <1>1, <1>2, <1>3, <1>8, <2>1 DEF AllCounted, Counted
    <3>2. \A g \in Files \ {f} : Counted(g)'
      BY <1>3, <1>8, <2>1, CountedStays
    <3>3. QED
      BY <3>1, <3>2 DEF AllCounted
  <2>4. QED
    BY <1>6, <1>8, <2>1, <2>2, <2>3
<1>9. QED
  BY <1>0, <1>7, <1>8 DEF CloseLast

\* Steps that touch neither the PDBs nor their clients.
LEMMA OtherStep ==
  ASSUME IInv, UNCHANGED <<msf, pdb, handle, queue>>, expired' \subseteq queue
  PROVE  IInv'
<1>1. \A f \in Files : Holders(f)' = Holders(f)
  BY HoldersStay
<1>2. TypeOK'
  BY DEF IInv, TypeOK
<1>3. AllCounted' /\ ModesJoined'
  BY <1>1 DEF IInv, AllCounted, Counted, ModesJoined
<1>4. QED
  BY <1>2, <1>3 DEF IInv

LEMMA NextIInv == IInv /\ [Next]_vars => IInv'
<1> SUFFICES ASSUME IInv, [Next]_vars PROVE IInv'
  OBVIOUS
<1>0. expired \subseteq queue
  BY DEF IInv, TypeOK
<1>1. ASSUME NEW c \in Clients, OpenEx2W(c)
      PROVE  IInv'
  <2>1. PICK f \in Files, m \in Modes, full \in BOOLEAN :
          \/ OpenFirst(c, f, m, full)
          \/ OpenShared(c, f, m, full)
          \/ OpenAgain(c, f, m, full)
          \/ OpenDenied(c, f, m, full)
    BY <1>1 DEF OpenEx2W
  <2>2. CASE OpenDenied(c, f, m, full)
    BY <1>0, <2>2, OtherStep DEF OpenDenied, manager
  <2>3. QED
    BY <2>1, <2>2, OpenFirstStep, OpenSharedStep, OpenAgainStep
<1>2. ASSUME NEW c \in Clients, Close(c)
      PROVE  IInv'
  BY <1>2, CloseOthersLeftStep, CloseLastStep DEF Close
<1>3. ASSUME NEW t \in BOOLEAN, SetTimeout(t)
      PROVE  IInv'
  BY <1>0, <1>3, OtherStep DEF SetTimeout
<1>4. CASE CloseAllTimeoutPDB \/ ShutDown
  BY <1>4, InternalCloseStep DEF CloseAllTimeoutPDB, ShutDown
<1>5. CASE TimePasses
  BY <1>5, OtherStep DEF TimePasses
<1>6. CASE Cleanup
  <2>1. CASE WaitNotEmpty \/ WaitTimer
    BY <1>0, <2>1, OtherStep DEF WaitNotEmpty, WaitTimer
  <2>2. CASE CloseTimedOutPDBs
    <3>1. queue' = queue \ (queue \cap expired) /\ expired' = {} /\ handle' = handle
      BY <2>2 DEF CloseTimedOutPDBs
    <3>2. QED
      BY <2>2, <3>1, InternalCloseStep DEF CloseTimedOutPDBs
  <2>3. QED
    BY <1>6, <2>1, <2>2 DEF Cleanup
<1>7. CASE UNCHANGED vars
  BY <1>0, <1>7, OtherStep DEF vars, manager
<1>8. QED
  BY <1>1, <1>2, <1>3, <1>4, <1>5, <1>6, <1>7 DEF Next

LEMMA Invariant == Spec => []IInv
BY InitIInv, NextIInv, PTL DEF Spec

-----------------------------------------------------------------------------
\* The counts, modes, files and the queue keep their types.
THEOREM TypeCorrect == Spec => []TypeOK
<1>1. IInv => TypeOK
  BY DEF IInv
<1>2. QED
  BY <1>1, Invariant, PTL

\* The count of a PDB is the number of its clients, the table, the queue and the
\* multistream files agree: no client holds a PDB that the manager, its thread or
\* another client closed (OpenEx2W, NotifyClose, internal_Close of pdb.cpp).
THEOREM CountsRight == Spec => []HandlesCounted
<1>1. IInv => HandlesCounted
  BY DEF IInv, AllCounted, Counted, HandlesCounted
<1>2. QED
  BY <1>1, Invariant, PTL

\* The clients of a PDB have modes that go together, and a client that asked to
\* write has a file it can write (pdb.cpp:411-421).
THEOREM ExclusiveModes == Spec => []ExclusionHolds
<1>1. IInv => ExclusionHolds
  <2> SUFFICES ASSUME IInv, NEW f \in Files
               PROVE  /\ \A c, d \in Holders(f) :
                           c # d => {handle[c].mode, handle[d].mode} \in MayShare
                      /\ \A c \in Holders(f) : ~fRead(handle[c].mode) => msf[f].fWrite
    BY DEF ExclusionHolds
  <2>1. ASSUME NEW c \in Holders(f), NEW d \in Holders(f), c # d
        PROVE  {handle[c].mode, handle[d].mode} \in MayShare
    <3>1. /\ handle[c].mode \in Joined[pdb[f].mode]
          /\ handle[d].mode \in Joined[pdb[f].mode]
          /\ pdb[f].mode # "WE"
      BY <2>1 DEF IInv, ModesJoined
    <3>2. pdb[f].mode \in {"RE", "WS", "RS"}
      BY <3>1 DEF IInv, TypeOK, Modes
    <3>3. CASE pdb[f].mode = "RE"
      BY <3>1, <3>3 DEF Joined, MayShare
    <3>4. CASE pdb[f].mode = "WS"
      BY <3>1, <3>4 DEF Joined, MayShare
    <3>5. CASE pdb[f].mode = "RS"
      BY <3>1, <3>5 DEF Joined, MayShare
    <3>6. QED
      BY <3>2, <3>3, <3>4, <3>5
  <2>2. \A c \in Holders(f) : ~fRead(handle[c].mode) => msf[f].fWrite
    BY DEF IInv, ModesJoined
  <2>3. QED
    BY <2>1, <2>2
<1>2. QED
  BY <1>1, Invariant, PTL
=============================================================================
