-------------------------- MODULE DbiStreamsProofs --------------------------
(***************************************************************************)
(* Proofs about module DbiStreams: for any number of streams and modules,  *)
(* whatever writes fail, the committed header of a DBI leads to the        *)
(* streams of their owners, whole and as they were last given, and to      *)
(* every stream there is - for clients that look at what they are told,    *)
(* and but for the owners hurt by a failure that nobody is told of.        *)
(***************************************************************************)
EXTENDS DbiStreams, WellFoundedInduction, TLAPS

\* Numbers, names and contents that are not those of nothing.
ConstantsOK ==
  /\ Sns \subseteq Nat \ {snNil}
  /\ Mods \cap {"none", "gs", "ps", "sym", "fpo", "frames"} = {}
  /\ Vals \subseteq Nat \ {Empty}

\* A header, the streams and what the owners were given go together, but for those in H.
Good(h, s, w, H) ==
  /\ h \in [Owners -> Sns \cup {snNil}] /\ DOMAIN s = Sns /\ w \in [Owners -> Given]
  /\ H \subseteq Owners
  /\ \A o \in Owners : h[o] = snNil => w[o] = Empty
  /\ \A o \in Owners \ H : h[o] # snNil => s[h[o]] = Whole(o, w[o]) /\ Sole(h, o)
  /\ \A sn \in Sns : s[sn] # NoContent => \E o \in Owners : h[o] = sn

WholeDbi(d) == d.whole = TRUE \/ d = NoDbi

\* The steps of a DBI that is open.
Saving == {"gs", "ps", "sym", "hdr", "frames"}
OpenSteps == {"clear", "open"} \cup Saving

\* While the client knows of no failure: the DBI stream, or the header in memory, leads to
\* all that was given, but for the owners that are hurt; debug data that is open has a
\* stream.
Sound ==
  /\ pc \in {"closed"} \cup OpenSteps
  /\ pc = "closed" => Good(dbi.hdr, st, want, hurt) /\ WholeDbi(dbi)
  /\ pc \in OpenSteps => Good(hdr, st, want, hurt)
  /\ hurt # {} => nWriteFails > 0
  /\ pc = "frames" => dbi = [whole |-> TRUE, hdr |-> hdr]
  /\ pc \in {"closed", "clear"} => dbgs = {}
  /\ pc \in Saving => dbgs \subseteq {"frames"}
  /\ \A o \in dbgs : o \in Dbgs /\ hdr[o] # snNil

IInv ==
  /\ fTold \in BOOLEAN /\ nWriteFails \in Nat
  /\ pc = "clear" => ~fTold
  /\ Good(cdbi.hdr, cst, cwant, churt) /\ WholeDbi(cdbi)
  /\ churt # {} => nWriteFails > 0
  /\ ~fTold => Sound

-----------------------------------------------------------------------------
(* Lemmas about headers and streams.                                       *)

\* A set of natural numbers that is not empty has a least one.
LEMMA LeastIn ==
  ASSUME NEW T \in SUBSET Nat, T # {}
  PROVE  Min(T) \in T
<1> DEFINE R == OpToRel(<, Nat)
<1>1. IsWellFoundedOn(R, Nat)
  BY NatLessThanWellFounded
<1>2. \A x, y \in Nat : <<y, x>> \in R <=> y < x
  BY DEF OpToRel
<1> HIDE DEF R
<1>3. PICK x \in T : \A y \in T : <<y, x>> \notin R
  BY <1>1, WFMin
<1>4. ASSUME NEW y \in T
      PROVE  x <= y
  <2>1. x \in Nat /\ y \in Nat /\ <<y, x>> \notin R
    BY <1>3
  <2>2. ~(y < x)
    BY <1>2, <2>1, Zenon
  <2>3. QED
    BY <2>1, <2>2
<1>5. QED
  BY <1>3, <1>4 DEF Min

LEMMA OwnersKnown ==
  /\ {"gs", "ps", "sym", "fpo", "frames"} \subseteq Owners
  /\ Mods \subseteq Owners
  /\ ConstantsOK => "none" \notin Owners
BY DEF Owners, Dbgs, ConstantsOK

LEMMA WholeIsSome ==
  ASSUME ConstantsOK, NEW o \in Owners, NEW v
  PROVE  Whole(o, v) # NoContent
<1>1. o # "none"
  BY OwnersKnown
<1>2. Whole(o, v).of = o /\ NoContent.of = "none"
  BY DEF Whole, NoContent
<1>3. QED
  BY <1>1, <1>2

\* Whoever else has the number that an owner has or gets is hurt.
LEMMA NumberOwn ==
  ASSUME ConstantsOK, NEW h, NEW w, NEW H, Good(h, st, w, H),
         NEW o \in Owners, fEnsureSn(h[o]) # snNil
  PROVE  /\ fEnsureSn(h[o]) \in Sns
         /\ \A p \in Owners \ {o} : h[p] = fEnsureSn(h[o]) => p \in H
<1>1. CASE h[o] # snNil
  <2>1. fEnsureSn(h[o]) = h[o] /\ h[o] \in Sns
    BY <1>1 DEF fEnsureSn, Good
  <2>2. ASSUME NEW p \in Owners \ {o}, h[p] = h[o], p \notin H
        PROVE  FALSE
    <3>1. Sole(h, p)
      BY <1>1, <2>2 DEF Good
    <3>2. QED
      BY <1>1, <2>2, <3>1 DEF Sole
  <2>3. QED
    BY <2>1, <2>2
<1>2. CASE h[o] = snNil
  <2>1. FreeSns(st) # {} /\ fEnsureSn(h[o]) = Min(FreeSns(st))
    BY <1>2 DEF fEnsureSn
  <2>2. FreeSns(st) \in SUBSET Nat
    BY DEF FreeSns, Good, ConstantsOK
  <2>3. fEnsureSn(h[o]) \in FreeSns(st)
    BY <2>1, <2>2, LeastIn
  <2>4. fEnsureSn(h[o]) \in Sns /\ st[fEnsureSn(h[o])] = NoContent
    BY <2>3 DEF FreeSns, Good
  <2>5. ASSUME NEW p \in Owners \ {o}, h[p] = fEnsureSn(h[o]), p \notin H
        PROVE  FALSE
    <3>1. st[h[p]] = Whole(p, w[p])
      BY <2>4, <2>5 DEF Good, ConstantsOK
    <3>2. QED
      BY <2>4, <2>5, <3>1, WholeIsSome
  <2>6. QED
    BY <2>4, <2>5
<1>3. QED
  BY <1>1, <1>2

\* An owner's stream is written.
LEMMA WriteGood ==
  ASSUME ConstantsOK, NEW h, NEW s, NEW w, NEW H, Good(h, s, w, H),
         NEW o \in Owners, NEW sn \in Sns, NEW v \in Given,
         \A p \in Owners \ {o} : h[p] = sn => p \in H,
         h[o] \in {sn, snNil},
         NEW H2, H2 = IF Sole([h EXCEPT ![o] = sn], o) THEN H \ {o} ELSE H \cup {o}
  PROVE  Good([h EXCEPT ![o] = sn], [s EXCEPT ![sn] = Whole(o, v)], [w EXCEPT ![o] = v], H2)
<1> DEFINE h2 == [h EXCEPT ![o] = sn]
           s2 == [s EXCEPT ![sn] = Whole(o, v)]
           w2 == [w EXCEPT ![o] = v]
<1>1. /\ h2 \in [Owners -> Sns \cup {snNil}] /\ h2[o] = sn
      /\ \A p \in Owners \ {o} : h2[p] = h[p]
  BY DEF Good
<1>2. DOMAIN s2 = Sns /\ s2[sn] = Whole(o, v) /\ \A q \in Sns \ {sn} : s2[q] = s[q]
  BY DEF Good
<1>3. w2 \in [Owners -> Given] /\ w2[o] = v /\ \A p \in Owners \ {o} : w2[p] = w[p]
  BY DEF Good
<1>4. H2 = (IF Sole(h2, o) THEN H \ {o} ELSE H \cup {o}) /\ H2 \subseteq Owners
  BY DEF Good
<1> HIDE DEF h2, s2, w2
<1>5. \A p \in Owners : h2[p] = snNil => w2[p] = Empty
  BY <1>1, <1>3 DEF Good, ConstantsOK
<1>6. ASSUME NEW p \in Owners \ H2, h2[p] # snNil
      PROVE  s2[h2[p]] = Whole(p, w2[p]) /\ Sole(h2, p)
  <2>1. CASE p = o
    BY <1>1, <1>2, <1>3, <1>4, <1>6, <2>1
  <2>2. CASE p # o
    <3>1. p \notin H /\ h2[p] = h[p] /\ w2[p] = w[p] /\ h[p] # sn
      BY <1>1, <1>3, <1>4, <2>2
    <3>2. s[h[p]] = Whole(p, w[p]) /\ Sole(h, p) /\ h[p] \in Sns
      BY <1>6, <3>1 DEF Good
    <3>3. Sole(h2, p)
      BY <1>1, <1>6, <2>2, <3>1, <3>2 DEF Sole
    <3>4. QED
      BY <1>2, <3>1, <3>2, <3>3
  <2>3. QED
    BY <2>1, <2>2
<1>7. ASSUME NEW q \in Sns, s2[q] # NoContent
      PROVE  \E p \in Owners : h2[p] = q
  <2>1. CASE q = sn
    BY <1>1, <2>1
  <2>2. CASE q # sn
    <3>1. PICK p \in Owners : h[p] = q
      BY <1>2, <1>7, <2>2 DEF Good
    <3>2. p # o
      BY <2>2, <3>1 DEF ConstantsOK
    <3>3. QED
      BY <1>1, <3>1, <3>2
  <2>3. QED
    BY <2>1, <2>2
<1>8. Good(h2, s2, w2, H2)
  BY <1>1, <1>2, <1>3, <1>4, <1>5, <1>6, <1>7 DEF Good
<1>9. QED
  BY <1>8 DEF h2, s2, w2

\* An owner is hurt: its stream is lost, or holds whatever it holds.
LEMMA HurtGood ==
  ASSUME ConstantsOK, NEW h, NEW s, NEW w, NEW H, Good(h, s, w, H),
         NEW o \in Owners, h[o] # snNil, NEW v \in Given, NEW x
  PROVE  Good(h, [s EXCEPT ![h[o]] = x], [w EXCEPT ![o] = v], H \cup {o})
<1> DEFINE s2 == [s EXCEPT ![h[o]] = x]
           w2 == [w EXCEPT ![o] = v]
           H2 == H \cup {o}
<1>1. /\ h \in [Owners -> Sns \cup {snNil}] /\ h[o] \in Sns
      /\ DOMAIN s2 = Sns /\ \A q \in Sns \ {h[o]} : s2[q] = s[q]
  BY DEF Good
<1>2. w2 \in [Owners -> Given] /\ \A p \in Owners \ {o} : w2[p] = w[p]
  BY DEF Good
<1>3. H2 \subseteq Owners /\ \A p \in Owners \ H2 : p \notin H /\ p # o
  BY DEF Good
<1> HIDE DEF s2, w2, H2
<1>4. \A p \in Owners : h[p] = snNil => w2[p] = Empty
  BY <1>2 DEF Good
<1>5. ASSUME NEW p \in Owners \ H2, h[p] # snNil
      PROVE  s2[h[p]] = Whole(p, w2[p]) /\ Sole(h, p)
  <2>1. s[h[p]] = Whole(p, w[p]) /\ Sole(h, p) /\ p # o
    BY <1>3, <1>5 DEF Good
  <2>2. h[p] # h[o] /\ h[p] \in Sns
    BY <1>1, <1>5, <2>1 DEF Sole
  <2>3. QED
    BY <1>1, <1>2, <2>1, <2>2
<1>6. ASSUME NEW q \in Sns, s2[q] # NoContent
      PROVE  \E p \in Owners : h[p] = q
  <2>1. CASE q = h[o]
    BY <2>1
  <2>2. CASE q # h[o]
    BY <1>1, <1>6, <2>2 DEF Good
  <2>3. QED
    BY <2>1, <2>2
<1>7. Good(h, s2, w2, H2)
  BY <1>1, <1>2, <1>3, <1>4, <1>5, <1>6 DEF Good
<1>8. QED
  BY <1>7 DEF s2, w2, H2

\* An owner's stream goes.
LEMMA DropGood ==
  ASSUME ConstantsOK, NEW h, NEW s, NEW w, NEW H, Good(h, s, w, H),
         NEW o \in Owners, h[o] # snNil
  PROVE  Good([h EXCEPT ![o] = snNil], [s EXCEPT ![h[o]] = NoContent], [w EXCEPT ![o] = Empty], H \ {o})
<1> DEFINE h2 == [h EXCEPT ![o] = snNil]
           s2 == [s EXCEPT ![h[o]] = NoContent]
           w2 == [w EXCEPT ![o] = Empty]
           H2 == H \ {o}
<1>1. /\ h2 \in [Owners -> Sns \cup {snNil}] /\ h2[o] = snNil
      /\ \A p \in Owners \ {o} : h2[p] = h[p]
  BY DEF Good
<1>2. /\ h[o] \in Sns
      /\ DOMAIN s2 = Sns /\ s2[h[o]] = NoContent /\ \A q \in Sns \ {h[o]} : s2[q] = s[q]
  BY DEF Good
<1>3. w2 \in [Owners -> Given] /\ w2[o] = Empty /\ \A p \in Owners \ {o} : w2[p] = w[p]
  BY DEF Good, Given
<1>4. H2 \subseteq Owners /\ \A p \in Owners \ {o} : p \notin H2 => p \notin H
  BY DEF Good
<1> HIDE DEF h2, s2, w2, H2
<1>5. \A p \in Owners : h2[p] = snNil => w2[p] = Empty
  BY <1>1, <1>3 DEF Good
<1>6. ASSUME NEW p \in Owners \ H2, h2[p] # snNil
      PROVE  s2[h2[p]] = Whole(p, w2[p]) /\ Sole(h2, p)
  <2>1. p # o /\ p \notin H /\ h2[p] = h[p] /\ w2[p] = w[p]
    BY <1>1, <1>3, <1>4, <1>6
  <2>2. s[h[p]] = Whole(p, w[p]) /\ Sole(h, p) /\ h[p] \in Sns
    BY <1>6, <2>1 DEF Good
  <2>3. h[p] # h[o] /\ Sole(h2, p)
    BY <1>1, <1>6, <2>1, <2>2 DEF Sole
  <2>4. QED
    BY <1>2, <2>1, <2>2, <2>3
<1>7. ASSUME NEW q \in Sns, s2[q] # NoContent
      PROVE  \E p \in Owners : h2[p] = q
  <2>1. q # h[o] /\ s[q] # NoContent
    BY <1>2, <1>7
  <2>2. PICK p \in Owners : h[p] = q
    BY <2>1 DEF Good
  <2>3. QED
    BY <1>1, <2>1, <2>2
<1>8. Good(h2, s2, w2, H2)
  BY <1>1, <1>2, <1>3, <1>4, <1>5, <1>6, <1>7 DEF Good
<1>9. QED
  BY <1>8 DEF h2, s2, w2, H2

LEMMA NothingGood ==
  ASSUME NEW s, DOMAIN s = Sns, \A sn \in Sns : s[sn] = NoContent
  PROVE  Good(NoHdr, s, [o \in Owners |-> Empty], {})
BY DEF Good, NoHdr, Given

-----------------------------------------------------------------------------
(* What the helpers of the actions keep, when the client is told of nothing. *)

\* The header leads where it should, but for those that are hurt, which takes a failure.
Holds == Good(hdr, st, want, hurt) /\ (hurt # {} => nWriteFails > 0)

\* Who is not hurt has its stream.
LEMMA UnhurtExtant ==
  ASSUME ConstantsOK, Good(hdr, st, want, hurt), NEW o \in Owners, hdr[o] # snNil, o \notin hurt
  PROVE  st[hdr[o]] = Whole(o, want[o]) /\ Extant(hdr[o])
BY WholeIsSome DEF Good, Extant

\* A save under the number an owner has or gets.
LEMMA SavedGood ==
  ASSUME ConstantsOK, Holds, NEW o \in Owners, NEW v \in Given,
         fEnsureSn(hdr[o]) # snNil, hdr' = [hdr EXCEPT ![o] = fEnsureSn(hdr[o])],
         st' = [st EXCEPT ![fEnsureSn(hdr[o])] = Whole(o, v)],
         want' = [want EXCEPT ![o] = v], Marks(o, TRUE), nWriteFails' = nWriteFails
  PROVE  Holds' /\ \A p \in Owners : hdr[p] # snNil => hdr'[p] # snNil
<1> DEFINE sn == fEnsureSn(hdr[o])
<1>1. sn \in Sns /\ \A p \in Owners \ {o} : hdr[p] = sn => p \in hurt
  BY NumberOwn DEF Holds
<1>2. hdr[o] \in {sn, snNil}
  BY DEF fEnsureSn
<1>3. hurt' = IF Sole([hdr EXCEPT ![o] = sn], o) THEN hurt \ {o} ELSE hurt \cup {o}
  BY DEF Marks
<1> HIDE DEF sn
<1>4. Good(hdr', st', want', hurt')
  BY <1>1, <1>2, <1>3, WriteGood DEF Holds, sn
<1>5. hdr'[o] = sn /\ \A p \in Owners \ {o} : hdr'[p] = hdr[p]
  BY DEF Holds, Good, sn
<1>6. ASSUME hurt' # {}
      PROVE  nWriteFails' > 0
  <2>1. CASE Sole(hdr', o)
    BY <1>3, <1>6, <2>1 DEF Holds, sn
  <2>2. CASE ~Sole(hdr', o)
    <3>1. PICK p \in Owners \ {o} : hdr'[p] = sn
      BY <1>5, <2>2 DEF Sole
    <3>2. p \in hurt
      BY <1>1, <1>5, <3>1
    <3>3. QED
      BY <3>2 DEF Holds
  <2>3. QED
    BY <2>1, <2>2
<1>7. QED
  BY <1>1, <1>4, <1>5, <1>6 DEF Holds, ConstantsOK

LEMMA SavesGood ==
  ASSUME ConstantsOK, Holds, fTold \in BOOLEAN, nWriteFails \in Nat,
         NEW o \in Owners, NEW v \in Given, Saves(o, v), ~fTold'
  PROVE  /\ ~fTold /\ Holds' /\ ~Failed(o)
         /\ \A p \in Owners : hdr[p] # snNil => hdr'[p] # snNil
<1> DEFINE sn == fEnsureSn(hdr[o])
<1>1. /\ hdr' = [hdr EXCEPT ![o] = sn] /\ want' = [want EXCEPT ![o] = v]
      /\ sn # snNil /\ Replaced(sn, o, v) /\ Marks(o, TRUE)
  BY DEF Saves
<1>2. NoFail /\ st' = [st EXCEPT ![sn] = Whole(o, v)]
  BY <1>1 DEF Replaced, Fail
<1>3. Holds' /\ \A p \in Owners : hdr[p] # snNil => hdr'[p] # snNil
  BY <1>1, <1>2, SavedGood DEF NoFail
<1> HIDE DEF sn
<1>4. hdr'[o] = sn
  BY <1>1 DEF Holds, Good
<1>5. QED
  BY <1>1, <1>2, <1>3, <1>4 DEF NoFail, Failed

\* An owner that has nothing to write has no number after it, and is not hurt.
LEMMA DroppedGood ==
  ASSUME ConstantsOK, Holds, NEW o \in Owners, hdr[o] # snNil,
         st' = [st EXCEPT ![hdr[o]] = NoContent], hdr' = [hdr EXCEPT ![o] = snNil],
         want' = [want EXCEPT ![o] = Empty], Marks(o, TRUE), nWriteFails' = nWriteFails
  PROVE  Holds' /\ \A p \in Owners \ {o} : hdr'[p] = hdr[p]
<1>1. hdr'[o] = snNil /\ \A p \in Owners \ {o} : hdr'[p] = hdr[p]
  BY DEF Holds, Good
<1>2. hurt' = hurt \ {o}
  BY <1>1 DEF Marks, Sole
<1>3. Good(hdr', st', want', hurt')
  BY <1>2, DropGood DEF Holds
<1>4. QED
  BY <1>1, <1>2, <1>3 DEF Holds

LEMMA DropsGood ==
  ASSUME ConstantsOK, Holds, fTold \in BOOLEAN, NEW o \in Owners, Drops(o), ~fTold'
  PROVE  /\ ~fTold /\ Holds'
         /\ \A p \in Owners \ {o} : hdr'[p] = hdr[p]
<1>1. want' = [want EXCEPT ![o] = Empty] /\ Marks(o, TRUE)
  BY DEF Drops
<1>2. CASE hdr[o] = snNil
  <2>1. NoFail /\ hdr' = hdr /\ st' = st
    BY <1>2 DEF Drops
  <2>2. want[o] = Empty /\ want \in [Owners -> Given]
    BY <1>2 DEF Holds, Good
  <2>3. want' = want
    BY <1>1, <2>2
  <2>4. hurt' = hurt \ {o}
    BY <1>1, <1>2, <2>1 DEF Marks, Sole
  <2>5. Good(hdr, st, want, hurt \ {o})
    BY <1>2 DEF Holds, Good
  <2>6. QED
    BY <2>1, <2>3, <2>4, <2>5 DEF NoFail, Holds
<1>3. CASE hdr[o] # snNil
  <2>1. /\ NoFail /\ st' = [st EXCEPT ![hdr[o]] = NoContent]
        /\ hdr' = [hdr EXCEPT ![o] = snNil]
    BY <1>3 DEF Drops, nullifyStream
  <2>2. QED
    BY <1>1, <1>3, <2>1, DroppedGood DEF NoFail
<1>4. QED
  BY <1>2, <1>3

\* A save of debug data, whatever became of it.
LEMMA SaveDbgGood ==
  ASSUME ConstantsOK, Holds, nWriteFails \in Nat,
         NEW o \in Owners, hdr[o] # snNil, NEW v \in Given, SaveDbg(o, v)
  PROVE  /\ Holds' /\ fTold' = fTold
         /\ \A p \in Owners \ {o} : hdr'[p] = hdr[p]
         /\ v # Empty => hdr' = hdr
<1>1. want' = [want EXCEPT ![o] = v] /\ fTold' = fTold
  BY DEF SaveDbg
<1>2. hdr[o] \in Sns /\ [hdr EXCEPT ![o] = hdr[o]] = hdr /\ fEnsureSn(hdr[o]) = hdr[o]
  BY DEF Holds, Good, fEnsureSn
<1>3. CASE v # Empty
  <2>1. hdr' = hdr
    BY <1>3 DEF SaveDbg
  <2>2. CASE st' = [st EXCEPT ![hdr[o]] = Whole(o, v)] /\ nWriteFails' = nWriteFails /\ Marks(o, TRUE)
    <3>1. Holds'
      BY <1>1, <1>2, <2>1, <2>2, SavedGood
    <3>2. QED
      BY <1>1, <1>3, <2>1, <3>1
  <2>3. CASE nWriteFails' = nWriteFails + 1 /\ st' = [st EXCEPT ![hdr[o]] = NoContent] /\ Marks(o, FALSE)
    <3>1. hurt' = hurt \cup {o}
      BY <2>3 DEF Marks
    <3>2. Good(hdr', st', want', hurt')
      BY <1>1, <2>1, <2>3, <3>1, HurtGood DEF Holds
    <3>3. nWriteFails' > 0
      BY <2>3
    <3>4. QED
      BY <1>1, <1>3, <2>1, <3>2, <3>3 DEF Holds
  <2>4. QED
    BY <1>3, <2>2, <2>3 DEF SaveDbg
<1>4. CASE v = Empty
  <2>1. nWriteFails' = nWriteFails
    BY <1>4 DEF SaveDbg
  <2>2. CASE Extant(hdr[o])
    <3>1. /\ st' = [st EXCEPT ![hdr[o]] = NoContent] /\ hdr' = [hdr EXCEPT ![o] = snNil]
          /\ Marks(o, TRUE)
      BY <1>4, <2>2 DEF SaveDbg, nullifyStream
    <3>2. QED
      BY <1>1, <1>4, <2>1, <3>1, DroppedGood
  <2>3. CASE ~Extant(hdr[o])
    <3>1. hdr' = hdr /\ st' = st /\ hurt' = hurt \cup {o}
      BY <1>4, <2>3 DEF SaveDbg, Marks
    <3>2. o \in hurt
      BY <2>3, UnhurtExtant DEF Holds
    <3>3. hurt' = hurt
      BY <3>1, <3>2
    <3>4. want' \in [Owners -> Given] /\ \A p \in Owners \ {o} : want'[p] = want[p]
      BY <1>1 DEF Holds, Good
    <3>5. Good(hdr', st', want', hurt')
      BY <3>1, <3>2, <3>3, <3>4 DEF Holds, Good
    <3>6. QED
      BY <1>1, <1>4, <2>1, <3>1, <3>3, <3>5 DEF Holds
  <2>4. QED
    BY <2>2, <2>3
<1>5. QED
  BY <1>3, <1>4

-----------------------------------------------------------------------------
(* The invariant holds initially, and every action keeps it.               *)

LEMMA InitInv ==
  ASSUME ConstantsOK, DbiInit
  PROVE  IInv
<1>1. Good(NoHdr, st, want, {})
  BY NothingGood DEF DbiInit
<1>2. dbi = NoDbi /\ cdbi = NoDbi /\ NoDbi.hdr = NoHdr /\ cst = st /\ cwant = want /\ hurt = {} /\ churt = {}
  BY DEF DbiInit, NoDbi
<1>3. QED
  BY <1>1, <1>2 DEF DbiInit, IInv, Sound, WholeDbi, OpenSteps, Saving

\* What the actions leave alone.
LEMMA SameCommitted ==
  ASSUME IInv, UNCHANGED committed, fTold' \in BOOLEAN, nWriteFails' \in Nat, nWriteFails <= nWriteFails',
         pc' = "clear" => ~fTold', ~fTold' => Sound'
  PROVE  IInv'
BY DEF IInv, committed

Counts == fTold' \in BOOLEAN /\ nWriteFails' \in Nat /\ nWriteFails <= nWriteFails'

LEMMA Counted ==
  ASSUME IInv
  PROVE  /\ NoFail \/ Fail \/ (fTold' = TRUE /\ UNCHANGED nWriteFails) => Counts
         /\ \A o, v : Saves(o, v) \/ Drops(o) \/ SaveDbg(o, v) => Counts
<1>1. NoFail \/ Fail \/ (fTold' = TRUE /\ UNCHANGED nWriteFails) => Counts
  <2>1. fTold \in BOOLEAN /\ nWriteFails \in Nat
    BY DEF IInv
  <2>2. NoFail => Counts
    BY <2>1 DEF NoFail, Counts
  <2>3. Fail => fTold' \in BOOLEAN /\ nWriteFails' = nWriteFails + 1
    BY DEF Fail
  <2>4. Fail => Counts
    BY <2>1, <2>3 DEF Counts
  <2>5. fTold' = TRUE /\ UNCHANGED nWriteFails => Counts
    BY <2>1 DEF Counts
  <2>6. QED
    BY <2>2, <2>4, <2>5
<1>2. \A o, v : Saves(o, v) => NoFail \/ Fail \/ (fTold' = TRUE /\ UNCHANGED nWriteFails)
  BY DEF Saves, Replaced
<1>3. \A o : Drops(o) => NoFail \/ (fTold' = TRUE /\ UNCHANGED nWriteFails)
  BY DEF Drops, NoFail
<1>4. ASSUME NEW o, NEW v, SaveDbg(o, v)
      PROVE  Counts
  <2>1. fTold' = fTold /\ (nWriteFails' = nWriteFails \/ nWriteFails' = nWriteFails + 1)
    BY <1>4 DEF SaveDbg
  <2>2. QED
    BY <2>1 DEF IInv, Counts
<1>5. QED
  BY <1>1, <1>2, <1>3, <1>4

LEMMA fInitInv ==
  ASSUME ConstantsOK, LooksAtError, IInv, NEW create \in BOOLEAN, fInit(create)
  PROVE  IInv'
<1>1. ASSUME ~fTold'
      PROVE  Sound'
  <2>1. ~fTold /\ pc = "closed" /\ hdr' = dbi.hdr /\ pc' \in {"clear", "open"} /\ dbgs = {}
    BY <1>1 DEF fInit, IInv, Sound
  <2>2. Good(hdr', st', want', hurt') /\ (hurt' # {} => nWriteFails' > 0)
    BY <2>1 DEF fInit, IInv, Sound, ghosts
  <2>3. QED
    BY <2>1, <2>2 DEF fInit, Sound, OpenSteps, Saving
<1>2. ~fTold'
  BY DEF fInit, GoesOn
<1>3. QED
  BY <1>1, <1>2, SameCommitted DEF fInit, IInv

LEMMA clearDBIInv ==
  ASSUME ConstantsOK, IInv, clearDBI
  PROVE  IInv'
<1>1. CASE ~Clearable
  <2>1. fTold' = TRUE /\ pc' = "failed" /\ UNCHANGED <<committed, nWriteFails>>
    BY <1>1 DEF clearDBI
  <2>2. QED
    BY <2>1, SameCommitted DEF IInv
<1>2. CASE Clearable
  <2>1. /\ st' = [sn \in Sns |-> IF sn \in OldStreams THEN NoContent ELSE st[sn]]
        /\ hdr' = NoHdr /\ dbi' = NoDbi
        /\ want' = [o \in Owners |-> Empty] /\ hurt' = {}
        /\ dbgs' = dbgs
        /\ \/ /\ NoFail /\ pc' = "open"
              /\ cst' = st' /\ cdbi' = dbi' /\ cwant' = want' /\ churt' = hurt'
           \/ Fail /\ UNCHANGED committed /\ pc' = "failed"
    BY <1>2 DEF clearDBI
  <2>2. CASE Fail /\ UNCHANGED committed /\ pc' = "failed"
    <3>1. fTold' = TRUE
      BY <2>2 DEF Fail
    <3>2. QED
      BY <2>2, <3>1, Counted, SameCommitted DEF Counts
  <2>3. CASE /\ NoFail /\ pc' = "open"
             /\ cst' = st' /\ cdbi' = dbi' /\ cwant' = want' /\ churt' = hurt'
    <3>1. ~fTold' /\ fTold' = fTold /\ nWriteFails' = nWriteFails
      BY <2>3 DEF IInv, clearDBI, NoFail
    <3>2. Good(hdr, st, want, hurt) /\ dbgs = {}
      BY <3>1 DEF IInv, Sound, clearDBI, OpenSteps
    <3>3. \A sn \in Sns : st'[sn] = NoContent
      <4>1. \A sn \in Sns : st[sn] # NoContent => sn \in OldStreams
        BY <3>2 DEF Good, OldStreams, ConstantsOK
      <4>2. QED
        BY <2>1, <4>1
    <3>4. Good(hdr', st', want', hurt')
      BY <2>1, <3>3, NothingGood
    <3>5. Good(cdbi'.hdr, cst', cwant', churt') /\ WholeDbi(cdbi') /\ churt' = {}
      BY <2>1, <2>3, <3>4 DEF NoDbi, WholeDbi
    <3>6. Sound'
      BY <2>1, <2>3, <3>2, <3>4 DEF Sound, OpenSteps, Saving
    <3>7. QED
      BY <2>3, <3>1, <3>5, <3>6 DEF IInv
  <2>4. QED
    BY <2>1, <2>2, <2>3
<1>3. QED
  BY <1>1, <1>2

LEMMA CloseModInv ==
  ASSUME ConstantsOK, IInv, NEW m \in Mods, NEW v \in Given, CloseMod(m, v)
  PROVE  IInv'
<1>1. pc = "open" /\ pc' = "open" /\ dbgs' = dbgs /\ UNCHANGED committed
  BY DEF CloseMod
<1>2. Counts
  BY Counted DEF CloseMod
<1>3. ASSUME ~fTold'
      PROVE  Sound'
  <2>1. m \in Owners /\ m \notin Dbgs
    BY OwnersKnown DEF ConstantsOK, Dbgs
  <2>2. ~fTold
    BY <1>3 DEF CloseMod, Saves, Replaced, NoFail, Fail, Drops, IInv
  <2>3. Holds
    BY <1>1, <2>2 DEF IInv, Sound, OpenSteps, Holds
  <2>4. Holds' /\ \A o \in dbgs : hdr'[o] # snNil
    <3>1. CASE v = Empty
      <4>1. /\ Holds'
            /\ \A p \in Owners \ {m} : hdr'[p] = hdr[p]
        BY <1>3, <2>1, <2>3, <3>1, DropsGood DEF CloseMod, IInv
      <4>2. \A o \in dbgs : o \in Owners \ {m} /\ hdr[o] # snNil
        BY <2>1, <2>2, OwnersKnown DEF IInv, Sound, Dbgs
      <4>3. QED
        BY <4>1, <4>2
    <3>2. CASE v # Empty
      <4>1. /\ Holds'
            /\ \A p \in Owners : hdr[p] # snNil => hdr'[p] # snNil
        BY <1>3, <2>1, <2>3, <3>2, SavesGood DEF CloseMod, IInv
      <4>2. \A o \in dbgs : o \in Owners /\ hdr[o] # snNil
        BY <2>2, OwnersKnown DEF IInv, Sound, Dbgs
      <4>3. QED
        BY <4>1, <4>2
    <3>3. QED
      BY <3>1, <3>2
  <2>5. QED
    BY <1>1, <2>2, <2>4 DEF IInv, Sound, OpenSteps, Saving, Holds
<1>4. QED
  BY <1>1, <1>2, <1>3, SameCommitted DEF Counts

LEMMA OpenDbgInv ==
  ASSUME ConstantsOK, IInv, NEW o \in Dbgs, OpenDbg(o)
  PROVE  IInv'
<1>1. /\ pc = "open" /\ pc' = "open" /\ UNCHANGED <<want, committed>>
      /\ fValidateSnDbg(o)
      /\ dbgs' = IF Failed(o) THEN dbgs ELSE dbgs \cup {o}
  BY DEF OpenDbg
<1>2. NoFail \/ Fail \/ (fTold' = TRUE /\ UNCHANGED nWriteFails)
  BY <1>1 DEF fValidateSnDbg
<1>3. ASSUME ~fTold'
      PROVE  Sound'
  <2>1. NoFail
    BY <1>2, <1>3 DEF Fail
  <2>2. ~fTold /\ o \in Owners /\ Holds
    BY <1>1, <1>3, <2>1, OwnersKnown DEF NoFail, IInv, Sound, OpenSteps, Dbgs, Holds
  <2>3. Holds' /\ \A p \in Owners : hdr[p] # snNil => hdr'[p] # snNil
    <3>1. CASE hdr[o] # snNil
      BY <1>1, <2>1, <2>2, <3>1 DEF fValidateSnDbg, NoFail, Holds
    <3>2. CASE hdr[o] = snNil
      <4> DEFINE sn == fEnsureSn(hdr[o])
      <4>1. /\ hdr' = [hdr EXCEPT ![o] = sn] /\ Marks(o, TRUE)
            /\ sn # snNil /\ st' = [st EXCEPT ![sn] = Whole(o, Empty)]
        <5>1. nWriteFails + 1 # nWriteFails
          BY DEF IInv
        <5>2. QED
          BY <1>1, <1>3, <2>1, <3>2, <5>1 DEF fValidateSnDbg, NoFail, Fail
      <4>2. want[o] = Empty /\ want \in [Owners -> Given] /\ Empty \in Given
        BY <2>2, <3>2 DEF Holds, Good, Given
      <4>3. want' = [want EXCEPT ![o] = Empty]
        BY <1>1, <4>2
      <4>4. QED
        BY <2>1, <2>2, <4>1, <4>2, <4>3, SavedGood DEF NoFail
    <3>3. QED
      BY <3>1, <3>2
  <2>4. \A p \in dbgs' : p \in Dbgs /\ hdr'[p] # snNil
    <3>1. \A p \in dbgs : p \in Dbgs /\ p \in Owners /\ hdr[p] # snNil
      BY <2>2, OwnersKnown DEF IInv, Sound, Dbgs
    <3>2. CASE Failed(o)
      BY <1>1, <2>3, <3>1, <3>2
    <3>3. CASE ~Failed(o)
      BY <1>1, <2>3, <3>1, <3>3 DEF Failed
    <3>4. QED
      BY <3>2, <3>3
  <2>5. QED
    BY <1>1, <2>3, <2>4 DEF Sound, OpenSteps, Saving, Holds
<1>4. QED
  BY <1>1, <1>2, <1>3, SameCommitted, Counted DEF Counts

\* Whatever becomes of the save, and though nobody is told of it.
LEMMA CloseDbgInv ==
  ASSUME ConstantsOK, IInv, NEW o \in Dbgs, NEW v \in Given, CloseDbg(o, v)
  PROVE  IInv'
<1>1. /\ pc = "open" /\ pc' = "open" /\ UNCHANGED committed
      /\ o \in dbgs /\ dbgs' = dbgs \ {o} /\ SaveDbg(o, v)
  BY DEF CloseDbg
<1>2. Counts
  BY <1>1, Counted
<1>3. ASSUME ~fTold'
      PROVE  Sound'
  <2>1. ~fTold
    BY <1>1, <1>3 DEF SaveDbg
  <2>2. Holds /\ o \in Owners /\ hdr[o] # snNil /\ nWriteFails \in Nat
    BY <1>1, <2>1, OwnersKnown DEF IInv, Sound, OpenSteps, Dbgs, Holds
  <2>3. /\ Holds'
        /\ \A p \in Owners \ {o} : hdr'[p] = hdr[p]
    BY <1>1, <2>2, SaveDbgGood
  <2>4. \A p \in dbgs' : p \in Dbgs /\ hdr'[p] # snNil
    BY <1>1, <2>1, <2>3, OwnersKnown DEF IInv, Sound, Dbgs
  <2>5. QED
    BY <1>1, <2>3, <2>4 DEF Sound, OpenSteps, Saving, Holds
<1>4. QED
  BY <1>1, <1>2, <1>3, SameCommitted DEF Counts

LEMMA CloseInv ==
  ASSUME ConstantsOK, IInv, CloseDbi
  PROVE  IInv'
<1>1. ~fTold' => Sound'
  BY DEF CloseDbi, IInv, Sound, OpenSteps, Saving, ghosts
<1>2. QED
  BY <1>1, SameCommitted DEF CloseDbi, IInv

\* fSave goes on with the next table.
LEMMA TableSaved ==
  ASSUME ConstantsOK, IInv, NEW o \in {"gs", "ps", "sym"}, pc = o,
         pc' \in {"failed", StepOf(o)}, UNCHANGED <<dbi, dbgs, committed>>, Counts,
         ~fTold' => /\ ~fTold /\ Holds' /\ pc' = StepOf(o)
                   /\ \A p \in Owners : hdr[p] # snNil => hdr'[p] # snNil
  PROVE  IInv'
<1>1. ASSUME ~fTold'
      PROVE  Sound'
  <2>1. pc \in Saving \ {"frames"} /\ pc' \in Saving \ {"frames"} /\ Holds' /\ ~fTold
    BY <1>1 DEF Saving, StepOf
  <2>2. \A p \in dbgs : p \in Dbgs /\ p \in Owners /\ hdr[p] # snNil
    BY <2>1, OwnersKnown DEF IInv, Sound, Dbgs
  <2>3. QED
    BY <1>1, <2>1, <2>2 DEF IInv, Sound, OpenSteps, Saving, Holds
<1>2. pc' # "clear"
  BY DEF StepOf
<1>3. QED
  BY <1>1, <1>2, SameCommitted DEF Counts

LEMMA writeStreamInv ==
  ASSUME ConstantsOK, IInv, NEW o \in {"gs", "ps"}, NEW v \in Vals, writeStream(o, v)
  PROVE  IInv'
<1>1. pc = o /\ Saves(o, v) /\ pc' = IF Failed(o) THEN "failed" ELSE StepOf(o)
  BY DEF writeStream
<1>2. Counts
  BY <1>1, Counted
<1>3. ASSUME ~fTold'
      PROVE  ~fTold /\ Holds
  BY <1>1, <1>3 DEF Saves, Replaced, NoFail, Fail, IInv, Sound, OpenSteps, Saving, Holds
<1>4. o \in Owners /\ v \in Given
  BY OwnersKnown DEF Given
<1>5. ~fTold' => /\ ~fTold /\ Holds' /\ ~Failed(o)
                /\ \A p \in Owners : hdr[p] # snNil => hdr'[p] # snNil
  BY <1>1, <1>3, <1>4, SavesGood DEF IInv
<1>6. QED
  BY <1>1, <1>2, <1>5, TableSaved DEF writeStream

LEMMA writeSymRecsInv ==
  ASSUME ConstantsOK, IInv, NEW v \in Vals, writeSymRecs(v)
  PROVE  IInv'
<1> DEFINE sn == hdr["sym"]
           own == st[sn] = Whole("sym", want["sym"])
<1>1. /\ pc = "sym" /\ UNCHANGED <<dbi, dbgs, committed>>
      /\ IF sn = snNil
         THEN Saves("sym", v) /\ pc' = IF Failed("sym") THEN "failed" ELSE "hdr"
         ELSE /\ want' = [want EXCEPT !["sym"] = v] /\ UNCHANGED hdr /\ Marks("sym", own)
              /\ \/ /\ Extant(sn) /\ NoFail /\ pc' = "hdr"
                    /\ st' = [st EXCEPT ![sn] = IF own THEN Whole("sym", v) ELSE Part("sym")]
                 \/ Extant(sn) /\ Fail /\ UNCHANGED st /\ pc' = "failed"
                 \/ ~own /\ fTold' = TRUE /\ UNCHANGED <<st, nWriteFails>> /\ pc' = "failed"
  BY DEF writeSymRecs
<1>2. "sym" \in Owners /\ v \in Given
  BY OwnersKnown DEF Given
<1>3. Counts
  BY <1>1, Counted
<1>4. ~fTold => Holds
  BY <1>1 DEF IInv, Sound, OpenSteps, Saving, Holds
<1>5. ASSUME ~fTold'
      PROVE  /\ ~fTold /\ Holds' /\ pc' = "hdr"
             /\ \A p \in Owners : hdr[p] # snNil => hdr'[p] # snNil
  <2>1. CASE sn = snNil
    <3>1. Saves("sym", v)
      BY <1>1, <2>1
    <3>2. ~fTold
      BY <1>5, <3>1 DEF Saves, Replaced, NoFail, Fail, IInv
    <3>3. QED
      BY <1>1, <1>2, <1>4, <1>5, <2>1, <3>1, <3>2, SavesGood DEF IInv
  <2>2. CASE sn # snNil
    <3>1. /\ want' = [want EXCEPT !["sym"] = v] /\ hdr' = hdr /\ Marks("sym", own)
          /\ NoFail /\ pc' = "hdr"
          /\ st' = [st EXCEPT ![sn] = IF own THEN Whole("sym", v) ELSE Part("sym")]
      BY <1>1, <1>5, <2>2 DEF Fail
    <3>2. ~fTold /\ Holds /\ nWriteFails' = nWriteFails
      BY <1>4, <1>5, <3>1 DEF NoFail
    <3>3. sn \in Sns /\ fEnsureSn(sn) = sn /\ [hdr EXCEPT !["sym"] = sn] = hdr
      BY <1>2, <2>2, <3>2 DEF Holds, Good, fEnsureSn
    <3>4. CASE own
      <4>1. Holds'
        BY <1>2, <2>2, <3>1, <3>2, <3>3, <3>4, SavedGood
      <4>2. QED
        BY <3>1, <3>2, <4>1
    <3>5. CASE ~own
      <4>1. hurt' = hurt \cup {"sym"}
        BY <3>1, <3>5 DEF Marks
      <4>2. "sym" \in hurt
        BY <1>2, <2>2, <3>2, <3>5, UnhurtExtant DEF Holds
      <4>3. Good(hdr', st', want', hurt')
        BY <1>2, <2>2, <3>1, <3>2, <4>1, HurtGood DEF Holds
      <4>4. QED
        BY <3>1, <3>2, <4>1, <4>2, <4>3 DEF Holds
    <3>6. QED
      BY <3>4, <3>5
  <2>3. QED
    BY <2>1, <2>2
<1>6. StepOf("sym") = "hdr" /\ pc' \in {"failed", "hdr"}
  BY <1>1 DEF StepOf
<1>7. QED
  BY <1>1, <1>3, <1>5, <1>6, TableSaved

LEMMA writeHdrInv ==
  ASSUME ConstantsOK, IInv, writeHdr
  PROVE  IInv'
<1>1. NoFail \/ Fail
  BY DEF writeHdr
<1>2. ASSUME ~fTold'
      PROVE  Sound'
  <2>1. NoFail /\ dbi' = [whole |-> TRUE, hdr |-> hdr] /\ pc' = "frames"
    BY <1>2 DEF writeHdr, Fail
  <2>2. ~fTold /\ nWriteFails' = nWriteFails
    BY <1>2, <2>1 DEF NoFail
  <2>3. QED
    BY <2>1, <2>2 DEF writeHdr, IInv, Sound, OpenSteps, Saving, ghosts
<1>3. QED
  BY <1>1, <1>2, SameCommitted, Counted DEF writeHdr, Counts

LEMMA saveFramesInv ==
  ASSUME ConstantsOK, IInv, NEW v \in Given, saveFrames(v)
  PROVE  IInv'
<1>1. /\ pc = "frames" /\ pc' = "closed" /\ dbgs' = {} /\ UNCHANGED <<dbi, committed>>
      /\ IF "frames" \in dbgs THEN v # Empty /\ SaveDbg("frames", v)
         ELSE UNCHANGED <<st, hdr, ghosts>> /\ NoFail
  BY DEF saveFrames
<1>2. Counts
  BY <1>1, Counted
<1>3. ASSUME ~fTold'
      PROVE  Sound'
  <2>1. ~fTold
    BY <1>1, <1>3 DEF SaveDbg, NoFail
  <2>2. Holds /\ dbi = [whole |-> TRUE, hdr |-> hdr] /\ nWriteFails \in Nat
    BY <1>1, <2>1 DEF IInv, Sound, OpenSteps, Saving, Holds
  <2>3. Holds' /\ hdr' = hdr
    <3>1. CASE "frames" \in dbgs
      <4>1. "frames" \in Owners /\ hdr["frames"] # snNil
        BY <2>1, <3>1, OwnersKnown DEF IInv, Sound
      <4>2. QED
        BY <1>1, <2>2, <3>1, <4>1, SaveDbgGood
    <3>2. CASE "frames" \notin dbgs
      BY <1>1, <2>2, <3>2 DEF Holds, ghosts, NoFail
    <3>3. QED
      BY <3>1, <3>2
  <2>4. dbi'.hdr = hdr' /\ WholeDbi(dbi')
    BY <1>1, <2>2, <2>3 DEF WholeDbi
  <2>5. QED
    BY <1>1, <2>3, <2>4 DEF Sound, OpenSteps, Saving, Holds
<1>4. QED
  BY <1>1, <1>2, <1>3, SameCommitted DEF Counts

\* Whoever has a step of fSave or of the clear failed was told.
LEMMA CloseFailedInv ==
  ASSUME IInv, CloseFailed
  PROVE  IInv'
<1>1. fTold
  BY DEF IInv, Sound, CloseFailed, OpenSteps, Saving
<1>2. QED
  BY <1>1, SameCommitted DEF CloseFailed, IInv

LEMMA CommitPdbInv ==
  ASSUME LooksAtError, IInv, CommitPdb
  PROVE  IInv'
<1>1. ~fTold /\ pc = "closed"
  BY DEF CommitPdb, GoesOn
<1>2. Good(dbi.hdr, st, want, hurt) /\ WholeDbi(dbi) /\ (hurt # {} => nWriteFails > 0)
  BY <1>1 DEF IInv, Sound
<1>3. Sound'
  BY <1>1 DEF IInv, Sound, CommitPdb, OpenSteps, Saving, ghosts
<1>4. QED
  BY <1>1, <1>2, <1>3 DEF IInv, CommitPdb

LEMMA ReloadInv ==
  ASSUME IInv, Reload
  PROVE  IInv'
<1>1. Sound'
  BY DEF IInv, Sound, Reload, OpenSteps, Saving, committed
<1>2. QED
  BY <1>1 DEF IInv, Reload, committed

LEMMA Preserved ==
  ASSUME ConstantsOK, LooksAtError, IInv, [DbiNext]_dbiVars
  PROVE  IInv'
<1>1. CASE UNCHANGED dbiVars
  BY <1>1 DEF IInv, Sound, dbiVars, ghosts, committed
<1>2. CASE DbiNext
  <2>1. CASE \E create \in BOOLEAN : fInit(create)
    BY <2>1, fInitInv
  <2>2. CASE clearDBI
    BY <2>2, clearDBIInv
  <2>3. CASE \E m \in Mods, v \in Given : CloseMod(m, v)
    BY <2>3, CloseModInv
  <2>4. CASE \E o \in Dbgs : OpenDbg(o)
    BY <2>4, OpenDbgInv
  <2>5. CASE \E o \in Dbgs, v \in Given : CloseDbg(o, v)
    BY <2>5, CloseDbgInv
  <2>6. CASE CloseDbi
    BY <2>6, CloseInv
  <2>7. CASE \E o \in {"gs", "ps"}, v \in Vals : writeStream(o, v)
    BY <2>7, writeStreamInv
  <2>8. CASE \E v \in Vals : writeSymRecs(v)
    BY <2>8, writeSymRecsInv
  <2>9. CASE writeHdr
    BY <2>9, writeHdrInv
  <2>10. CASE \E v \in Given : saveFrames(v)
    BY <2>10, saveFramesInv
  <2>11. CASE CloseFailed
    BY <2>11, CloseFailedInv
  <2>12. CASE CommitPdb
    BY <2>12, CommitPdbInv
  <2>13. CASE Reload
    BY <2>13, ReloadInv
  <2>14. QED
    BY <1>2, <2>1, <2>2, <2>3, <2>4, <2>5, <2>6, <2>7, <2>8, <2>9, <2>10, <2>11, <2>12, <2>13 DEF DbiNext
<1>3. QED
  BY <1>1, <1>2

-----------------------------------------------------------------------------
(* What follows.                                                           *)

LEMMA InvRight ==
  ASSUME ConstantsOK, IInv
  PROVE  CommittedRight
<1>1. Good(cdbi.hdr, cst, cwant, churt) /\ WholeDbi(cdbi) /\ (churt # {} => nWriteFails > 0)
  BY DEF IInv
<1>2. HeaderLeads
  BY <1>1 DEF HeaderLeads, Good, WholeDbi, Sole
<1>3. NoOrphans
  BY <1>1 DEF Good, NoOrphans
<1>4. QED
  BY <1>1, <1>2, <1>3 DEF CommittedRight

\* For any number of streams and modules and any failing writes, told of or not, a client
\* that looks at what it is told commits only headers that lead to each owner's stream,
\* whole and as it was last given, and to every stream there is; only debug data whose save
\* was lost (Dbg1Data::Close), and who came to share its number, may miss theirs.
THEOREM CommittedReadBack ==
  ASSUME ConstantsOK, LooksAtError
  PROVE  DbiSpec => []CommittedRight
<1>1. DbiInit => IInv
  BY InitInv
<1>2. IInv /\ [DbiNext]_dbiVars => IInv'
  BY Preserved
<1>3. IInv => CommittedRight
  BY InvRight
<1>4. QED
  BY <1>1, <1>2, <1>3, PTL DEF DbiSpec
=============================================================================
