------------------------------ MODULE SymRecs ------------------------------
(* The symbol records of a DBI that is open for reading, and the references  *)
(* among them to the symbols of modules (PDB/dbi/dbi.cpp, PDB/dbi/mod.cpp).  *)
(* Records are read page by page, as they are asked for.  Those of old PDBs  *)
(* are converted, and with the symbols of a module the places of these       *)
(* change, so that each reference must follow, once for each conversion:     *)
(*   "sz"    nothing is converted                                            *)
(*   "st"    names change their form (VC6): each record when it is read, a    *)
(*           module's symbols when they are first asked for                  *)
(*   "vc40"  types are widened before that: all records when they are read,  *)
(*           the references to a module when its symbols are converted.      *)
(* Threads share the DBI; m_csForSymRec and m_csForMods keep them apart.     *)
(*                                                                           *)
(*  - A reference names symbol i of a module; its page and the places of     *)
(*    that symbol in the three forms are constants.                          *)
(*  - A module closes when nobody is in a call: Mod1::Close deletes it also  *)
(*    under a thread that uses it.                                           *)
EXTENDS Integers, FiniteSets

CONSTANTS
  Threads, Mods,
  Refs,       \* records that are references
  Of, Ith,    \* the module and the symbol that a reference names
  Span,       \* the pages of a record
  Hidden,     \* the pages of the name behind it, in an old form
  Off40, Off60, OffSz,  \* the places of each module's symbols
  MaxCloses   \* bound: modules that are closed

VARIABLES
  fmt,      \* the form of the PDB
  fRead,    \* bufSymRecs has its memory
  pages,    \* pbvSymRecPgs: the pages that are read
  recs,     \* the references in memory: converted or not, and ibSym
  isetModConverted,
  mods,     \* the open modules
  owner,    \* the critical sections
  pc, cur, fVC40,       \* of each thread: where it is, the record or the module, fVC40Offset
  answers,  \* history: the references that were handed out
  lost,     \* history: those whose module failed to open when they were converted
  closes

vars == <<fmt, fRead, pages, recs, isetModConverted, mods, owner, pc, cur, fVC40, answers, lost, closes>>
calls == <<pc, cur, fVC40>>

Nobody == "nobody"
AllPages == UNION {Span[r] \cup Hidden[r] : r \in Refs}
Old == fmt # "sz"

-----------------------------------------------------------------------------
(* The maps of places *)

\* CvtSyms::offSymNewForOffSymOld: what is not found stays.
Widened(m, off) ==
  IF \E i \in DOMAIN Off40[m] : Off40[m][i] = off
  THEN Off60[m][CHOOSE i \in DOMAIN Off40[m] : Off40[m][i] = off] ELSE off
\* CvtStSymsToSz::offSymNewForOffSymOld: by the last symbol at or before the place.
Renamed(m, off) ==
  LET at == {i \in DOMAIN Off60[m] : Off60[m][i] <= off}
      i == CHOOSE j \in at : \A k \in at : k <= j
  IN IF at = {} THEN off ELSE off + OffSz[m][i] - Off60[m][i]

OnDisk(r) ==
  [sz |-> ~Old,
   ib |-> CASE fmt = "sz" -> OffSz[Of[r]][Ith[r]]
            [] fmt = "st" -> Off60[Of[r]][Ith[r]]
            [] fmt = "vc40" -> Off40[Of[r]][Ith[r]]]

-----------------------------------------------------------------------------
(* Reading records *)

\* Mutant: the name that NextSym does not count is not read.
ButName(r) == Span[r]
Needed(r) == Span[r] \cup IF recs[r].sz THEN {} ELSE Hidden[r]

\* Mutant: the page is not marked as read.
Unmarked(ps) == pages
Marked(ps) == pages \cup ps

\* fReadSymRecPage: what is in a page that was not read comes from the stream.
fReadSymRecPages(ps) ==
  /\ recs' = [r \in Refs |-> IF Span[r] \cap (ps \ pages) # {} THEN OnDisk(r) ELSE recs[r]]
  /\ pages' = Marked(ps)

\* fReadSymRecs: with the first records comes the conversion of all of them.
fReadSymRecs ==
  /\ fRead' = TRUE
  /\ pages' = IF ~fRead /\ fmt = "vc40" THEN AllPages ELSE pages

\* Mutant: the reference counts as not yet moved in any case.
NeverMoved(r) == TRUE
NotMoved(r) == Of[r] \notin isetModConverted

-----------------------------------------------------------------------------
(* The symbols of a module *)
Closed == [open |-> FALSE, wide |-> FALSE, sz |-> FALSE, fValid |-> FALSE]

\* Mutant: references are moved whenever the symbols are converted.
MovesAgain(m) == TRUE
Moves(m) == m \notin isetModConverted

\* fReadAndConvertSyms tells the DBI, which moves the references to m.
fixupRefSymsForImod(m) ==
  /\ fReadSymRecs
  /\ recs' = [r \in Refs |->
       IF Of[r] = m /\ Moves(m) THEN [recs[r] EXCEPT !.ib = Widened(m, @)] ELSE recs[r]]
  /\ isetModConverted' = isetModConverted \cup {m}

\* QuerySymbols must convert what it does not hold, and does so once for a size and
\* the symbols that follow it.
Converts(m) == Old /\ ~mods[m].sz
Widens(m) == Converts(m) /\ fmt = "vc40"

\* The symbols are given out or kept for the next call.
Queried(m, given) ==
  mods' = [mods EXCEPT ![m] = [open |-> TRUE, wide |-> FALSE, sz |-> Old /\ ~given,
                               fValid |-> @.fValid \/ Converts(m)]]

-----------------------------------------------------------------------------
(* The calls *)

OpenGlobals ==
  /\ ~fRead /\ owner.symrec = Nobody
  /\ fReadSymRecs
  /\ UNCHANGED <<fmt, recs, isetModConverted, mods, owner, calls, answers, lost, closes>>

OpenMod(m) ==
  /\ ~mods[m].open /\ owner.mods = Nobody
  /\ mods' = [mods EXCEPT ![m] = [Closed EXCEPT !.open = TRUE]]
  /\ UNCHANGED <<fmt, fRead, pages, recs, isetModConverted, owner, calls, answers, lost, closes>>

CloseMod(m) ==
  /\ mods[m].open /\ closes < MaxCloses /\ \A t \in Threads : pc[t] = "idle"
  /\ mods' = [mods EXCEPT ![m] = Closed]
  /\ closes' = closes + 1
  /\ UNCHANGED <<fmt, fRead, pages, recs, isetModConverted, owner, calls, answers, lost>>

Wait(t, where, what, cs) ==
  /\ pc' = [pc EXCEPT ![t] = where]
  /\ cur' = [cur EXCEPT ![t] = what]
  /\ owner' = [owner EXCEPT ![cs] = t]

\* A symbol's record is handed out.
Return(t, r) ==
  /\ pc' = [pc EXCEPT ![t] = "idle"]
  /\ owner' = [owner EXCEPT !.symrec = Nobody]
  /\ answers' = answers \cup {r}
  /\ UNCHANGED cur

\* fReadSymRec: the pages, and the name; a reference must ask its module.
ReadRec(t, r) ==
  /\ fRead /\ pc[t] = "idle" /\ owner.symrec = Nobody
  /\ LET read == IF Span[r] \cap (Needed(r) \ pages) # {} THEN OnDisk(r) ELSE recs[r] IN
     IF read.sz
     THEN /\ fReadSymRecPages(Needed(r))
          /\ Return(t, r) /\ UNCHANGED fVC40
     ELSE /\ pages' = Marked(Needed(r))
          /\ recs' = [s \in Refs |->
               IF s = r THEN [read EXCEPT !.sz = TRUE]
               ELSE IF Span[s] \cap (Needed(r) \ pages) # {} THEN OnDisk(s) ELSE recs[s]]
          /\ fVC40' = [fVC40 EXCEPT ![t] = NotMoved(r)]
          /\ Wait(t, "open", r, "symrec")
          /\ UNCHANGED answers
  /\ UNCHANGED <<fmt, fRead, isetModConverted, mods, lost, closes>>

openModByImod(t) ==
  /\ pc[t] = "open" /\ owner.mods = Nobody
  /\ mods' = [mods EXCEPT ![Of[cur[t]]].open = TRUE]
  /\ pc' = [pc EXCEPT ![t] = "move"]
  /\ UNCHANGED <<fmt, fRead, pages, recs, isetModConverted, owner, cur, fVC40, answers, lost, closes>>

\* The record is converted already, but its place is not.
openModFails(t) ==
  /\ pc[t] = "open" /\ owner.mods = Nobody /\ ~mods[Of[cur[t]]].open
  /\ lost' = lost \cup {cur[t]}
  /\ pc' = [pc EXCEPT ![t] = "idle"]
  /\ owner' = [owner EXCEPT !.symrec = Nobody]
  /\ UNCHANGED <<fmt, fRead, pages, recs, isetModConverted, mods, cur, fVC40, answers, closes>>

\* Mod1::offSymNewForOffSymOld: the symbols are converted if they were not, which
\* moves the references to the module, this one too; it counts with the place
\* that this one had when it was called.
offSymNewForOffSymOld(t) ==
  LET r == cur[t]
      m == Of[r]
      widens == ~mods[m].fValid /\ Widens(m)
      off == IF ~mods[m].fValid /\ fmt = "vc40" /\ fVC40[t] THEN Widened(m, recs[r].ib) ELSE recs[r].ib
  IN
  /\ pc[t] = "move" /\ owner.mods = Nobody
  /\ IF mods[m].fValid THEN UNCHANGED mods ELSE Queried(m, FALSE)
  /\ isetModConverted' = isetModConverted \cup IF widens THEN {m} ELSE {}
  /\ recs' = [s \in Refs |->
       IF s = r THEN [recs[s] EXCEPT !.ib = Renamed(m, off)]
       ELSE IF widens /\ Of[s] = m /\ Moves(m) THEN [recs[s] EXCEPT !.ib = Widened(m, @)]
       ELSE recs[s]]
  /\ Return(t, r)
  /\ UNCHANGED <<fmt, fRead, pages, fVC40, lost, closes>>

\* Mod1::QuerySymbols, for the size or for the symbols.
QuerySymbols(t, m, given) ==
  /\ mods[m].open /\ pc[t] = "idle" /\ owner.mods = Nobody
  /\ IF Widens(m)
     THEN /\ Wait(t, IF given THEN "fixgive" ELSE "fixkeep", m, "mods")
          /\ UNCHANGED mods
     ELSE Queried(m, given) /\ UNCHANGED <<pc, cur, owner>>
  /\ UNCHANGED <<fmt, fRead, pages, recs, isetModConverted, fVC40, answers, lost, closes>>

QueryWidened(t) ==
  /\ pc[t] \in {"fixgive", "fixkeep"} /\ owner.symrec = Nobody
  /\ fixupRefSymsForImod(cur[t])
  /\ Queried(cur[t], pc[t] = "fixgive")
  /\ pc' = [pc EXCEPT ![t] = "idle"]
  /\ owner' = [owner EXCEPT !.mods = Nobody]
  /\ UNCHANGED <<fmt, cur, fVC40, answers, lost, closes>>

-----------------------------------------------------------------------------
Init ==
  /\ fmt \in {"sz", "st", "vc40"}
  /\ fRead = FALSE /\ pages = {}
  /\ recs = [r \in Refs |-> OnDisk(r)]
  /\ isetModConverted = {}
  /\ mods = [m \in Mods |-> Closed]
  /\ owner = [symrec |-> Nobody, mods |-> Nobody]
  /\ pc = [t \in Threads |-> "idle"]
  /\ cur = [t \in Threads |-> Nobody]
  /\ fVC40 = [t \in Threads |-> FALSE]
  /\ answers = {} /\ lost = {} /\ closes = 0

Next ==
  \/ OpenGlobals
  \/ \E m \in Mods : OpenMod(m) \/ CloseMod(m)
  \/ \E t \in Threads :
       \/ \E r \in Refs : ReadRec(t, r)
       \/ openModByImod(t) \/ openModFails(t) \/ offSymNewForOffSymOld(t)
       \/ \E m \in Mods, given \in BOOLEAN : QuerySymbols(t, m, given)
       \/ QueryWidened(t)

Spec == Init /\ [][Next]_vars
-----------------------------------------------------------------------------
(* Properties *)

\* In whatever order records and symbols are asked for, modules are closed and
\* opened again, and threads take turns: a reference that was handed out leads to
\* the symbol it named, in the form the symbols have now, and the others are as
\* far as their module is, also those whose module failed to open, which keep their
\* old place for good (fVC40Offset, isetModConverted, cvtstsyms).
RefsLeadRight ==
  /\ \A r \in answers \ lost : recs[r].ib = OffSz[Of[r]][Ith[r]]
  /\ \A r \in Refs : ~recs[r].sz \/ r \in lost =>
       recs[r].ib = IF fmt = "vc40" /\ Of[r] \notin isetModConverted
                    THEN Off40[Of[r]][Ith[r]] ELSE Off60[Of[r]][Ith[r]]

\* What is handed out was read whole, with the name behind it (fReadSymRec).
ReadWhole ==
  \A r \in answers : Span[r] \cup (IF Old THEN Hidden[r] ELSE {}) \subseteq pages

\* Two threads wait for each other: one that reads a record for the modules, and
\* one that asks a module for its symbols for the records.
Stuck ==
  \E t, u \in Threads :
    /\ pc[t] \in {"open", "move"} /\ owner.mods = u
    /\ pc[u] \in {"fixgive", "fixkeep"} /\ owner.symrec = t
\* It can only happen with PDBs whose types are widened.
StuckOnlyOld == Stuck => fmt = "vc40"

SymRecsRight == RefsLeadRight /\ ReadWhole /\ StuckOnlyOld
=============================================================================
