---------------------------- MODULE NameMapPages ----------------------------
(***************************************************************************)
(* A large name map opened to be read (nmt.h:414-436, 793-870): its strings *)
(* stay in the stream, and a lookup reads the pages that the string is on.  *)
(* fSwitchToWriteMode (nmt.h:315-343) reads the strings into the buffer.    *)
(*                                                                         *)
(*  - The text is given by the lengths of the names, NUL included; the byte *)
(*    at offset 0 is the empty string.                                      *)
(*  - Any read of the stream may fail; the bytes it was to fill are then no *)
(*    text.                                                                 *)
(***************************************************************************)
EXTENDS Integers, Sequences, FiniteSets, FiniteSetsExt

CONSTANTS
  Lens,        \* a sequence of the lengths of the names
  PageSize,    \* cbSysPage
  MaxBadReads  \* bound: reads that fail

PagesAssumption ==
  /\ Lens \in Seq(Nat \ {0}) /\ Lens # <<>>
  /\ PageSize \in Nat \ {0} /\ MaxBadReads \in Nat

VARIABLES
  fVirtMode,            \* are the strings still in the stream?
  bvPages,              \* the pages that were read
  fAllVirtPagesLoaded,
  buf,                  \* what the switch put into the buffer, read by read
  last,                 \* the last lookup: is its string the name?
  nbad

pagesVars == <<fVirtMode, bvPages, fAllVirtPagesLoaded, buf, last, nbad>>

\* The places that a name takes, its NUL the last; its index is the first.
Start[n \in DOMAIN Lens] == IF n = 1 THEN 1 ELSE Start[n - 1] + Lens[n - 1]
Nul(n) == Start[n] + Lens[n] - 1
cbStrings == Nul(Len(Lens)) + 1
PageOf(o) == o \div PageSize
iPageLast == ((cbStrings + PageSize - 1) \div PageSize) - 1
Pages == 0 .. iPageLast

-----------------------------------------------------------------------------
\* Mutant: the end of the string is looked for in the first block only.
StopsInBlock(n, bad) ==
  LET page == PageOf(Start[n]) IN
  [ok |-> page \in bvPages \/ page \notin bad, pages |-> bvPages \cup ({page} \ bad)]

\* fLoadString: reads pages from the string's first on until a block of pages
\* that were read has its NUL or reaches the end.  A read of a page of bad
\* fails.
fLoadString(n, bad) ==
  LET load[p \in Pages \X SUBSET Pages] ==
        LET i == p[1]
            read == p[2] \cup {i}
            block == Max({j \in i .. iPageLast : i .. j \subseteq read}) IN
        IF i \notin p[2] /\ i \in bad THEN [ok |-> FALSE, pages |-> p[2]]
        ELSE IF block = iPageLast \/ PageOf(Nul(n)) <= block THEN [ok |-> TRUE, pages |-> read]
        ELSE load[<<block + 1, read>>] IN
  load[<<PageOf(Start[n]), bvPages>>]

\* Mutant: one page short of all counts as all.
AlmostAll(S) == Cardinality(S) >= iPageLast

AllLoaded(S) == Cardinality(S) = iPageLast + 1

TextThere(n, S) == PageOf(Start[n]) .. PageOf(Nul(n)) \subseteq S

\* szForNi, in virtual mode.
LookupPages(n, bad) ==
  /\ fVirtMode /\ ~fAllVirtPagesLoaded
  /\ LET r == fLoadString(n, bad) IN
     /\ bvPages' = r.pages
     /\ fAllVirtPagesLoaded' = IF r.ok THEN AllLoaded(r.pages) ELSE fAllVirtPagesLoaded
     /\ last' = [got |-> r.ok, right |-> r.ok /\ TextThere(n, r.pages)]
     /\ nbad' = IF r.ok THEN nbad ELSE nbad + 1
  /\ UNCHANGED <<fVirtMode, buf>>

\* szForNi, when no page is to be read.
LookupLoaded(n) ==
  /\ ~fVirtMode \/ fAllVirtPagesLoaded
  /\ last' = [got |-> TRUE,
              right |-> IF fVirtMode THEN TextThere(n, bvPages) ELSE buf[1] = "text"]
  /\ UNCHANGED <<fVirtMode, bvPages, fAllVirtPagesLoaded, buf, nbad>>

SwitchToWriteMode ==
  /\ fVirtMode
  /\ fVirtMode' = FALSE /\ fAllVirtPagesLoaded' = FALSE /\ bvPages' = {}
  /\ buf' = Append(buf, "text")
  /\ UNCHANGED <<last, nbad>>

\* The room for the text stays in the buffer.
SwitchFails ==
  /\ fVirtMode /\ nbad < MaxBadReads
  /\ buf' = Append(buf, "junk")
  /\ nbad' = nbad + 1
  /\ UNCHANGED <<fVirtMode, bvPages, fAllVirtPagesLoaded, last>>

PagesInit ==
  /\ fVirtMode = TRUE
  /\ bvPages = {} /\ fAllVirtPagesLoaded = FALSE
  /\ buf = <<>>
  /\ last = [got |-> FALSE, right |-> FALSE]
  /\ nbad = 0

Lookups ==
  \E n \in DOMAIN Lens :
    \/ \E bad \in {{}} \cup (IF nbad < MaxBadReads THEN {{i} : i \in Pages} ELSE {}) :
         LookupPages(n, bad)
    \/ LookupLoaded(n)

\* A program that does not retry a switch that failed.
PagesNext ==
  \/ Lookups
  \/ buf = <<>> /\ (SwitchToWriteMode \/ SwitchFails)

PagesSpec == PagesInit /\ [][PagesNext]_pagesVars

\* A program that does.
RetrySpec == PagesInit /\ [][Lookups \/ SwitchToWriteMode \/ SwitchFails]_pagesVars

-----------------------------------------------------------------------------
\* What szForNi returns is the name, to its NUL, whichever pages earlier
\* lookups read or failed to read: no string runs into a page that was not
\* read (nmt.h:808-850).
LookupRight == last.got => last.right

\* When the pages are no longer looked at, they have all been read
\* (nmt.h:851, 796).
AllMeansAll == fAllVirtPagesLoaded => bvPages = Pages

PagesRight == LookupRight /\ AllMeansAll
=============================================================================
