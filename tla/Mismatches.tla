----------------------------- MODULE Mismatches -----------------------------
(* What a DBI tells a linker of types of one name that are not alike        *)
(* (dbi.cpp:4536-4846).  A type that is new in the pool and defines a name  *)
(* goes into a bucket behind the others of that name, with the module and   *)
(* the source line it came with; when the DBI closes, the linker is told of *)
(* each name that has two.  The buckets start empty in every session, the   *)
(* pool does not.                                                           *)
EXTENDS Integers, Sequences, SequencesExt, FiniteSets

CONSTANTS
  Objects,     \* objects a module may be made of: [types, syms]; a type is [name, def, subs, line]
  NMods,
  Hash,        \* of the names that types define
  Filtered,    \* names that a client's filter says to skip
  Clients,
  MaxSessions,
  MergesEarly, \* the linker calls MergeTypes also when it looks for mismatches
  GivesAtOnce  \* a client does not set a function while those of another are set

VARIABLES
  session,     \* "closed" or "open" for writing
  looks,       \* m_fPdbTypeMismatch: the session looks for mismatches
  pool,        \* the records of TPI1: types whose subs are indices of the pool
  buckets,     \* m_rgpTmdBuckets: of each hash a list of lists of what has one name
  cur,         \* m_tmdImod, m_tmdPtm, m_tmdTiObj
  cbs,         \* m_dbicbc: [context, note, filter], each by the client that it came from
  done,        \* modules closed in this session
  noted,       \* what the linker has been told
  sessions,
  fresh, met   \* ghosts: definitions new in this session and their modules; all of the pool

vars == <<session, looks, pool, buckets, cur, cbs, done, noted, sessions, fresh, met>>

None == "none"
Buckets == {Hash[n] : n \in DOMAIN Hash}
Defines(t) == t.name # None

-----------------------------------------------------------------------------
\* GET_UDT_SRC_LINE: of the type that the symbol at hand refers to, not of the new one.
LineAt(c) == c.obj.types[c.root].line

\* fGlobalDefnUdt's chain: the place of the name in its bucket, 0 if it has none.
PlaceOf(p, chain, name) ==
  LET same == {k \in DOMAIN chain : p[chain[k][1].ti].name = name}
  IN IF same = {} THEN 0 ELSE CHOOSE k \in same : \A j \in same : k <= j

Skips(name) == cbs.filter # None /\ name \in Filtered

\* FTypeMismatchDetection, for the record that has just been added as the last.
Detected(s) ==
  LET ti == Len(s.pool)
      name == s.pool[ti].name
      h == Hash[name]
      chain == s.buckets[h]
      k == PlaceOf(s.pool, chain, name)
      info == [ti |-> ti, imod |-> s.cur.imod, line |-> LineAt(s.cur)]
  IN IF Skips(name) THEN s
     ELSE [s EXCEPT !.buckets[h] =
             IF k = 0 THEN <<<<info>>>> \o chain ELSE [chain EXCEPT ![k] = <<info>> \o @]]

\* TPI1::QueryTiForCVRecord: the record's index, a new one behind the others.
TiFor(s, rec) ==
  LET ti == {k \in DOMAIN s.pool : s.pool[k] = rec}
      r == [s EXCEPT !.pool = Append(@, rec)]
  IN IF ti # {} THEN [s EXCEPT !.res = CHOOSE k \in ti : TRUE]
     ELSE [IF looks /\ Defines(rec) THEN Detected(r) ELSE r EXCEPT !.res = Len(r.pool)]

\* TMR::fMapRti: the types that a type refers to go first.
RECURSIVE Mapped(_, _, _), MappedSubs(_, _, _, _)
Mapped(s, o, i) ==
  IF s.map[i] # 0 THEN [s EXCEPT !.res = s.map[i]]
  ELSE LET subs == MappedSubs([s EXCEPT !.subs = <<>>], o, o.types[i].subs, 1)
           r == TiFor(subs, [name |-> o.types[i].name, def |-> o.types[i].def, subs |-> subs.subs])
       IN [r EXCEPT !.map[i] = r.res]
MappedSubs(s, o, subs, k) ==
  IF k > Len(subs) THEN s
  ELSE LET r == Mapped(s, o, subs[k])
       IN MappedSubs([r EXCEPT !.subs = s.subs \o <<r.res>>], o, subs, k + 1)

\* Mod1::packType: the index of each symbol is noted, and mapped.
PackType(s, o, i) == Mapped([s EXCEPT !.cur.root = i], o, i)
Packed(s, o) == FoldLeft(LAMBDA r, i : PackType(r, o, i), s, o.syms)

Start(c, o) ==
  [pool |-> pool, buckets |-> buckets, cur |-> c, map |-> [i \in DOMAIN o.types |-> 0], res |-> 0,
   subs |-> <<>>]

Current(imod, o) == [imod |-> imod, obj |-> o, root |-> 1]

-----------------------------------------------------------------------------
\* What a type says, whatever its numbers are, and what an object's symbols lead to.
RECURSIVE Content(_, _)
Content(o, i) ==
  [name |-> o.types[i].name, def |-> o.types[i].def,
   subs |-> [k \in DOMAIN o.types[i].subs |-> Content(o, o.types[i].subs[k])]]
RECURSIVE Under(_, _)
Under(o, i) == {i} \cup UNION {Under(o, o.types[i].subs[k]) : k \in DOMAIN o.types[i].subs}
Reached(o) == UNION {Under(o, o.syms[k]) : k \in DOMAIN o.syms}

NoClient == [context |-> None, note |-> None, filter |-> None]
Nobody == [imod |-> 0, obj |-> CHOOSE o \in Objects : TRUE, root |-> 1]

Init ==
  /\ session = "closed" /\ looks = FALSE /\ pool = <<>> /\ buckets = [h \in Buckets |-> <<>>] /\ cur = Nobody
  /\ cbs = NoClient /\ done = {} /\ noted = <<>> /\ sessions = 0 /\ fresh = {} /\ met = {}

\* DBI1::DBI1 and fInit of a writer: no callbacks and empty buckets.
Open(m) ==
  /\ session = "closed" /\ sessions < MaxSessions
  /\ session' = "open" /\ looks' = m /\ sessions' = sessions + 1 /\ buckets' = [h \in Buckets |-> <<>>]
  /\ cbs' = NoClient /\ cur' = Nobody /\ done' = {} /\ noted' = <<>> /\ fresh' = {}
  /\ UNCHANGED <<pool, met>>

\* FSetPfnQueryCallback takes every function of one client, and those of no other.
TakesCallbacks(c) == cbs.context \in {None, c}
QueryCallback(c) ==
  /\ session = "open" /\ TakesCallbacks(c)
  /\ cbs' = [context |-> c, note |-> c, filter |-> c]
  /\ UNCHANGED <<session, looks, pool, buckets, cur, done, noted, sessions, fresh, met>>

\* FSetPfnNoteTypeMismatch takes the context of whoever calls.
SetNote(c) ==
  /\ session = "open" /\ (GivesAtOnce => TakesCallbacks(c))
  /\ cbs' = [cbs EXCEPT !.context = c, !.note = c]
  /\ UNCHANGED <<session, looks, pool, buckets, cur, done, noted, sessions, fresh, met>>

\* Ghosts: the definitions an object brings that the pool has not.
Brought(imod, o) ==
  {[name |-> o.types[i].name, content |-> Content(o, i), imod |-> imod,
    lines |-> {o.types[j].line : j \in {k \in ToSet(o.syms) : i \in Under(o, k)}}] :
     i \in {j \in Reached(o) : Defines(o.types[j]) /\ Content(o, j) \notin met}}
Bring(imod, o) ==
  /\ met' = met \cup {Content(o, i) : i \in Reached(o)}
  /\ fresh' = fresh \cup {d \in Brought(imod, o) : ~Skips(d.name)}

\* Mod1::MergeTypes packs the types of an object's symbols ahead of fProcessSyms, which
\* alone notes the module.
MergeTypes(imod, o) ==
  /\ session = "open" /\ imod \notin done /\ (looks => MergesEarly)
  /\ LET s == Packed(Start(cur, o), o)
     IN pool' = s.pool /\ buckets' = s.buckets /\ cur' = IF looks THEN s.cur ELSE cur
  /\ Bring(imod, o)
  /\ UNCHANGED <<session, looks, cbs, done, noted, sessions>>

\* Mod1::fProcessSyms of a module that closes.
ProcessSyms(imod, o) ==
  /\ session = "open" /\ imod \notin done
  /\ LET s == Packed(Start(IF looks THEN Current(imod, o) ELSE cur, o), o)
     IN pool' = s.pool /\ buckets' = s.buckets /\ cur' = IF looks THEN s.cur ELSE cur
  /\ Bring(imod, o)
  /\ done' = done \cup {imod}
  /\ UNCHANGED <<session, looks, cbs, noted, sessions>>

\* ReportTypeMismatches: what has two, bucket by bucket.
WithTwo(chain) == SelectSeq(chain, LAMBDA infos : Len(infos) > 1)
Note(infos) ==
  [name |-> pool[infos[1].ti].name, to |-> cbs.note, context |-> cbs.context,
   who |-> [k \in DOMAIN infos |-> [imod |-> infos[k].imod, line |-> infos[k].line]]]
Report ==
  IF ~looks \/ cbs.note = None THEN <<>>
  ELSE LET order == SetToSortSeq(Buckets, <)
           of(h) == LET c == WithTwo(buckets[h]) IN [k \in DOMAIN c |-> Note(c[k])]
       IN FoldLeft(LAMBDA all, h : all \o of(h), <<>>, order)

\* DBI1::Close of a writer.
Close ==
  /\ session = "open"
  /\ noted' = Report
  /\ session' = "closed"
  /\ UNCHANGED <<looks, pool, buckets, cur, cbs, done, sessions, fresh, met>>

Next ==
  \/ \E m \in BOOLEAN : Open(m)
  \/ \E c \in Clients : SetNote(c)
  \/ \E c \in Clients : QueryCallback(c)
  \/ \E i \in 1 .. NMods, o \in Objects : MergeTypes(i, o)
  \/ \E i \in 1 .. NMods, o \in Objects : ProcessSyms(i, o)
  \/ Close

Spec == Init /\ [][Next]_vars

-----------------------------------------------------------------------------
New(name) == {d \in fresh : d.name = name}
Entries(n, imod) == {k \in DOMAIN n.who : n.who[k].imod = imod}

\* A linker that looks for mismatches is told of each name that is new in this session
\* with two definitions, once, with one entry for each and the module it was new in, in
\* whatever order and through whatever types they came, and the line of a type of that
\* module that leads to it (ReportTypeMismatches).
NotesRight ==
  session = "closed" =>
    /\ looks /\ cbs.note # None =>
         \A n \in DOMAIN Hash : Cardinality(New(n)) > 1 => \E k \in DOMAIN noted : noted[k].name = n
    /\ \A j, k \in DOMAIN noted : noted[j].name = noted[k].name => j = k
    /\ \A k \in DOMAIN noted :
         /\ Len(noted[k].who) = Cardinality(New(noted[k].name)) /\ Len(noted[k].who) > 1
         /\ \A w \in ToSet(noted[k].who) :
              \E d \in New(noted[k].name) : d.imod = w.imod /\ w.line \in d.lines
         /\ \A i \in 1 .. NMods :
              Cardinality(Entries(noted[k], i)) =
                Cardinality({d \in New(noted[k].name) : d.imod = i})

\* What is chained at any time are the definitions new in this session, each once.
ChainsRight ==
  LET infos == UNION {UNION {ToSet(buckets[h][k]) : k \in DOMAIN buckets[h]} : h \in Buckets}
  IN looks =>
       /\ Cardinality({x.ti : x \in infos}) = Cardinality(fresh)
       /\ \A n \in DOMAIN Hash :
            {x.imod : x \in {y \in infos : pool[y.ti].name = n}} = {d.imod : d \in New(n)}

\* Each function is called with the context of its own client, as long as no client
\* sets one alone while those of another are set (FSetPfnQueryCallback).
ContextRight ==
  /\ cbs.filter # None => cbs.filter = cbs.context
  /\ \A k \in DOMAIN noted : noted[k].to = noted[k].context

MismatchesRight == NotesRight /\ ChainsRight /\ ContextRight
=============================================================================
