------------------------------ MODULE TransTab ------------------------------
(***************************************************************************)
(* The translation table of Valgrind's core (coregrind/m_transtab.c) and   *)
(* the scheduler's handlers that fill it.  Translations live in sectors    *)
(* that are recycled in turn.  Exits of a translation are chained: patched *)
(* to jump straight to the translation of their target, which must be      *)
(* undone before that translation goes.  tt_fast caches recent lookups.    *)
(* Unredirected translations (the originals that function wrappers call)   *)
(* are in a table of their own, without chaining or cache.                 *)
(*                                                                         *)
(* A translation takes one unit of a sector's code area.  in_edges and     *)
(* out_edges name translations where the code names their slots: the two   *)
(* agree as long as no edge outlives its ends, which is EdgesMatch below.  *)
(* The big lock is held throughout, so every action is atomic.  Datagrind   *)
(* is called in the middle of them: DgSuperblocks has its part and Next.   *)
(***************************************************************************)
EXTENDS Integers, FiniteSets

CONSTANTS Keys,        \* guest addresses of superblocks
          Redir,       \* guest address -> where its code is taken from
          Exits,       \* patchable exits of a translation (from_offs)
          n_sectors,
          SectorRoom,  \* translations a sector has room for
          UnredirRoom, \* translations the unredirected table has room for
          MaxSBs       \* bound: superblocks translated

ASSUME TransTabAssumption ==
  /\ Redir \in [Keys -> Keys]
  /\ {n_sectors, SectorRoom, UnredirRoom} \subseteq Nat \ {0}
  /\ MaxSBs \in Nat

VARIABLES
  sectors,         \* sector -> the translations InUse in it
  filled,          \* sector -> the room taken up since it was initialised
  youngest_sector,
  unredir,         \* the unredirected translations in use
  unredir_used,    \* the room taken up in their table
  tt_fast,         \* the fast cache: translations, found by their key
  patched,         \* the jumps in the code of translations in use
  in_edges,        \* what the translations' in_edges say of patched
  out_edges,       \* what their out_edges say of it
  count,           \* superblocks translated; numbers the translations
  vassert_failed   \* LibVEX_Chain has stopped Valgrind

table == <<sectors, filled, youngest_sector>>
unredirs == <<unredir, unredir_used>>
chains == <<patched, in_edges, out_edges>>
ttvars == <<table, unredirs, tt_fast, chains, count, vassert_failed>>

Sectors == 0 .. n_sectors - 1

Main == UNION {sectors[s] : s \in Sectors}

\* key is .entry, base is .vge_base[0], at is where its host code lies; sector
\* n_sectors stands for unredir_tc.
Translation(k, b, s, p) == [key |-> k, base |-> b, at |-> <<s, p>>, id |-> count]

Edge(from, offs, to) == [from |-> from, offs |-> offs, to |-> to]

TTInit ==
  /\ sectors = [s \in Sectors |-> {}]
  /\ filled = [s \in Sectors |-> 0]
  /\ youngest_sector = 0
  /\ unredir = {} /\ unredir_used = 0
  /\ tt_fast = {}
  /\ patched = {} /\ in_edges = {} /\ out_edges = {}
  /\ count = 0
  /\ vassert_failed = FALSE

-----------------------------------------------------------------------------
(* The fast cache.                                                         *)

\* What fast may become: the new entry goes before an older one for its address,
\* and the last one of its set, if there is one, falls out.
setFastCacheEntry(fast, t) ==
  LET others == {u \in fast : u.key # t.key}
  IN {others \cup {t}} \cup {(others \ {u}) \cup {t} : u \in others}

invalidateFastCacheEntry(fast, guest) == {t \in fast : t.key # guest}

-----------------------------------------------------------------------------
(* Chaining.                                                               *)

\* Mutant: the jumps into the translations are left as they are.
JumpsLeft(gone) == {j \in patched : j.from \notin gone}

\* The jumps after unchain_in_preparation_for_deletion of each of gone: those that
\* their in_edges list go back to asking for a translation.  Jumps in code that is
\* gone are of no more interest.
Unchained(gone) == {j \in patched : /\ j.from \notin gone
                                    /\ ~(j.to \in gone /\ j \in in_edges)}

\* Mutant: only the in_edges are visited.
InEdgesKept(gone) == {e \in in_edges : e.to \notin gone}

\* ... and their out_edges are visited to take them off the in_edges of others, ...
InEdges(gone) == {e \in in_edges : /\ e.to \notin gone
                                   /\ ~(e.from \in gone /\ e \in out_edges)}

\* ... as the in_edges are to take them off the out_edges of others.
OutEdges(gone) == {e \in out_edges : /\ e.from \notin gone
                                     /\ ~(e.to \in gone /\ e \in in_edges)}

\* The translations gone are deleted and then the edges new added.
Rechain(gone, new) == /\ patched' = Unchained(gone) \cup new
                      /\ in_edges' = InEdges(gone) \cup new
                      /\ out_edges' = OutEdges(gone) \cup new

-----------------------------------------------------------------------------
(* Adding translations.                                                    *)

Full == filled[youngest_sector] >= SectorRoom

\* The sector the next translation goes into, ...
Target == IF Full THEN (youngest_sector + 1) % n_sectors ELSE youngest_sector

\* ... which is initialised first if the youngest one is full; if it was in use
\* before, all of its translations are thrown out.
Recycled == IF Full THEN sectors[Target] ELSE {}

\* Mutant: a recycled sector does not start from the beginning.
RoomTakenNoReset == filled[Target] + 1

\* The room then taken up in it.
RoomTaken == IF Full THEN 1 ELSE filled[Target] + 1

NewTranslation(k) == Translation(k, Redir[k], Target, RoomTaken)

\* VG_(translate), for an address that is in no sector.
add_to_transtab(k) ==
  /\ \A t \in Main : t.key # k
  /\ count < MaxSBs /\ count' = count + 1
  /\ youngest_sector' = Target
  /\ sectors' = [sectors EXCEPT ![Target] = (@ \ Recycled) \cup {NewTranslation(k)}]
  /\ filled' = [filled EXCEPT ![Target] = RoomTaken]

\* What tt_fast may be after that: initialiseSector flushes it.
AddedToFast(k) == setFastCacheEntry(IF Full THEN {} ELSE tt_fast, NewTranslation(k))

\* The thread is at k, which the fast cache does not have.  A full search, or a
\* translation and another search, put it there.
handle_tt_miss(k) ==
  /\ ~vassert_failed
  /\ \A t \in tt_fast : t.key # k
  /\ \/ /\ \E t \in Main : t.key = k /\ tt_fast' \in setFastCacheEntry(tt_fast, t)
        /\ UNCHANGED <<table, chains, count>>
     \/ /\ add_to_transtab(k)
        /\ Rechain(Recycled, {})
        /\ tt_fast' \in UNION {setFastCacheEntry(fast, NewTranslation(k)) :
                                 fast \in AddedToFast(k)}
  /\ UNCHANGED <<unredirs, vassert_failed>>

\* tt_tc_do_chaining for exit offs of from, to be patched to jump to to, when the
\* translations gone have just been recycled and inUse are there.  Nothing is done if
\* from is not.  But find_TTEntry_from_hcode goes by host addresses, and the place of
\* from may have been taken already: then, if the patch address is inside the new
\* code, LibVEX_Chain either finds an exit there, or stops Valgrind.
tt_tc_do_chaining(from, offs, to, gone, inUse) ==
  LET takers == {t \in inUse \ {from} : t.at = from.at}
  IN \/ /\ from \in inUse
        /\ Rechain(gone, {Edge(from, offs, to)})
        /\ UNCHANGED vassert_failed
     \/ /\ from \notin inUse
        /\ Rechain(gone, {})
        /\ UNCHANGED vassert_failed
     \/ /\ from \notin inUse
        /\ \E t \in takers : Rechain(gone, {Edge(t, offs, to)})
        /\ UNCHANGED vassert_failed
     \/ /\ from \notin inUse
        /\ takers # {}
        /\ Rechain(gone, {})
        /\ vassert_failed' = TRUE

\* Translation from, reached through the tables or the cache, leaves by an exit for
\* k that has not been patched.
handle_chain_me(from, offs, k) ==
  /\ ~vassert_failed
  /\ \A j \in patched : j.from # from \/ j.offs # offs
  /\ \/ /\ \E to \in Main : to.key = k /\ tt_tc_do_chaining(from, offs, to, {}, Main)
        /\ UNCHANGED <<table, tt_fast, count>>
     \/ /\ add_to_transtab(k)
        /\ tt_fast' \in AddedToFast(k)
        /\ tt_tc_do_chaining(from, offs, NewTranslation(k), Recycled, Main')
  /\ UNCHANGED unredirs

\* The unredirected table is dumped when the next translation does not fit in.
Dumped == IF unredir_used >= UnredirRoom THEN unredir ELSE {}

UnredirTaken == IF unredir_used >= UnredirRoom THEN 1 ELSE unredir_used + 1

NewUnredir(k) == Translation(k, k, n_sectors, UnredirTaken)

\* A wrapper calls the function it wraps, by the address that its own translation
\* was entered by, and the unredirected table does not have it: translated by
\* add_to_unredir_transtab.
handle_noredir_jump(k) ==
  /\ ~vassert_failed
  /\ Redir[k] # k
  /\ \A t \in unredir : t.key # k
  /\ count < MaxSBs /\ count' = count + 1
  /\ unredir' = (unredir \ Dumped) \cup {NewUnredir(k)}
  /\ unredir_used' = UnredirTaken
  /\ UNCHANGED <<table, tt_fast, chains, vassert_failed>>

-----------------------------------------------------------------------------
(* Discarding translations.                                                *)

\* Mutant: a single translation is left in the cache.
FastAfterDiscardNone(gone) == IF Cardinality(gone) <= 1 THEN tt_fast ELSE {}

\* What is left of tt_fast when the translations gone have been discarded: all but
\* the entry of the only one, by its vge_base[0], or nothing.
FastAfterDiscard(gone) ==
  IF Cardinality(gone) <= 1
  THEN {t \in tt_fast : \A u \in gone : t \in invalidateFastCacheEntry(tt_fast, u.base)}
  ELSE {}

\* The translations of the code at the addresses ranges: those delete_tte deletes.
Overlapping(ranges) == {t \in Main : t.base \in ranges}

\* Code is unmapped or overwritten: the code at the addresses ranges.
discard_translations(ranges) ==
  LET gone == Overlapping(ranges)
  IN /\ ~vassert_failed
     /\ sectors' = [s \in Sectors |-> sectors[s] \ gone]
     /\ Rechain(gone, {})
     /\ tt_fast' = FastAfterDiscard(gone)
     /\ unredir' = {t \in unredir : t.base \notin ranges}
     /\ UNCHANGED <<filled, youngest_sector, unredir_used, count, vassert_failed>>

-----------------------------------------------------------------------------
(* Properties.                                                             *)

TranslationType == [key : Keys, base : Keys, at : (0..n_sectors) \X Nat, id : Nat]
EdgeType == [from : TranslationType, offs : Exits, to : TranslationType]

\* A chained jump never leads to a translation that is gone, although the blocks at
\* its ends are recycled and discarded in any order, the one while the other is
\* being chained to it included.
NoDanglingJump == \A j \in patched : j.from \in Main /\ j.to \in Main

\* The two lists of edges and the code agree, which is what the next deletion at
\* either end relies on ("oe must be findable", "ie must be findable").
EdgesMatch == in_edges = patched /\ out_edges = patched

\* The fast cache leads only to translations that are there.  Those whose code was
\* taken from another address are excepted: their entry is kept under .entry, and
\* discard_translations looks for it under .vge_base[0].
FastCacheFresh == \A t \in tt_fast : t.key = t.base => t \in Main

\* m_transtab.c:245: "Is it safe to erase or discard the current translation E being
\* executed ? Amazing, but yes, it is safe."  Chaining never fails for want of E.
SafeToErase == ~vassert_failed
=============================================================================
