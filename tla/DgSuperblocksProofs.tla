------------------------ MODULE DgSuperblocksProofs ------------------------
(***************************************************************************)
(* The translation table and Datagrind's data for it, for any number of    *)
(* sectors of any size, any guest addresses and any redirections.          *)
(*                                                                         *)
(* No DgSB is freed under a translation in a sector.  The argument: at     *)
(* most one of them has a given address, so a discard by address, which    *)
(* takes one DgSB of that address, can only hurt a translation that is     *)
(* itself going.  Of functions that are neither redirected nor wrapped     *)
(* dgsbs has exactly the translations that can be reached: such an address *)
(* never has a second DgSB, so the discard takes the right one, and the    *)
(* fast cache is invalidated under the address it was filled under.        *)
(*                                                                         *)
(* No chained jump and no cached lookup leads to a translation that is     *)
(* gone.  The argument: the two lists of edges and the code agree, so the  *)
(* edges listed at the ends of a translation are all the jumps there are.  *)
(***************************************************************************)
EXTENDS DgSuperblocks, TLAPS

\* Every translation of the sectors is in one of them, has its address to itself, and
\* its code is from where the redirections say.
OneEach ==
  /\ \A t, u \in Main : t.key = u.key => t = u
  /\ \A r, s \in Sectors : sectors[r] \cap sectors[s] # {} => r = s
  /\ \A t \in Main : t.base = Redir[t.key]

\* A DgSB for an address that is not redirected is of a translation in a sector.
NoneLeft == \A b \in dgsbs : Redir[b.key] = b.key => b \in Main

\* Numbers in use are below count.
Numbered == \A t \in Main \cup unredir \cup dgsbs : t.id < count

\* Nothing is chained or cached that is gone.
Cached == FastCacheFresh /\ \A t \in tt_fast : t.base = Redir[t.key]
Linked == NoDanglingJump /\ EdgesMatch /\ Cached

SuperblockInv == TypeOK /\ OneEach /\ Numbered /\ MainSafe /\ NoneLeft /\ Linked

\* One call of dg_discard_superblock_info for every translation in gone: addresses
\* that none of them has keep all of their DgSBs, and an address with a single one
\* loses it.
LEMMA DiscardedByKey ==
  ASSUME NEW from, NEW gone, NEW to \in Discarded(from, gone)
  PROVE  /\ to \subseteq from
         /\ \A b \in from : (\A t \in gone : t.key # b.key) => b \in to
         /\ \A b \in from : (b \in gone /\ \A c \in from : c.key = b.key => c = b)
                               => b \notin to
<1> DEFINE found == {b \in from : \E t \in gone : t.key = b.key}
<1>1. PICK freed \in SUBSET found :
        /\ to = from \ freed
        /\ \A b \in found : \E c \in freed : c.key = b.key
  BY DEF Discarded
<1> QED BY <1>1

\* Translations of the tables are well typed, and sectors are in Main.
LEMMA MainType ==
  ASSUME SuperblockInv
  PROVE  /\ Main \subseteq TranslationType /\ count \in Nat
         /\ \A s \in Sectors : sectors[s] \subseteq Main
  BY DEF SuperblockInv, TypeOK, Main

\* A new translation has a number that no other has had.
LEMMA NewNumber ==
  ASSUME SuperblockInv, NEW k \in Keys, NEW b \in Keys, NEW s \in 0..n_sectors, NEW p \in Nat
  PROVE  /\ Translation(k, b, s, p) \in TranslationType
         /\ Translation(k, b, s, p).key = k /\ Translation(k, b, s, p).base = b
         /\ Translation(k, b, s, p).id = count
         /\ Translation(k, b, s, p) \notin Main \cup unredir \cup dgsbs
<1>1. /\ Translation(k, b, s, p) \in TranslationType
      /\ Translation(k, b, s, p).key = k /\ Translation(k, b, s, p).base = b
      /\ Translation(k, b, s, p).id = count
  BY MainType DEF Translation, TranslationType
<1>2. \A t \in Main \cup unredir \cup dgsbs : t.id # count
  BY MainType DEF SuperblockInv, Numbered, TypeOK, TranslationType
<1> QED BY <1>1, <1>2

\* The tool is called for the translations new and told of those that are gone: it
\* keeps the DgSBs of what is in the sectors, and no others of ordinary functions.
LEMMA StepTool ==
  ASSUME SuperblockInv, NEW new, NEW gone \in SUBSET Main,
         dgsbs' \in Discarded(dgsbs \cup new, gone),
         Main' \subseteq (Main \ gone) \cup new, Main \ gone \subseteq Main',
         \A t \in new, u \in gone : t.key # u.key,
         \A t \in new : Redir[t.key] = t.key => t \in Main'
  PROVE  dgsbs' \subseteq dgsbs \cup new /\ MainSafe' /\ NoneLeft'
<1> DEFINE from == dgsbs \cup new
<1>1. /\ dgsbs' \subseteq from
      /\ \A b \in from : (\A t \in gone : t.key # b.key) => b \in dgsbs'
      /\ \A b \in from : (b \in gone /\ \A c \in from : c.key = b.key => c = b)
                            => b \notin dgsbs'
  <2> HIDE DEF from
  <2> QED BY DiscardedByKey DEF from
<1>2. \A t, u \in Main : t.key = u.key => t = u
  BY DEF SuperblockInv, OneEach
<1>3. MainSafe'
  <2> SUFFICES ASSUME NEW t \in Main' PROVE t \in dgsbs'
    BY DEF MainSafe
  <2>1. t \in from
    BY DEF SuperblockInv, MainSafe
  <2>2. \A u \in gone : u.key # t.key
    BY <1>2
  <2> QED BY <1>1, <2>1, <2>2
<1>4. NoneLeft'
  <2> SUFFICES ASSUME NEW b \in dgsbs', Redir[b.key] = b.key PROVE b \in Main'
    BY DEF NoneLeft
  <2>1. CASE b \in new
    BY <2>1
  <2>2. CASE b \in dgsbs /\ b \notin new
    <3>1. b \in Main
      BY <2>2 DEF SuperblockInv, NoneLeft
    <3>2. CASE b \in gone
      <4>1. \A c \in from : c.key = b.key => c = b
        <5> SUFFICES ASSUME NEW c \in from, c.key = b.key PROVE c = b
          OBVIOUS
        <5>1. c \notin new
          BY <3>2
        <5>2. c \in Main
          BY <5>1 DEF SuperblockInv, NoneLeft
        <5> QED BY <1>2, <3>1, <5>2
      <4> QED BY <1>1, <2>2, <3>2, <4>1
    <3>3. CASE b \notin gone
      BY <3>1, <3>3
    <3> QED BY <3>2, <3>3
  <2> QED BY <1>1, <2>1, <2>2
<1> QED BY <1>1, <1>3, <1>4

\* Edges are taken off at both ends of what goes, and new ones are between
\* translations that are there.
LEMMA StepRechain ==
  ASSUME SuperblockInv, NEW gone, NEW new \in SUBSET EdgeType, Rechain(gone, new),
         Main \ gone \subseteq Main', \A j \in new : j.from \in Main' /\ j.to \in Main'
  PROVE  /\ NoDanglingJump' /\ EdgesMatch'
         /\ patched' \subseteq EdgeType /\ in_edges' \subseteq EdgeType
         /\ out_edges' \subseteq EdgeType
<1>1. /\ in_edges = patched /\ out_edges = patched /\ patched \subseteq EdgeType
      /\ \A j \in patched : j.from \in Main /\ j.to \in Main
  BY DEF SuperblockInv, TypeOK, Linked, EdgesMatch, NoDanglingJump
<1> DEFINE kept == {j \in patched : j.from \notin gone /\ j.to \notin gone}
<1>2. Unchained(gone) = kept /\ InEdges(gone) = kept /\ OutEdges(gone) = kept
  BY <1>1 DEF Unchained, InEdges, OutEdges
<1>3. patched' = kept \cup new /\ in_edges' = kept \cup new /\ out_edges' = kept \cup new
  BY <1>2 DEF Rechain
<1> QED BY <1>1, <1>3 DEF NoDanglingJump, EdgesMatch

\* An entry is put in the cache.
LEMMA FastEntry ==
  ASSUME NEW fast, NEW t, NEW to \in setFastCacheEntry(fast, t)
  PROVE  to \subseteq fast \cup {t}
  BY DEF setFastCacheEntry

\* A superblock is translated into a sector.
LEMMA StepAdd ==
  ASSUME SuperblockInv, NEW k \in Keys, add_to_transtab(k)
  PROVE  /\ NewTranslation(k) \in TranslationType /\ NewTranslation(k).key = k
         /\ NewTranslation(k).id = count /\ NewTranslation(k).base = Redir[k]
         /\ NewTranslation(k) \notin Main \cup unredir \cup dgsbs
         /\ Recycled \subseteq Main
         /\ Main' = (Main \ Recycled) \cup {NewTranslation(k)}
         /\ sectors' \in [Sectors -> SUBSET TranslationType]
         /\ filled' \in [Sectors -> 0..SectorRoom]
         /\ youngest_sector' \in Sectors
         /\ count' = count + 1
         /\ OneEach'
         /\ \A t \in Main', u \in Main : t.key = u.key => t = u
<1> DEFINE new == NewTranslation(k)
<1>1. /\ \A t \in Main : t.key # k
      /\ count' = count + 1
      /\ youngest_sector' = Target
      /\ sectors' = [sectors EXCEPT ![Target] = (@ \ Recycled) \cup {new}]
      /\ filled' = [filled EXCEPT ![Target] = RoomTaken]
  BY DEF add_to_transtab
<1>2. Target \in Sectors
  BY TransTabAssumption DEF SuperblockInv, TypeOK, Sectors, Target
<1>3. RoomTaken \in 0..SectorRoom
  <2>1. /\ youngest_sector \in Sectors /\ SectorRoom \in Nat \ {0}
        /\ filled[youngest_sector] \in 0..SectorRoom
    BY TransTabAssumption DEF SuperblockInv, TypeOK
  <2> QED BY <2>1 DEF RoomTaken, Full, Target
<1>4. /\ new \in TranslationType /\ new.key = k /\ new.id = count /\ new.base = Redir[k]
      /\ new \notin Main \cup unredir \cup dgsbs
  <2>1. Redir[k] \in Keys /\ Target \in 0..n_sectors /\ RoomTaken \in Nat
    BY <1>2, <1>3, TransTabAssumption DEF Sectors
  <2> HIDE DEF new
  <2> QED BY <2>1, NewNumber DEF NewTranslation, new
<1> HIDE DEF new
<1>5. Recycled \subseteq sectors[Target] /\ Recycled \subseteq Main
  BY <1>2, MainType DEF Recycled
<1>6. \A s \in Sectors : sectors'[s] = IF s = Target THEN (sectors[s] \ Recycled) \cup {new}
                                      ELSE sectors[s]
  BY <1>1, <1>2 DEF SuperblockInv, TypeOK
<1>7. Main' = (Main \ Recycled) \cup {new}
  <2>1. \A s \in Sectors : s # Target => sectors[s] \cap Recycled = {}
    BY <1>2, <1>5 DEF SuperblockInv, OneEach
  <2>2. Main' = UNION {sectors'[s] : s \in Sectors}
    BY DEF Main, Sectors
  <2> QED BY <1>2, <1>6, <2>1, <2>2 DEF Main
<1>8. sectors' \in [Sectors -> SUBSET TranslationType]
  BY <1>1, <1>2, <1>4, <1>6, MainType DEF SuperblockInv, TypeOK
<1>9. filled' \in [Sectors -> 0..SectorRoom]
  BY <1>1, <1>2, <1>3 DEF SuperblockInv, TypeOK
<1>10. \A t \in Main', u \in Main : t.key = u.key => t = u
  BY <1>1, <1>4, <1>7 DEF SuperblockInv, OneEach
<1>11. OneEach'
  <2>1. \A t, u \in Main' : t.key = u.key => t = u
    BY <1>4, <1>7, <1>10
  <2>2. \A r, s \in Sectors : sectors'[r] \cap sectors'[s] # {} => r = s
    <3>1. \A s \in Sectors : new \notin sectors[s]
      BY <1>4, MainType
    <3> QED BY <1>6, <3>1 DEF SuperblockInv, OneEach
  <2>3. \A t \in Main' : t.base = Redir[t.key]
    BY <1>4, <1>7 DEF SuperblockInv, OneEach
  <2> QED BY <2>1, <2>2, <2>3 DEF OneEach, Sectors
<1> QED BY <1>1, <1>2, <1>4, <1>5, <1>7, <1>8, <1>9, <1>10, <1>11 DEF new

\* The cache after a translation is added: the new one, and others only if no
\* sector was recycled.
LEMMA StepAddedToFast ==
  ASSUME SuperblockInv, NEW k \in Keys, add_to_transtab(k), NEW fast \in AddedToFast(k)
  PROVE  /\ fast \subseteq TranslationType
         /\ \A t \in fast : t.key = t.base => t \in Main'
         /\ \A t \in fast : t.base = Redir[t.key]
<1>1. fast \subseteq (IF Full THEN {} ELSE tt_fast) \cup {NewTranslation(k)}
  BY FastEntry DEF AddedToFast
<1>2. ~Full => Recycled = {}
  BY DEF Recycled
<1> QED BY <1>1, <1>2, StepAdd DEF SuperblockInv, TypeOK, Linked, Cached, FastCacheFresh

\* Numbers stay below count when a translation gets the next one.
LEMMA StepNumbered ==
  ASSUME SuperblockInv, count' \in {count, count + 1},
         \A t \in (Main' \cup unredir' \cup dgsbs') \ (Main \cup unredir \cup dgsbs) :
            t \in TranslationType /\ t.id = count /\ count' = count + 1
  PROVE  Numbered'
<1>1. \A t \in Main \cup unredir \cup dgsbs : t.id \in Nat /\ t.id < count
  BY MainType DEF SuperblockInv, Numbered, TypeOK, TranslationType
<1>2. count \in Nat
  BY MainType
<1>3. \A t \in Main' \cup unredir' \cup dgsbs' : t.id < count'
  <2> SUFFICES ASSUME NEW t \in Main' \cup unredir' \cup dgsbs' PROVE t.id < count'
    OBVIOUS
  <2>1. CASE t \in Main \cup unredir \cup dgsbs
    BY <1>1, <1>2, <2>1
  <2>2. CASE t \notin Main \cup unredir \cup dgsbs
    BY <1>2, <2>2
  <2> QED BY <2>1, <2>2
<1> QED BY <1>3 DEF Numbered

\* What is left to show of a step that adds a translation to a sector.
LEMMA AddInvariant ==
  ASSUME SuperblockInv, NEW k \in Keys, add_to_transtab(k), Translated(k),
         UNCHANGED <<unredir, unredir_used>>,
         tt_fast' \subseteq TranslationType, Cached',
         NoDanglingJump', EdgesMatch', patched' \subseteq EdgeType,
         in_edges' \subseteq EdgeType, out_edges' \subseteq EdgeType,
         vassert_failed' \in BOOLEAN
  PROVE  SuperblockInv'
<1> DEFINE new == NewTranslation(k)
<1>1. /\ new \in TranslationType /\ new.key = k /\ new.id = count
      /\ Recycled \subseteq Main /\ Main' = (Main \ Recycled) \cup {new}
      /\ count' = count + 1
  BY StepAdd
<1>2. \A t \in Main : t.key # k
  BY DEF add_to_transtab
<1>3. dgsbs' \in Discarded(dgsbs \cup {new}, Recycled)
  BY <1>2 DEF Translated, Instrumented
<1> HIDE DEF new
<1>4. dgsbs' \subseteq dgsbs \cup {new} /\ MainSafe' /\ NoneLeft'
  <2>1. /\ Main' \subseteq (Main \ Recycled) \cup {new} /\ Main \ Recycled \subseteq Main'
        /\ \A t \in {new}, u \in Recycled : t.key # u.key
        /\ \A t \in {new} : Redir[t.key] = t.key => t \in Main'
    BY <1>1, <1>2
  <2> QED BY <1>1, <1>3, <2>1, StepTool
<1>5. Numbered'
  BY <1>1, <1>4, StepNumbered
<1>6. TypeOK'
  <2>1. count' \in Nat /\ dgsbs' \subseteq TranslationType
    BY <1>1, <1>4, MainType DEF SuperblockInv, TypeOK
  <2>2. unredir' \subseteq TranslationType /\ unredir_used' \in 0..UnredirRoom
    BY DEF SuperblockInv, TypeOK
  <2>3. /\ sectors' \in [Sectors -> SUBSET TranslationType]
        /\ filled' \in [Sectors -> 0..SectorRoom]
        /\ youngest_sector' \in Sectors
    BY StepAdd
  <2> QED BY <2>1, <2>2, <2>3 DEF TypeOK, Sectors, TranslationType, EdgeType
<1> QED BY <1>4, <1>5, <1>6, StepAdd DEF SuperblockInv, Linked

\* What is left to show of a step that leaves the tables as they are.
LEMMA SameTables ==
  ASSUME SuperblockInv, UNCHANGED <<sectors, filled, youngest_sector>>,
         UNCHANGED <<unredir, unredir_used, count, dgsbs>>,
         tt_fast' \subseteq TranslationType, Cached',
         NoDanglingJump', EdgesMatch', patched' \subseteq EdgeType,
         in_edges' \subseteq EdgeType, out_edges' \subseteq EdgeType,
         vassert_failed' \in BOOLEAN
  PROVE  SuperblockInv'
<1>1. Main' = Main
  BY DEF Main, Sectors
<1>2. OneEach' /\ Numbered' /\ MainSafe' /\ NoneLeft'
  BY <1>1 DEF SuperblockInv, OneEach, Numbered, MainSafe, NoneLeft, Sectors
<1>3. TypeOK'
  BY DEF SuperblockInv, TypeOK, Sectors, TranslationType, EdgeType
<1> QED BY <1>2, <1>3 DEF SuperblockInv, Linked

\* Chaining keeps the edges right, whether the asking translation is there, gone, or
\* another one has its place.
LEMMA StepChain ==
  ASSUME SuperblockInv, NEW from \in TranslationType, NEW offs \in Exits,
         NEW to \in TranslationType, NEW gone, to \in Main', Main' \subseteq TranslationType,
         Main \ gone \subseteq Main', tt_tc_do_chaining(from, offs, to, gone, Main')
  PROVE  /\ NoDanglingJump' /\ EdgesMatch'
         /\ patched' \subseteq EdgeType /\ in_edges' \subseteq EdgeType
         /\ out_edges' \subseteq EdgeType
         /\ vassert_failed' \in BOOLEAN
<1>1. \E new \in SUBSET EdgeType :
        Rechain(gone, new) /\ \A j \in new : j.from \in Main' /\ j.to \in Main'
  <2>1. \A t \in Main' : /\ Edge(t, offs, to) \in EdgeType
                         /\ Edge(t, offs, to).from = t /\ Edge(t, offs, to).to = to
    BY DEF Edge, EdgeType
  <2>2. CASE from \in Main' /\ Rechain(gone, {Edge(from, offs, to)})
    <3>1. {Edge(from, offs, to)} \in SUBSET EdgeType
      BY <2>1, <2>2
    <3> QED BY <2>1, <2>2, <3>1
  <2>3. CASE Rechain(gone, {})
    <3> WITNESS {} \in SUBSET EdgeType
    <3> QED BY <2>3
  <2>4. CASE \E t \in Main' : Rechain(gone, {Edge(t, offs, to)})
    <3>1. PICK t \in Main' : Rechain(gone, {Edge(t, offs, to)})
      BY <2>4
    <3>2. {Edge(t, offs, to)} \in SUBSET EdgeType
      BY <2>1
    <3> QED BY <2>1, <3>1, <3>2
  <2> QED BY <2>2, <2>3, <2>4 DEF tt_tc_do_chaining
<1>2. vassert_failed' \in BOOLEAN
  BY DEF tt_tc_do_chaining, SuperblockInv, TypeOK
<1> QED BY <1>1, <1>2, StepRechain

\* A superblock that the fast cache does not have.
LEMMA StepMiss ==
  ASSUME SuperblockInv, NEW k \in Keys, handle_tt_miss(k), Translated(k)
  PROVE  SuperblockInv'
<1>1. UNCHANGED <<unredir, unredir_used>> /\ vassert_failed' \in BOOLEAN
  BY DEF handle_tt_miss, unredirs, SuperblockInv, TypeOK
<1>2. CASE /\ \E t \in Main : t.key = k /\ tt_fast' \in setFastCacheEntry(tt_fast, t)
           /\ UNCHANGED <<table, chains, count>>
  <2>1. PICK t \in Main : tt_fast' \in setFastCacheEntry(tt_fast, t)
    BY <1>2
  <2>2. tt_fast' \subseteq tt_fast \cup {t}
    BY <2>1, FastEntry
  <2>3. UNCHANGED <<sectors, filled, youngest_sector>> /\ UNCHANGED <<patched, in_edges, out_edges, count>>
    BY <1>2 DEF table, chains
  <2>4. Main' = Main
    BY <2>3 DEF Main, Sectors
  <2>5. tt_fast' \subseteq TranslationType /\ Cached'
    BY <2>2, <2>4, MainType DEF SuperblockInv, TypeOK, Linked, OneEach, Cached, FastCacheFresh
  <2>6. /\ NoDanglingJump' /\ EdgesMatch'
        /\ patched' \subseteq EdgeType /\ in_edges' \subseteq EdgeType
        /\ out_edges' \subseteq EdgeType
    BY <2>3, <2>4 DEF SuperblockInv, TypeOK, Linked, NoDanglingJump, EdgesMatch
  <2>7. UNCHANGED dgsbs
    BY <1>2 DEF Translated
  <2> QED BY <1>1, <2>3, <2>5, <2>6, <2>7, SameTables
<1>3. CASE /\ add_to_transtab(k)
           /\ Rechain(Recycled, {})
           /\ tt_fast' \in UNION {setFastCacheEntry(fast, NewTranslation(k)) :
                                    fast \in AddedToFast(k)}
  <2>1. PICK fast \in AddedToFast(k) : tt_fast' \in setFastCacheEntry(fast, NewTranslation(k))
    BY <1>3
  <2>2. tt_fast' \subseteq fast \cup {NewTranslation(k)}
    BY <2>1, FastEntry
  <2>3. tt_fast' \subseteq TranslationType /\ Cached'
    BY <1>3, <2>2, StepAdd, StepAddedToFast DEF Cached, FastCacheFresh
  <2>4. Main \ Recycled \subseteq Main'
    BY <1>3, StepAdd
  <2>5. /\ NoDanglingJump' /\ EdgesMatch'
        /\ patched' \subseteq EdgeType /\ in_edges' \subseteq EdgeType
        /\ out_edges' \subseteq EdgeType
    BY <1>3, <2>4, StepRechain
  <2> QED BY <1>1, <1>3, <2>3, <2>5, AddInvariant
<1> QED BY <1>2, <1>3 DEF handle_tt_miss

\* A translation asks to be chained.
LEMMA StepChainMe ==
  ASSUME SuperblockInv, NEW from \in Main \cup tt_fast, NEW offs \in Exits, NEW k \in Keys,
         handle_chain_me(from, offs, k), Translated(k)
  PROVE  SuperblockInv'
<1>1. UNCHANGED <<unredir, unredir_used>>
  BY DEF handle_chain_me, unredirs
<1>2. from \in TranslationType
  BY MainType DEF SuperblockInv, TypeOK
<1>3. CASE /\ \E to \in Main : to.key = k /\ tt_tc_do_chaining(from, offs, to, {}, Main)
           /\ UNCHANGED <<table, tt_fast, count>>
  <2>1. PICK to \in Main : to.key = k /\ tt_tc_do_chaining(from, offs, to, {}, Main)
    BY <1>3
  <2>2. UNCHANGED <<sectors, filled, youngest_sector>> /\ UNCHANGED <<tt_fast, count>>
    BY <1>3 DEF table
  <2>3. Main' = Main
    BY <2>2 DEF Main, Sectors
  <2>4. tt_fast' \subseteq TranslationType /\ Cached'
    BY <2>2, <2>3 DEF SuperblockInv, TypeOK, Linked, Cached, FastCacheFresh
  <2>5. to \in TranslationType /\ Main' \subseteq TranslationType /\ Main \ {} \subseteq Main'
    BY <2>3, MainType
  <2>6. tt_tc_do_chaining(from, offs, to, {}, Main')
    BY <2>1, <2>3
  <2>7. /\ NoDanglingJump' /\ EdgesMatch'
        /\ patched' \subseteq EdgeType /\ in_edges' \subseteq EdgeType
        /\ out_edges' \subseteq EdgeType
        /\ vassert_failed' \in BOOLEAN
    BY <1>2, <2>3, <2>5, <2>6, StepChain
  <2>8. UNCHANGED dgsbs
    BY <2>1 DEF Translated
  <2> QED BY <1>1, <2>2, <2>4, <2>7, <2>8, SameTables
<1>4. CASE /\ add_to_transtab(k)
           /\ tt_fast' \in AddedToFast(k)
           /\ tt_tc_do_chaining(from, offs, NewTranslation(k), Recycled, Main')
  <2>1. tt_fast' \subseteq TranslationType /\ Cached'
    BY <1>4, StepAddedToFast DEF Cached, FastCacheFresh
  <2>2. /\ NewTranslation(k) \in TranslationType /\ NewTranslation(k) \in Main'
        /\ Main' \subseteq TranslationType /\ Main \ Recycled \subseteq Main'
    BY <1>4, StepAdd, MainType
  <2>3. /\ NoDanglingJump' /\ EdgesMatch'
        /\ patched' \subseteq EdgeType /\ in_edges' \subseteq EdgeType
        /\ out_edges' \subseteq EdgeType
        /\ vassert_failed' \in BOOLEAN
    BY <1>2, <1>4, <2>2, StepChain
  <2> QED BY <1>1, <1>4, <2>1, <2>3, AddInvariant
<1> QED BY <1>3, <1>4 DEF handle_chain_me

\* A function is translated without redirection.
LEMMA StepNoRedir ==
  ASSUME SuperblockInv, NEW k \in Keys, handle_noredir_jump(k), TranslatedUnredir(k)
  PROVE  SuperblockInv'
<1> DEFINE new == NewUnredir(k)
<1>1. /\ count' = count + 1 /\ Redir[k] # k
      /\ unredir' \subseteq unredir \cup {new} /\ dgsbs' = dgsbs \cup {new}
      /\ unredir_used' = UnredirTaken
      /\ UNCHANGED <<sectors, filled, youngest_sector>>
      /\ UNCHANGED <<tt_fast, patched, in_edges, out_edges, vassert_failed>>
  BY DEF handle_noredir_jump, table, chains, TranslatedUnredir, Instrumented
<1>2. UnredirTaken \in 1..UnredirRoom
  BY TransTabAssumption DEF SuperblockInv, TypeOK, UnredirTaken
<1>3. new \in TranslationType /\ new.id = count /\ new.key = k
  <2>1. n_sectors \in 0..n_sectors /\ UnredirTaken \in Nat
    BY <1>2, TransTabAssumption
  <2> QED BY <2>1, NewNumber DEF NewUnredir
<1> HIDE DEF new
<1>4. Main' = Main
  BY <1>1 DEF Main, Sectors
<1>5. MainSafe' /\ NoneLeft'
  BY <1>1, <1>3, <1>4 DEF SuperblockInv, MainSafe, NoneLeft
<1>6. Numbered'
  BY <1>1, <1>3, <1>4, StepNumbered
<1>7. OneEach'
  BY <1>1, <1>4 DEF SuperblockInv, OneEach, Sectors
<1>8. Linked'
  BY <1>1, <1>4 DEF SuperblockInv, Linked, NoDanglingJump, EdgesMatch, Cached, FastCacheFresh
<1>9. TypeOK'
  <2>1. unredir' \subseteq TranslationType /\ dgsbs' \subseteq TranslationType
    BY <1>1, <1>3 DEF SuperblockInv, TypeOK
  <2>2. unredir_used' \in 0..UnredirRoom /\ count' \in Nat
    BY <1>1, <1>2, MainType, TransTabAssumption
  <2> QED BY <1>1, <2>1, <2>2 DEF SuperblockInv, TypeOK, Sectors, TranslationType, EdgeType
<1> QED BY <1>5, <1>6, <1>7, <1>8, <1>9 DEF SuperblockInv

\* Translations are discarded.
LEMMA StepDiscard ==
  ASSUME SuperblockInv, NEW ranges \in SUBSET Keys, discard_translations(ranges),
         DeletedTold(ranges)
  PROVE  SuperblockInv'
<1> DEFINE gone == Overlapping(ranges)
<1>1. /\ gone \in SUBSET Main /\ dgsbs' \in Discarded(dgsbs, gone)
      /\ sectors' = [s \in Sectors |-> sectors[s] \ gone]
      /\ Rechain(gone, {})
      /\ tt_fast' = FastAfterDiscard(gone)
      /\ unredir' \subseteq unredir
      /\ UNCHANGED <<filled, youngest_sector, unredir_used, count, vassert_failed>>
  BY DEF discard_translations, DeletedTold, Overlapping
<1> HIDE DEF gone
<1>2. Main' = Main \ gone
  <2>1. \A s \in Sectors : sectors'[s] = sectors[s] \ gone
    BY <1>1
  <2>2. Main' = UNION {sectors'[s] : s \in Sectors}
    BY DEF Main, Sectors
  <2> QED BY <2>1, <2>2 DEF Main
<1>4. dgsbs' \subseteq dgsbs /\ MainSafe' /\ NoneLeft'
  <2>1. PICK none : none = {}
    OBVIOUS
  <2>2. /\ dgsbs' \in Discarded(dgsbs \cup none, gone)
        /\ Main' \subseteq (Main \ gone) \cup none /\ Main \ gone \subseteq Main'
        /\ \A t \in none, u \in gone : t.key # u.key
        /\ \A t \in none : Redir[t.key] = t.key => t \in Main'
    BY <1>1, <1>2, <2>1
  <2>3. dgsbs' \subseteq dgsbs \cup none /\ MainSafe' /\ NoneLeft'
    BY <1>1, <2>2, StepTool
  <2> QED BY <2>1, <2>3
<1>5. Numbered'
  BY <1>1, <1>2, <1>4, StepNumbered
<1>6. OneEach'
  <2>1. \A t, u \in Main' : t.key = u.key => t = u
    BY <1>2 DEF SuperblockInv, OneEach
  <2>2. \A r, s \in Sectors : sectors'[r] \cap sectors'[s] # {} => r = s
    BY <1>1 DEF SuperblockInv, OneEach
  <2>3. \A t \in Main' : t.base = Redir[t.key]
    BY <1>2 DEF SuperblockInv, OneEach
  <2> QED BY <2>1, <2>2, <2>3 DEF OneEach, Sectors
<1>7. /\ NoDanglingJump' /\ EdgesMatch'
      /\ patched' \subseteq EdgeType /\ in_edges' \subseteq EdgeType
      /\ out_edges' \subseteq EdgeType
  BY <1>1, <1>2, StepRechain
<1>8. /\ tt_fast' \subseteq tt_fast
      /\ \A t \in tt_fast', u \in gone : t.key # u.base
  BY <1>1 DEF FastAfterDiscard, invalidateFastCacheEntry
<1>9. Cached'
  BY <1>2, <1>8 DEF SuperblockInv, Linked, Cached, FastCacheFresh
<1>10. TypeOK'
  <2>1. sectors' \in [Sectors -> SUBSET TranslationType]
    BY <1>1 DEF SuperblockInv, TypeOK
  <2>2. dgsbs' \subseteq TranslationType /\ unredir' \subseteq TranslationType
    BY <1>1, <1>2, <1>4, MainType DEF SuperblockInv, TypeOK
  <2>3. tt_fast' \subseteq TranslationType
    BY <1>8 DEF SuperblockInv, TypeOK
  <2> QED BY <1>1, <1>7, <2>1, <2>2, <2>3
          DEF SuperblockInv, TypeOK, Sectors, TranslationType, EdgeType
<1> QED BY <1>4, <1>5, <1>6, <1>7, <1>9, <1>10 DEF SuperblockInv, Linked

\* The inductive invariant holds in every reachable state.
THEOREM SuperblockInvariant == Spec => []SuperblockInv
<1>1. Init => SuperblockInv
  <2> SUFFICES ASSUME Init PROVE SuperblockInv
    OBVIOUS
  <2>1. TypeOK
    <3>1. /\ sectors \in [Sectors -> SUBSET TranslationType]
          /\ filled \in [Sectors -> 0..SectorRoom] /\ youngest_sector \in Sectors
          /\ unredir_used \in 0..UnredirRoom
      BY TransTabAssumption DEF Init, TTInit, Sectors
    <3>2. vassert_failed \in BOOLEAN /\ count \in Nat
      BY DEF Init, TTInit
    <3>3. /\ unredir = {} /\ tt_fast = {} /\ dgsbs = {}
          /\ patched = {} /\ in_edges = {} /\ out_edges = {}
      BY DEF Init, TTInit
    <3> QED BY <3>1, <3>2, <3>3 DEF TypeOK
  <2>2. Main = {} /\ dgsbs = {} /\ unredir = {} /\ tt_fast = {}
    BY DEF Init, TTInit, Main
  <2>3. OneEach
    BY <2>2 DEF Init, TTInit, OneEach
  <2>4. Numbered /\ MainSafe /\ NoneLeft
    BY <2>2 DEF Numbered, MainSafe, NoneLeft
  <2>5. Linked
    BY <2>2 DEF Init, TTInit, Linked, NoDanglingJump, EdgesMatch, Cached, FastCacheFresh
  <2> QED BY <2>1, <2>3, <2>4, <2>5 DEF SuperblockInv
<1>2. SuperblockInv /\ [Next]_vars => SuperblockInv'
  <2> SUFFICES ASSUME SuperblockInv, [Next]_vars PROVE SuperblockInv'
    OBVIOUS
  <2>1. CASE \E k \in Keys : handle_tt_miss(k) /\ Translated(k)
    BY <2>1, StepMiss
  <2>2. CASE \E from \in Main \cup tt_fast, offs \in Exits, k \in Keys :
               handle_chain_me(from, offs, k) /\ Translated(k)
    BY <2>2, StepChainMe
  <2>3. CASE \E k \in Keys : handle_noredir_jump(k) /\ TranslatedUnredir(k)
    BY <2>3, StepNoRedir
  <2>4. CASE \E ranges \in SUBSET Keys :
               discard_translations(ranges) /\ DeletedTold(ranges)
    BY <2>4, StepDiscard
  <2>5. CASE UNCHANGED vars
    <3>1. /\ UNCHANGED <<sectors, filled, youngest_sector, unredir, unredir_used>>
          /\ UNCHANGED <<tt_fast, patched, in_edges, out_edges, count, vassert_failed, dgsbs>>
      BY <2>5 DEF vars, ttvars, table, unredirs, chains
    <3>2. Main' = Main
      BY <3>1 DEF Main, Sectors
    <3>3. TypeOK'
      BY <3>1 DEF SuperblockInv, TypeOK, Sectors, TranslationType, EdgeType
    <3>4. OneEach' /\ Numbered' /\ MainSafe' /\ NoneLeft'
      BY <3>1, <3>2 DEF SuperblockInv, OneEach, Numbered, MainSafe, NoneLeft, Sectors
    <3>5. Linked'
      BY <3>1, <3>2 DEF SuperblockInv, Linked, NoDanglingJump, EdgesMatch, Cached, FastCacheFresh
    <3> QED BY <3>3, <3>4, <3>5 DEF SuperblockInv
  <2> QED BY <2>1, <2>2, <2>3, <2>4, <2>5 DEF Next, Running
<1> QED BY <1>1, <1>2, PTL DEF Spec

\* The type invariant, for every value of the constants.
THEOREM SuperblockTypes == Spec => []TypeOK
  BY SuperblockInvariant, PTL DEF SuperblockInv

\* Ordinary translations never lose their DgSB, wrapped functions or not.
THEOREM OrdinaryTranslationsSafe == Spec => []MainSafe
  BY SuperblockInvariant, PTL DEF SuperblockInv

\* Of functions that are neither redirected nor wrapped dg_discard_superblock_info frees
\* the DgSBs of the translations that can no longer be reached, and no others.
THEOREM OrdinaryNoLeakNoDangling == Spec => []OrdinaryExact
<1>1. SuperblockInv => OrdinaryExact
  <2> SUFFICES ASSUME SuperblockInv PROVE OrdinaryExact
    OBVIOUS
  <2>1. \A t \in tt_fast : Redir[t.key] = t.key => t \in Main
    BY DEF SuperblockInv, Linked, Cached, FastCacheFresh
  <2>2. \A b \in dgsbs : Redir[b.key] = b.key => b \in Main
    BY DEF SuperblockInv, NoneLeft
  <2>3. Main \subseteq dgsbs
    BY DEF SuperblockInv, MainSafe
  <2> QED BY <2>1, <2>2, <2>3 DEF OrdinaryExact, Ordinary
<1> QED BY <1>1, SuperblockInvariant, PTL

\* unchain_in_preparation_for_deletion undoes every jump into what it deletes.
THEOREM JumpsLeadSomewhere == Spec => []NoDanglingJump
  BY SuperblockInvariant, PTL DEF SuperblockInv, Linked

\* The edges that a deletion looks for at the other end are there.
THEOREM EdgesFindable == Spec => []EdgesMatch
  BY SuperblockInvariant, PTL DEF SuperblockInv, Linked

\* Of translations that are not redirected the fast cache has only those in use.
THEOREM FastCacheInvalidated == Spec => []FastCacheFresh
  BY SuperblockInvariant, PTL DEF SuperblockInv, Linked, Cached
=============================================================================
