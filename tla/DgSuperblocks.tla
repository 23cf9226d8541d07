--------------------------- MODULE DgSuperblocks ---------------------------
(***************************************************************************)
(* The life of Datagrind's per-superblock data.  A translation holds       *)
(* pointers to the DgBBDefs of its DgSB, so a DgSB must live as long as    *)
(* the translation; Datagrind finds it again only by the superblock's      *)
(* address (dgsbs, keyed by nraddr) when the core tells it, through        *)
(* dg_discard_superblock_info, that the translation is gone.  The core     *)
(* does so for the translations of its sectors (TransTab) and not for the  *)
(* unredirected ones.                                                      *)
(*                                                                         *)
(* A DgSB is represented by the translation it was made for.  dgsbs is a   *)
(* Multimap, which HashTable implements.                                   *)
(***************************************************************************)
EXTENDS TransTab

VARIABLE dgsbs      \* the DgSBs in Datagrind's table

vars == <<ttvars, dgsbs>>

Init == TTInit /\ dgsbs = {}

\* dg_instrument's dg_sb_new: the table with a DgSB for the translation t.
Instrumented(t) == dgsbs \cup {t}

\* What the table from may become when dg_discard_superblock_info is called once
\* for each of the translations gone: each call takes one DgSB with the
\* translation's key, if there is one, and frees it.
Discarded(from, gone) ==
  LET found == {b \in from : \E t \in gone : t.key = b.key}
      OneOfEach(freed) == /\ \A b \in found : \E c \in freed : c.key = b.key
                          /\ \A b, c \in freed : b.key = c.key => b = c
  IN {from \ freed : freed \in {f \in SUBSET found : OneOfEach(f)}}

\* Mutant: the tool is not told of what is in a recycled sector.
TranslatedUntold(k) ==
  dgsbs' = IF \E t \in Main : t.key = k THEN dgsbs ELSE Instrumented(NewTranslation(k))

\* k is looked up in the sectors.  If it is not there VG_(translate) calls dg_instrument,
\* and then add_to_transtab, whose initialiseSector tells the tool of every
\* translation in use in the sector that it recycles.
Translated(k) ==
  IF \E t \in Main : t.key = k
    THEN UNCHANGED dgsbs
    ELSE dgsbs' \in Discarded(Instrumented(NewTranslation(k)), Recycled)

\* add_to_unredir_transtab tells the tool nothing, even if it dumps the table.
TranslatedUnredir(k) == dgsbs' = Instrumented(NewUnredir(k))

\* Mutant: the tool is told of the unredirected translations that are discarded, too.
DeletedUnredirTold(ranges) ==
  dgsbs' \in Discarded(dgsbs, Overlapping(ranges) \cup {t \in unredir : t.base \in ranges})

\* delete_tte tells the tool of every translation it deletes from a sector;
\* unredir_discard_translations does not.
DeletedTold(ranges) == dgsbs' \in Discarded(dgsbs, Overlapping(ranges))

\* Every translation is there: the client runs on without the translator.
Running == UNCHANGED vars

Next ==
  \/ \E k \in Keys : handle_tt_miss(k) /\ Translated(k)
  \/ \E from \in Main \cup tt_fast, offs \in Exits, k \in Keys :
       handle_chain_me(from, offs, k) /\ Translated(k)
  \/ \E k \in Keys : handle_noredir_jump(k) /\ TranslatedUnredir(k)
  \/ \E ranges \in SUBSET Keys : discard_translations(ranges) /\ DeletedTold(ranges)
  \/ Running

Spec == Init /\ [][Next]_vars

-----------------------------------------------------------------------------
(* Properties.                                                             *)

\* The types of the variables.
TypeOK ==
  /\ sectors \in [Sectors -> SUBSET TranslationType]
  /\ filled \in [Sectors -> 0..SectorRoom]
  /\ youngest_sector \in Sectors
  /\ unredir \subseteq TranslationType /\ unredir_used \in 0..UnredirRoom
  /\ tt_fast \subseteq TranslationType
  /\ patched \subseteq EdgeType /\ in_edges \subseteq EdgeType /\ out_edges \subseteq EdgeType
  /\ count \in Nat /\ vassert_failed \in BOOLEAN
  /\ dgsbs \subseteq TranslationType

\* The translations of T of functions that are neither redirected nor wrapped.
Ordinary(T) == {t \in T : Redir[t.key] = t.key}

\* Of functions that are neither redirected nor wrapped Datagrind keeps exactly the
\* DgSBs of the translations that a thread can still get to, by a search of the sectors
\* (and then by chained jumps) or by the fast cache: no DgSB, with the DgBBDefs the
\* code points to, is freed under such a translation, in whichever way others go and
\* whichever wrapped functions are called meanwhile, and none outlives its translation.
OrdinaryExact == Ordinary(dgsbs) = Ordinary(Main \cup tt_fast)

\* Ordinary translations are safe even when unredirected ones have put DgSBs of
\* their own under the same addresses, and stay there after they are gone: the
\* DgSB of a translation in a sector has not been freed.
MainSafe == Main \subseteq dgsbs
=============================================================================
