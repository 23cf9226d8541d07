---------------------------- MODULE DgDebugInfo ----------------------------
(***************************************************************************)
(* How Datagrind tells a reader where object files are loaded,             *)
(* exp-datagrind/dg_main.c: an executable mapping sets debuginfo_dirty     *)
(* (dg_track_new_mem_mmap_or_startup) and the next dg_instrument writes a  *)
(* TEXT_AVMA record for every DebugInfo of the core that is not yet in     *)
(* debuginfo_table (clean_debuginfo).  The table remembers a DebugInfo by  *)
(* its address alone.                                                      *)
(*                                                                         *)
(* The core (coregrind/m_debuginfo/debuginfo.c) makes a DebugInfo at the   *)
(* first mapping of a file of any kind, knows the text address only when   *)
(* both an r-x and an rw- mapping have been seen, and frees the DebugInfo, *)
(* whose memory may serve for another, when the text is unmapped.  Without *)
(* --keep-debuginfo.  A loader maps an object completely before it unmaps  *)
(* it, all of it around one base address, and its debug information can    *)
(* be read.                                                                *)
(***************************************************************************)
EXTENDS Integers

CONSTANTS Files,    \* object files
          Bases,    \* addresses at which their text can be loaded
          Ptrs,     \* addresses of DebugInfos
          MaxLoads  \* bound: objects loaded

\* No base address is 0, which stands for an unknown one.
ASSUME DebugInfoAssumption == 0 \notin Bases /\ MaxLoads \in Nat

VARIABLES
  mapped,          \* base -> the file mapped there and how
  debugInfo_list,  \* the core's DebugInfos
  debuginfo_dirty,
  debuginfo_table, \* the addresses of the DebugInfos announced
  placed,          \* ghost: base -> the file a reader takes to be loaded there
  loads            \* objects loaded (for the bound)

vars == <<mapped, debugInfo_list, debuginfo_dirty, debuginfo_table, placed, loads>>

Perms == {"ro", "rx", "rw"}
Free == [file |-> "none", perms |-> {}]

Init == /\ mapped = [b \in Bases |-> Free]
        /\ debugInfo_list = {} /\ debuginfo_table = {}
        /\ debuginfo_dirty = TRUE
        /\ placed = [b \in Bases |-> "none"]
        /\ loads = 0

-----------------------------------------------------------------------------
(* The core's DebugInfos.                                                  *)

\* A new DebugInfo of file f: no mappings seen, text_present false.  said counts
\* the records written for it and fresh tells whether its address was unknown to
\* Datagrind when its text address became known; both are ghosts.
alloc_DebugInfo(f, p) ==
  [ptr |-> p, file |-> f, maps |-> {}, rx |-> 0, have_rw_map |-> FALSE,
   text_avma |-> 0, said |-> 0, fresh |-> FALSE]

\* The DebugInfo of f, or a new one in memory that no other one takes up.
find_or_create_DebugInfo_for(f) ==
  LET old == {d \in debugInfo_list : d.file = f}
  IN IF old # {} THEN old
     ELSE {alloc_DebugInfo(f, p) : p \in Ptrs \ {d.ptr : d \in debugInfo_list}}

\* DebugInfo d with a mapping of kind x at base b added; rx is the first base at
\* which its text was mapped.
WithMap(d, b, x) ==
  [d EXCEPT !.maps = @ \cup {b},
            !.rx = IF x = "rx" /\ @ = 0 THEN b ELSE @,
            !.have_rw_map = @ \/ x = "rw"]

\* VG_(di_notify_mmap).  Mappings are ignored once debug information has been
\* read.  It is read, and the DebugInfos that overlap are freed, when an r-x and
\* an rw- mapping have been seen.
di_notify_mmap(f, b, x) ==
  \E d \in find_or_create_DebugInfo_for(f) :
    LET e == WithMap(d, b, x)
        others == debugInfo_list \ {d}
    IN \/ /\ d.text_avma # 0
          /\ UNCHANGED debugInfo_list
       \/ /\ d.text_avma = 0 /\ (e.rx = 0 \/ ~e.have_rw_map)
          /\ debugInfo_list' = others \cup {e}
       \/ /\ d.text_avma = 0 /\ e.rx # 0 /\ e.have_rw_map
          /\ debugInfo_list' =
               {o \in others : o.maps \cap e.maps = {}}
                 \cup {[e EXCEPT !.text_avma = e.rx,
                                 !.fresh = d.said = 0 /\ d.ptr \notin debuginfo_table]}

\* Mutant: the tool tracks the mappings of the start-up only.
StartupOnly(x) == UNCHANGED debuginfo_dirty

\* Datagrind is told of the mapping, after the core.
dg_track_new_mem_mmap_or_startup(x) ==
  debuginfo_dirty' = (debuginfo_dirty \/ x = "rx")

\* The loader maps one more part of f at b.
Map(f, b, x) ==
  /\ \/ mapped[b].file = f /\ x \notin mapped[b].perms /\ UNCHANGED loads
     \/ mapped[b] = Free /\ loads < MaxLoads /\ loads' = loads + 1
  /\ mapped' = [mapped EXCEPT ![b] = [file |-> f, perms |-> @.perms \cup {x}]]
  /\ di_notify_mmap(f, b, x)
  /\ dg_track_new_mem_mmap_or_startup(x)
  /\ UNCHANGED <<debuginfo_table, placed>>

\* The object at b is unmapped: discard_syms_in_range frees its DebugInfo, and
\* Datagrind is not told.
di_notify_munmap(b) ==
  /\ {"rx", "rw"} \subseteq mapped[b].perms
  /\ mapped' = [mapped EXCEPT ![b] = Free]
  /\ debugInfo_list' = {d \in debugInfo_list : d.text_avma # b}
  /\ UNCHANGED <<debuginfo_dirty, debuginfo_table, placed, loads>>

-----------------------------------------------------------------------------
(* Datagrind.                                                              *)

\* The DebugInfos clean_debuginfo writes a record for.
Unknown == {d \in debugInfo_list : debuginfo_dirty /\ d.ptr \notin debuginfo_table}

\* What a reader makes of the records written: it ignores one whose address is 0.
Placing == [b \in Bases |-> IF \E d \in Unknown : d.text_avma = b
              THEN (CHOOSE d \in Unknown : d.text_avma = b).file ELSE placed[b]]

\* Mutants: the DebugInfos are not remembered; they are remembered by their text
\* address.
RememberedNot == debuginfo_table
RememberedText == debuginfo_table \cup {d.text_avma : d \in Unknown}

Remembered == debuginfo_table \cup {d.ptr : d \in Unknown}

clean_debuginfo ==
  /\ debuginfo_table' = Remembered
  /\ debugInfo_list' = (debugInfo_list \ Unknown)
                         \cup {[d EXCEPT !.said = @ + 1] : d \in Unknown}
  /\ placed' = Placing
  /\ debuginfo_dirty' = FALSE

\* Any superblock is instrumented.
dg_instrument ==
  /\ clean_debuginfo
  /\ UNCHANGED <<mapped, loads>>

Next == \/ \E f \in Files, b \in Bases, x \in Perms : Map(f, b, x)
        \/ \E b \in Bases : di_notify_munmap(b)
        \/ dg_instrument

Spec == Init /\ [][Next]_vars

-----------------------------------------------------------------------------
(* Properties.                                                             *)

DebugInfo == [ptr : Ptrs, file : Files, maps : SUBSET Bases, rx : Bases \cup {0},
              have_rw_map : BOOLEAN, text_avma : Bases \cup {0}, said : Nat,
              fresh : BOOLEAN]

\* The types of the variables; two DebugInfos have neither an address nor a text
\* address in common.
TypeOK ==
  /\ mapped \in [Bases -> [file : Files \cup {"none"}, perms : SUBSET Perms]]
  /\ debugInfo_list \subseteq DebugInfo
  /\ \A d, e \in debugInfo_list :
       d.ptr = e.ptr \/ (d.text_avma = e.text_avma /\ d.text_avma # 0) => d = e
  /\ debuginfo_dirty \in BOOLEAN
  /\ debuginfo_table \subseteq Ptrs
  /\ placed \in [Bases -> Files \cup {"none"}]
  /\ loads \in 0..MaxLoads

\* No DebugInfo is announced twice.
AnnouncedOnce == \A d \in debugInfo_list : d.said <= 1

\* A reader of the file places every object where it is loaded, or the next
\* dg_instrument sees to it, before any code of the object runs: if Datagrind did
\* not know the address of the object's DebugInfo when its text address became
\* known.  It did know it when a superblock was instrumented between the mappings
\* of the object, or when the DebugInfo lies where a freed one lay: then the
\* record says 0 or is missing, for good.
PlacedWhenRun ==
  \A d \in debugInfo_list : d.text_avma # 0 /\ d.fresh =>
    \/ placed[d.text_avma] = d.file
    \/ debuginfo_dirty /\ d.ptr \notin debuginfo_table
=============================================================================
