------------------------- MODULE DgDebugInfoProofs -------------------------
(***************************************************************************)
(* Datagrind announces objects correctly for any number of files, base     *)
(* addresses and DebugInfos.  The invariant PlacedWhenRun rests on two     *)
(* facts about the flag and the table: the text of an unannounced          *)
(* DebugInfo is never mapped without debuginfo_dirty being set since, and  *)
(* accepting a DebugInfo removes every other one at its base.              *)
(***************************************************************************)
EXTENDS DgDebugInfo, TLAPS

\* What the core keeps: the text address is where the text was first mapped, and
\* that is one of the mappings.
CoreInv ==
  \A d \in debugInfo_list : /\ d.rx # 0 => d.rx \in d.maps
                            /\ d.text_avma # 0 => d.text_avma = d.rx

\* What Datagrind keeps: a DebugInfo that is not in the table has had no record,
\* and one whose text has been mapped will get one.
TableInv ==
  \A d \in debugInfo_list :
    /\ d.said <= 1
    /\ d.ptr \notin debuginfo_table => d.said = 0
    /\ d.ptr \notin debuginfo_table /\ d.rx # 0 => debuginfo_dirty

DebugInfoInv == TypeOK /\ CoreInv /\ TableInv /\ PlacedWhenRun

\* The DebugInfo that di_notify_mmap finds is in the list or has a new address.
LEMMA FoundOrNew ==
  ASSUME DebugInfoInv, NEW f \in Files, NEW d \in find_or_create_DebugInfo_for(f)
  PROVE  /\ d \in DebugInfo
         /\ d \in debugInfo_list \/
              /\ \A o \in debugInfo_list : o.ptr # d.ptr
              /\ d.rx = 0 /\ d.text_avma = 0 /\ d.said = 0 /\ d.maps = {}
<1> DEFINE old == {o \in debugInfo_list : o.file = f}
<1>1. CASE old # {}
  BY <1>1 DEF DebugInfoInv, TypeOK, find_or_create_DebugInfo_for
<1>2. CASE old = {}
  <2>1. PICK p \in Ptrs \ {o.ptr : o \in debugInfo_list} : d = alloc_DebugInfo(f, p)
    BY <1>2 DEF find_or_create_DebugInfo_for
  <2> QED BY <2>1 DEF DebugInfo, alloc_DebugInfo
<1> QED BY <1>1, <1>2

\* A mapping adds its base to those of the DebugInfo and changes no other.
LEMMA WithMapType ==
  ASSUME NEW d \in DebugInfo, NEW b \in Bases, NEW x \in Perms
  PROVE  LET e == WithMap(d, b, x) IN
         /\ e \in DebugInfo
         /\ e.ptr = d.ptr /\ e.file = d.file /\ e.text_avma = d.text_avma
         /\ e.said = d.said /\ e.fresh = d.fresh
         /\ e.maps = d.maps \cup {b}
         /\ e.rx = IF x = "rx" /\ d.rx = 0 THEN b ELSE d.rx
  BY DebugInfoAssumption DEF DebugInfo, WithMap, Perms

\* The loader maps a part of an object.
LEMMA StepMap ==
  ASSUME DebugInfoInv, NEW f \in Files, NEW b \in Bases, NEW x \in Perms, Map(f, b, x)
  PROVE  DebugInfoInv'
<1>1. PICK d \in find_or_create_DebugInfo_for(f) :
        LET e == WithMap(d, b, x)
            others == debugInfo_list \ {d}
        IN \/ /\ d.text_avma # 0
              /\ UNCHANGED debugInfo_list
           \/ /\ d.text_avma = 0 /\ (e.rx = 0 \/ ~e.have_rw_map)
              /\ debugInfo_list' = others \cup {e}
           \/ /\ d.text_avma = 0 /\ e.rx # 0 /\ e.have_rw_map
              /\ debugInfo_list' =
                   {o \in others : o.maps \cap e.maps = {}}
                     \cup {[e EXCEPT !.text_avma = e.rx,
                              !.fresh = d.said = 0 /\ d.ptr \notin debuginfo_table]}
  BY DEF Map, di_notify_mmap
<1> DEFINE e == WithMap(d, b, x)
           others == debugInfo_list \ {d}
           a == [e EXCEPT !.text_avma = e.rx,
                          !.fresh = d.said = 0 /\ d.ptr \notin debuginfo_table]
<1>2. /\ d \in DebugInfo
      /\ d \in debugInfo_list \/
           /\ \A o \in debugInfo_list : o.ptr # d.ptr
           /\ d.rx = 0 /\ d.text_avma = 0 /\ d.said = 0 /\ d.maps = {}
  BY <1>1, FoundOrNew
<1>3. /\ e \in DebugInfo
      /\ e.ptr = d.ptr /\ e.file = d.file /\ e.text_avma = d.text_avma
      /\ e.said = d.said /\ e.fresh = d.fresh
      /\ e.maps = d.maps \cup {b}
      /\ e.rx = IF x = "rx" /\ d.rx = 0 THEN b ELSE d.rx
  BY <1>2, WithMapType
<1>4. /\ UNCHANGED <<debuginfo_table, placed>>
      /\ debuginfo_dirty' = (debuginfo_dirty \/ x = "rx")
      /\ mapped' \in [Bases -> [file : Files \cup {"none"}, perms : SUBSET Perms]]
      /\ loads' \in 0..MaxLoads
  BY DebugInfoAssumption
     DEF Map, DebugInfoInv, TypeOK, dg_track_new_mem_mmap_or_startup
<1>5. \A o \in others : o.ptr # d.ptr
  BY <1>2 DEF DebugInfoInv, TypeOK
<1> HIDE DEF e
<1>d. /\ d.said <= 1
      /\ d.ptr \notin debuginfo_table => d.said = 0
      /\ d.rx # 0 => d.rx \in d.maps
      /\ d.rx # 0 /\ d.ptr \notin debuginfo_table => debuginfo_dirty
  <2>1. CASE d \in debugInfo_list
    BY <2>1 DEF DebugInfoInv, CoreInv, TableInv
  <2>2. CASE d \notin debugInfo_list
    BY <1>2, <2>2
  <2> QED BY <2>1, <2>2
<1>6. CASE UNCHANGED debugInfo_list
  BY <1>4, <1>6 DEF DebugInfoInv, TypeOK, CoreInv, TableInv, PlacedWhenRun
<1>7. CASE d.text_avma = 0 /\ debugInfo_list' = others \cup {e}
  <2>1. /\ e.rx # 0 => e.rx \in e.maps
        /\ e.said <= 1
        /\ e.ptr \notin debuginfo_table => e.said = 0
        /\ e.ptr \notin debuginfo_table /\ e.rx # 0 => debuginfo_dirty'
    BY <1>3, <1>4, <1>d
  <2>2. TypeOK'
    <3>1. debugInfo_list' \subseteq DebugInfo
      BY <1>3, <1>7 DEF DebugInfoInv, TypeOK
    <3>2. \A o, p \in debugInfo_list' :
            o.ptr = p.ptr \/ (o.text_avma = p.text_avma /\ o.text_avma # 0) => o = p
      BY <1>3, <1>5, <1>7 DEF DebugInfoInv, TypeOK
    <3> QED BY <1>4, <3>1, <3>2 DEF DebugInfoInv, TypeOK
  <2>3. CoreInv'
    BY <1>3, <1>7, <2>1 DEF DebugInfoInv, CoreInv
  <2>4. TableInv'
    BY <1>4, <1>7, <2>1 DEF DebugInfoInv, TableInv
  <2>5. PlacedWhenRun'
    BY <1>3, <1>4, <1>7 DEF DebugInfoInv, PlacedWhenRun
  <2> QED BY <2>2, <2>3, <2>4, <2>5 DEF DebugInfoInv
<1>8. CASE /\ d.text_avma = 0 /\ e.rx # 0
           /\ debugInfo_list' = {o \in others : o.maps \cap e.maps = {}} \cup {a}
  <2>1. /\ a \in DebugInfo
        /\ a.ptr = d.ptr /\ a.said = d.said /\ a.rx = e.rx /\ a.text_avma = e.rx
        /\ a.maps = e.maps
        /\ a.fresh = (d.said = 0 /\ d.ptr \notin debuginfo_table)
    BY <1>3 DEF DebugInfo
  <2> HIDE DEF a
  <2>2. /\ a.rx \in a.maps
        /\ a.said <= 1
        /\ a.ptr \notin debuginfo_table => a.said = 0
        /\ a.ptr \notin debuginfo_table => debuginfo_dirty'
    BY <1>3, <1>4, <1>8, <1>d, <2>1
  <2>3. \A o \in debugInfo_list' : o = a \/ (o \in others /\ o.maps \cap a.maps = {})
    BY <1>8, <2>1
  <2>4. \A o \in debugInfo_list' : o.text_avma = a.text_avma /\ o.text_avma # 0 => o = a
    BY <2>1, <2>2, <2>3 DEF DebugInfoInv, CoreInv
  <2>5. TypeOK'
    <3>1. debugInfo_list' \subseteq DebugInfo
      BY <2>1, <2>3 DEF DebugInfoInv, TypeOK
    <3>2. \A o, p \in debugInfo_list' :
            o.ptr = p.ptr \/ (o.text_avma = p.text_avma /\ o.text_avma # 0) => o = p
      BY <1>5, <2>1, <2>3, <2>4 DEF DebugInfoInv, TypeOK
    <3> QED BY <1>4, <3>1, <3>2 DEF DebugInfoInv, TypeOK
  <2>6. CoreInv'
    BY <2>1, <2>2, <2>3 DEF DebugInfoInv, CoreInv
  <2>7. TableInv'
    BY <1>4, <2>1, <2>2, <2>3 DEF DebugInfoInv, TableInv
  <2>8. PlacedWhenRun'
    BY <1>4, <2>1, <2>2, <2>3 DEF DebugInfoInv, PlacedWhenRun
  <2> QED BY <2>5, <2>6, <2>7, <2>8 DEF DebugInfoInv
<1> QED BY <1>1, <1>6, <1>7, <1>8 DEF e

\* An object is unmapped.
LEMMA StepUnmap ==
  ASSUME DebugInfoInv, NEW b \in Bases, di_notify_munmap(b)
  PROVE  DebugInfoInv'
<1>1. debugInfo_list' \subseteq debugInfo_list
  BY DEF di_notify_munmap
<1>2. TypeOK'
  BY <1>1 DEF DebugInfoInv, TypeOK, di_notify_munmap, Free, Perms
<1>3. CoreInv' /\ TableInv' /\ PlacedWhenRun'
  BY <1>1 DEF DebugInfoInv, CoreInv, TableInv, PlacedWhenRun, di_notify_munmap
<1> QED BY <1>2, <1>3 DEF DebugInfoInv

\* A superblock is instrumented: each unknown DebugInfo gets its record.
LEMMA StepInstrument ==
  ASSUME DebugInfoInv, dg_instrument
  PROVE  DebugInfoInv'
<1> DEFINE Said(d) == [d EXCEPT !.said = @ + 1]
<1>1. /\ debuginfo_table' = debuginfo_table \cup {d.ptr : d \in Unknown}
      /\ debugInfo_list' = (debugInfo_list \ Unknown) \cup {Said(d) : d \in Unknown}
      /\ placed' = Placing /\ debuginfo_dirty' = FALSE
      /\ UNCHANGED <<mapped, loads>>
  BY DEF dg_instrument, clean_debuginfo, Remembered
<1>2. Unknown \subseteq debugInfo_list /\ Unknown \subseteq DebugInfo
  BY DEF Unknown, DebugInfoInv, TypeOK
<1>3. \A d \in Unknown :
        /\ Said(d) \in DebugInfo
        /\ Said(d).said = 1
        /\ Said(d).ptr = d.ptr /\ Said(d).file = d.file /\ Said(d).maps = d.maps
        /\ Said(d).rx = d.rx /\ Said(d).text_avma = d.text_avma
        /\ Said(d).fresh = d.fresh
  <2>1. \A d \in Unknown : d.said = 0
    BY DEF Unknown, DebugInfoInv, TableInv
  <2> QED BY <1>2, <2>1 DEF DebugInfo
<1> HIDE DEF Said
<1>4. \A o \in debugInfo_list' :
        \E d \in debugInfo_list :
          /\ o \in DebugInfo
          /\ d \in Unknown => o = Said(d)
          /\ d \notin Unknown => o = d
          /\ o.ptr = d.ptr /\ o.file = d.file /\ o.maps = d.maps
          /\ o.rx = d.rx /\ o.text_avma = d.text_avma /\ o.fresh = d.fresh
  BY <1>1, <1>2, <1>3 DEF DebugInfoInv, TypeOK
<1>5. \A d \in Unknown : d.text_avma # 0 => Placing[d.text_avma] = d.file
  <2> SUFFICES ASSUME NEW d \in Unknown, d.text_avma # 0
               PROVE  Placing[d.text_avma] = d.file
    OBVIOUS
  <2>1. d.text_avma \in Bases
    BY <1>2 DEF DebugInfo
  <2>2. \A c \in Unknown : c.text_avma = d.text_avma => c = d
    BY <1>2 DEF DebugInfoInv, TypeOK
  <2>3. (CHOOSE c \in Unknown : c.text_avma = d.text_avma) = d
    BY <2>2
  <2> QED BY <2>1, <2>3 DEF Placing
<1>6. \A b \in Bases : Placing[b] = placed[b] \/ \E d \in Unknown : d.text_avma = b
  BY DEF Placing
<1>7. Placing \in [Bases -> Files \cup {"none"}]
  <2>1. \A b \in Bases : (\E d \in Unknown : d.text_avma = b) =>
          (CHOOSE d \in Unknown : d.text_avma = b) \in Unknown
    OBVIOUS
  <2>2. \A d \in Unknown : d.file \in Files
    BY <1>2 DEF DebugInfo
  <2> QED BY <2>1, <2>2 DEF Placing, DebugInfoInv, TypeOK
<1>8. TypeOK'
  <2>1. debuginfo_table' \subseteq Ptrs
    BY <1>1, <1>2 DEF DebugInfoInv, TypeOK, DebugInfo
  <2>2. \A d, e \in debugInfo_list' :
          d.ptr = e.ptr \/ (d.text_avma = e.text_avma /\ d.text_avma # 0) => d = e
    BY <1>4 DEF DebugInfoInv, TypeOK
  <2>3. debugInfo_list' \subseteq DebugInfo
    BY <1>4
  <2> QED BY <1>1, <1>7, <2>1, <2>2, <2>3 DEF DebugInfoInv, TypeOK
<1>9. CoreInv'
  BY <1>4 DEF DebugInfoInv, CoreInv
<1>10. \A o \in debugInfo_list' : o.said <= 1 /\ (o.ptr \notin debuginfo_table' =>
          o.said = 0 /\ o.rx = 0)
  <2> SUFFICES ASSUME NEW o \in debugInfo_list'
               PROVE  o.said <= 1 /\ (o.ptr \notin debuginfo_table' => o.said = 0 /\ o.rx = 0)
    OBVIOUS
  <2>1. PICK d \in debugInfo_list : /\ d \in Unknown => o = Said(d)
                                    /\ d \notin Unknown => o = d
                                    /\ o.ptr = d.ptr
    BY <1>4
  <2>2. CASE d \in Unknown
    BY <1>1, <1>3, <2>1, <2>2
  <2>3. CASE d \notin Unknown
    BY <1>1, <2>1, <2>3 DEF Unknown, DebugInfoInv, TableInv
  <2> QED BY <2>2, <2>3
<1>11. TableInv'
  BY <1>10 DEF TableInv
<1>12. PlacedWhenRun'
  <2> SUFFICES ASSUME NEW o \in debugInfo_list', o.text_avma # 0, o.fresh
               PROVE  placed'[o.text_avma] = o.file
    BY DEF PlacedWhenRun
  <2>1. PICK d \in debugInfo_list :
          o.file = d.file /\ o.text_avma = d.text_avma /\ o.fresh = d.fresh
    BY <1>4
  <2>2. d.text_avma \in Bases
    BY <2>1 DEF DebugInfoInv, TypeOK, DebugInfo
  <2>3. CASE d \in Unknown
    BY <1>1, <1>5, <2>1, <2>3
  <2>4. CASE d \notin Unknown
    <3>1. placed[d.text_avma] = d.file
      BY <2>1, <2>4 DEF DebugInfoInv, PlacedWhenRun, Unknown
    <3>2. \A c \in Unknown : c.text_avma # d.text_avma
      BY <1>2, <2>1, <2>4 DEF DebugInfoInv, TypeOK
    <3> QED BY <1>1, <1>6, <2>1, <2>2, <3>1, <3>2
  <2> QED BY <2>3, <2>4
<1> QED BY <1>8, <1>9, <1>11, <1>12 DEF DebugInfoInv

\* The inductive invariant holds in every reachable state.
THEOREM DebugInfoInvariant == Spec => []DebugInfoInv
<1>1. Init => DebugInfoInv
  BY DebugInfoAssumption
     DEF Init, DebugInfoInv, TypeOK, CoreInv, TableInv, PlacedWhenRun, Free, Perms
<1>2. DebugInfoInv /\ [Next]_vars => DebugInfoInv'
  <2> SUFFICES ASSUME DebugInfoInv, [Next]_vars PROVE DebugInfoInv'
    OBVIOUS
  <2>1. CASE \E f \in Files, b \in Bases, x \in Perms : Map(f, b, x)
    BY <2>1, StepMap
  <2>2. CASE \E b \in Bases : di_notify_munmap(b)
    BY <2>2, StepUnmap
  <2>3. CASE dg_instrument
    BY <2>3, StepInstrument
  <2>4. CASE UNCHANGED vars
    BY <2>4 DEF vars, DebugInfoInv, TypeOK, CoreInv, TableInv, PlacedWhenRun
  <2> QED BY <2>1, <2>2, <2>3, <2>4 DEF Next
<1> QED BY <1>1, <1>2, PTL DEF Spec

\* However objects are mapped and unmapped, no two DebugInfos of the core share an
\* address or a text address, and every variable keeps its type.
THEOREM DebugInfoTypes == Spec => []TypeOK
  BY DebugInfoInvariant, PTL DEF DebugInfoInv

\* clean_debuginfo places every object whose DebugInfo it could recognise as new,
\* and announces none twice.
THEOREM ObjectsPlaced == Spec => []PlacedWhenRun
  BY DebugInfoInvariant, PTL DEF DebugInfoInv

\* No DebugInfo is announced twice, however often debuginfo_dirty is set again.
THEOREM NoSecondRecord == Spec => []AnnouncedOnce
<1>1. DebugInfoInv => AnnouncedOnce
  BY DEF DebugInfoInv, TableInv, AnnouncedOnce
<1> QED BY <1>1, DebugInfoInvariant, PTL
=============================================================================
