--------------------------- MODULE DgBlocksProofs ---------------------------
(***************************************************************************)
(* Proofs about DgBlocks, for every set of keys, addresses and stacks and  *)
(* all bounds.  First that every reference in the file and in the running  *)
(* code resolves.  Then what the records say about the executions: the     *)
(* code of a translation lays out the accesses of its BBDEF one after the  *)
(* other, so the addresses that the tracing calls collect are in the order *)
(* of the definition's accesses.                                           *)
(***************************************************************************)
EXTENDS DgBlocks, SequenceTheorems, FiniteSetTheorems, TLAPS

-----------------------------------------------------------------------------
(* The inductive invariant for the references.                             *)

\* The counters agree with the file, and no DgBBDef remembers an ordinal that
\* has not been written.
Counters ==
  /\ global_bbdef_index = Len(defAt) /\ global_context_index = Len(ctxAt)
  /\ \A b \in DOMAIN bbdefs :
       /\ bbdefs[b].index < Len(defAt)
       /\ \A ec \in Stacks : bbdefs[b].ctxs[ec] < Len(ctxAt)

\* Code starts with the IMark that calls trace_bb_start and belongs to one
\* definition b.
Begins(code, b) ==
  /\ code # <<>>
  /\ code[1].kind = "imark" /\ code[1].n = 1
  /\ \A j \in DOMAIN code : code[j].bbd = b

\* The definition a translation was made with is flushed, allocated and its
\* own, and only the last statement is the end.
Translated(k) ==
  LET code == tt[k]
      b    == tt[k][1].bbd
  IN /\ Begins(code, b)
     /\ b \in DOMAIN bbdefs /\ bbdefs[b].at = k /\ bbdefs[b].live
     /\ bbdefs[b].index >= 0
     /\ \A j \in DOMAIN code : code[j].kind = "end" <=> j = Len(code)

\* dg_instrument is working on the newest definition, which is not flushed.
Instrumenting ==
  /\ bbdefs # <<>> /\ tt[cur] = <<>>
  /\ bbd.at = cur /\ bbd.live
  /\ insns = bbd.n /\ insns <= GuestMaxInsns
  /\ sbOut = <<>> => insns = 0
  /\ sbOut # <<>> => insns > 0 /\ Begins(sbOut, Len(bbdefs))
  /\ \A j \in DOMAIN sbOut : sbOut[j].kind # "end"

\* A DgSB owns definitions of its own key only.
Owned == \A k \in Keys : \A i \in DOMAIN dgsbs[k] :
           dgsbs[k][i] \in DOMAIN bbdefs /\ bbdefs[dgsbs[k][i]].at = k

\* A run that is counted, or has started, has its context in the file, and a
\* block that has started is inside an instruction.
Pending ==
  /\ (out_bbr.n > 0 \/ (mode = "run" /\ pc > 1)) => out_bbr.ctx < Len(ctxAt)
  /\ (mode = "run" /\ pc > 1) => now.n > 0

RefInv ==
  /\ TypeOK /\ WellReferenced
  /\ Counters /\ Owned /\ Pending
  /\ \A k \in Keys : tt[k] # <<>> => Translated(k)
  /\ mode = "instr" => Instrumenting

-----------------------------------------------------------------------------
(* What appending one record does to the file.                             *)

File(lg, defs, ctxs, runs) ==
  /\ lg \in Seq(Record)
  /\ defs \in Positions /\ ctxs \in Positions /\ runs \in Positions
  /\ Scans(lg, defs, "BBDEF") /\ Scans(lg, ctxs, "CONTEXT") /\ Scans(lg, runs, "BBRUN")
  /\ Resolves(lg, defs, ctxs)

\* A function on 1..n is a sequence.
LEMMA FunctionIsSeq ==
  ASSUME NEW S, NEW n \in Nat, NEW f \in [1..n -> S]
  PROVE  f \in Seq(S) /\ Len(f) = n
  <1>1. f \in Seq(S)
    BY SeqDef
  <1> QED BY <1>1

\* The elements of an extended sequence.
LEMMA Appended ==
  ASSUME NEW S, NEW s \in Seq(S), NEW e \in S
  PROVE  /\ Append(s, e) \in Seq(S)
         /\ Len(s) \in Nat /\ DOMAIN s = 1..Len(s)
         /\ Len(Append(s, e)) = Len(s) + 1 /\ Append(s, e)[Len(s) + 1] = e
         /\ \A p \in 1..Len(s) : Append(s, e)[p] = s[p]
         /\ DOMAIN Append(s, e) = 1..(Len(s) + 1)
  OBVIOUS

\* An index keeps describing the file when a record of its type is appended to
\* both, and when a record of another type is appended to the file.
LEMMA ScansAppend ==
  ASSUME NEW lg \in Seq(Record), NEW idx \in Positions, NEW type,
         NEW r \in Record, Scans(lg, idx, type)
  PROVE  /\ r.type = type => Scans(Append(lg, r), Append(idx, Len(lg) + 1), type)
         /\ r.type # type => Scans(Append(lg, r), idx, type)
  <1> DEFINE new == Append(lg, r)
             ix  == Append(idx, Len(lg) + 1)
  <1>1. /\ Len(lg) \in Nat /\ DOMAIN lg = 1..Len(lg) /\ DOMAIN new = 1..(Len(lg) + 1)
        /\ new[Len(lg) + 1] = r /\ \A p \in 1..Len(lg) : new[p] = lg[p]
    BY Appended
  <1>2. /\ Len(idx) \in Nat /\ DOMAIN idx = 1..Len(idx) /\ DOMAIN ix = 1..(Len(idx) + 1)
        /\ ix[Len(idx) + 1] = Len(lg) + 1 /\ \A i \in 1..Len(idx) : ix[i] = idx[i]
    BY Appended DEF Positions
  <1> HIDE DEF ix, new
  <1>3. ASSUME r.type # type PROVE Scans(new, idx, type)
    BY <1>1, <1>3 DEF Scans
  <1>4. ASSUME r.type = type PROVE Scans(new, ix, type)
    <2>1. \A i \in DOMAIN ix : ix[i] \in DOMAIN new /\ new[ix[i]].type = type
      BY <1>1, <1>2, <1>4 DEF Scans
    <2>2. \A i, j \in DOMAIN ix : i < j => ix[i] < ix[j]
      BY <1>1, <1>2 DEF Scans
    <2>3. ASSUME NEW p \in DOMAIN new, new[p].type = type
          PROVE  \E i \in DOMAIN ix : ix[i] = p
      <3>1. CASE p = Len(lg) + 1
        BY <1>2, <3>1
      <3>2. CASE p \in DOMAIN lg
        <4>1. PICK i \in DOMAIN idx : idx[i] = p
          BY <1>1, <2>3, <3>2 DEF Scans
        <4> QED BY <1>2, <4>1
      <3> QED BY <1>1, <3>1, <3>2
    <2> QED BY <2>1, <2>2, <2>3 DEF Scans
  <1> QED BY <1>3, <1>4 DEF new, ix

\* References stay resolved when the indices grow and the new record, if it
\* refers to anything, refers to what is there.
LEMMA ResolvesAppend ==
  ASSUME NEW lg \in Seq(Record), NEW defs \in Positions, NEW ctxs \in Positions,
         NEW r \in Record, NEW defs2, NEW ctxs2,
         defs2 = defs \/ defs2 = Append(defs, Len(lg) + 1),
         ctxs2 = ctxs \/ ctxs2 = Append(ctxs, Len(lg) + 1),
         Scans(lg, defs, "BBDEF"), Scans(lg, ctxs, "CONTEXT"),
         Resolves(lg, defs, ctxs),
         r.type = "CONTEXT" => r.bbdef + 1 \in DOMAIN defs,
         r.type = "BBRUN" => r.ctx + 1 \in DOMAIN ctxs
  PROVE  Resolves(Append(lg, r), defs2, ctxs2)
  <1> DEFINE new == Append(lg, r)
  <1>1. /\ Len(lg) \in Nat /\ DOMAIN lg = 1..Len(lg) /\ DOMAIN new = 1..(Len(lg) + 1)
        /\ new[Len(lg) + 1] = r /\ \A p \in 1..Len(lg) : new[p] = lg[p]
    BY Appended
  <1>2. \A i \in DOMAIN defs : i \in DOMAIN defs2 /\ defs2[i] = defs[i]
                               /\ defs[i] < Len(lg) + 1
    <2>1. Len(lg) + 1 \in Nat \ {0}
      BY <1>1
    <2>2. DOMAIN defs = 1..Len(defs) /\ \A i \in DOMAIN defs : defs[i] < Len(lg) + 1
      BY <1>1 DEF Positions, Scans
    <2> QED BY <2>1, <2>2, Appended DEF Positions
  <1>3. \A i \in DOMAIN ctxs : i \in DOMAIN ctxs2 /\ ctxs2[i] = ctxs[i]
                               /\ ctxs[i] < Len(lg) + 1
    <2>1. Len(lg) + 1 \in Nat \ {0}
      BY <1>1
    <2>2. DOMAIN ctxs = 1..Len(ctxs) /\ \A i \in DOMAIN ctxs : ctxs[i] < Len(lg) + 1
      BY <1>1 DEF Positions, Scans
    <2> QED BY <2>1, <2>2, Appended DEF Positions
  <1> HIDE DEF new
  <1>4. Resolves(new, defs2, ctxs2)
    BY <1>1, <1>2, <1>3 DEF Resolves
  <1> QED BY <1>4 DEF new

\* A definition may be written at any time; it gets the next ordinal.
LEMMA AppendDef ==
  ASSUME NEW lg, NEW defs, NEW ctxs, NEW runs, File(lg, defs, ctxs, runs),
         NEW r \in Record, r.type = "BBDEF"
  PROVE  File(Append(lg, r), Append(defs, Len(lg) + 1), ctxs, runs)
  <1>1. Resolves(Append(lg, r), Append(defs, Len(lg) + 1), ctxs)
    BY ResolvesAppend DEF File
  <1>2. Append(lg, r) \in Seq(Record) /\ Append(defs, Len(lg) + 1) \in Positions
    BY DEF File, Positions
  <1> QED BY <1>1, <1>2, ScansAppend DEF File

\* A context must name a definition that is already in the file.
LEMMA AppendContext ==
  ASSUME NEW lg, NEW defs, NEW ctxs, NEW runs, File(lg, defs, ctxs, runs),
         NEW r \in Record, r.type = "CONTEXT", r.bbdef + 1 \in DOMAIN defs
  PROVE  File(Append(lg, r), defs, Append(ctxs, Len(lg) + 1), runs)
  <1>1. Resolves(Append(lg, r), defs, Append(ctxs, Len(lg) + 1))
    BY ResolvesAppend DEF File
  <1>2. Append(lg, r) \in Seq(Record) /\ Append(ctxs, Len(lg) + 1) \in Positions
    BY DEF File, Positions
  <1> QED BY <1>1, <1>2, ScansAppend DEF File

\* A run must name a context that is already in the file.
LEMMA AppendRun ==
  ASSUME NEW lg, NEW defs, NEW ctxs, NEW runs, File(lg, defs, ctxs, runs),
         NEW r \in Record, r.type = "BBRUN", r.ctx + 1 \in DOMAIN ctxs
  PROVE  File(Append(lg, r), defs, ctxs, Append(runs, Len(lg) + 1))
  <1>1. Resolves(Append(lg, r), defs, ctxs)
    BY ResolvesAppend DEF File
  <1>2. Append(lg, r) \in Seq(Record) /\ Append(runs, Len(lg) + 1) \in Positions
    BY DEF File, Positions
  <1> QED BY <1>1, <1>2, ScansAppend DEF File

\* An event may be written at any time; no ordinal counts it.
LEMMA AppendEvent ==
  ASSUME NEW lg, NEW defs, NEW ctxs, NEW runs, File(lg, defs, ctxs, runs),
         NEW r \in Record, r.type = "EVENT"
  PROVE  File(Append(lg, r), defs, ctxs, runs)
  <1>1. Resolves(Append(lg, r), defs, ctxs)
    BY ResolvesAppend DEF File
  <1>2. Append(lg, r) \in Seq(Record)
    BY DEF File
  <1> QED BY <1>1, <1>2, ScansAppend DEF File

\* A footprint is a sequence of directions.
LEMMA FootprintIsSeq == \A dirs \in Footprints : dirs \in Seq(Dirs)
  <1>1. "R" \in Dirs /\ "W" \in Dirs
    BY DEF Dirs
  <1>2. <<"R">> \in Seq(Dirs) /\ <<"W">> \in Seq(Dirs) /\ <<"R", "W">> \in Seq(Dirs)
    BY <1>1
  <1> QED BY <1>2, FootprintAssumption

-----------------------------------------------------------------------------
(* The invariant is inductive.                                             *)

USE DEF instrVars, traceVars, ghostVars

\* The invariant holds initially: nothing is in the file and no code exists.
LEMMA RefInit == Init => RefInv
  <1> SUFFICES ASSUME Init PROVE RefInv
    OBVIOUS
  <1>1. TypeOK
    BY DEF Init, TypeOK, Positions, Code, Bbr
  <1>2. WellReferenced
    BY DEF Init, WellReferenced, Scans, Resolves
  <1>3. Counters /\ Owned /\ Pending
    BY DEF Init, Counters, Owned, Pending
  <1> QED BY <1>1, <1>2, <1>3 DEF RefInv, Init

\* The part of the invariant that is about the file, as the lemmas use it.
LEMMA FileInv == RefInv => File(log, defAt, ctxAt, runAt)
  BY DEF RefInv, File, TypeOK, WellReferenced

\* Appending a fresh definition disturbs nothing that refers to the others.
LEMMA StepBegin ==
  ASSUME RefInv, NEW k \in Keys, InstrumentBegin(k)
  PROVE  RefInv'
  <1> /\ TypeOK /\ WellReferenced /\ Counters /\ Owned /\ Pending
      /\ \A j \in Keys : tt[j] # <<>> => Translated(j)
    BY DEF RefInv
  <1> USE DEF InstrumentBegin
  <1> DEFINE d == dg_bbdef_new(k)
  <1>1. /\ d \in Def /\ d.at = k /\ d.n = 0 /\ d.live /\ d.index = -1
        /\ \A ec \in Stacks : d.ctxs[ec] = -1
    BY DEF dg_bbdef_new, NoContext, Def
  <1>2. bbdefs' = Append(bbdefs, d)
    OBVIOUS
  <1> HIDE DEF d
  <1>3. /\ bbdefs' \in Seq(Def)
        /\ Len(bbdefs) \in Nat /\ DOMAIN bbdefs = 1..Len(bbdefs)
        /\ Len(bbdefs') = Len(bbdefs) + 1 /\ bbdefs'[Len(bbdefs) + 1] = d
        /\ \A b \in 1..Len(bbdefs) : bbdefs'[b] = bbdefs[b]
        /\ DOMAIN bbdefs' = 1..(Len(bbdefs) + 1)
    BY <1>1, <1>2, Appended DEF TypeOK
  <1>4. TypeOK'
    <2>1. dgsbs' \in [Keys -> Seq(Nat \ {0})]
      BY <1>3 DEF TypeOK
    <2>2. bbdefs' # <<>> /\ sbOut' \in Code
      BY <1>3 DEF Code
    <2> QED BY <1>3, <2>1, <2>2 DEF TypeOK
  <1>5. WellReferenced'
    BY DEF WellReferenced
  <1>6. Counters'
    <2>1. Len(defAt) \in Nat /\ Len(ctxAt) \in Nat
      BY DEF TypeOK, Positions
    <2> QED BY <1>1, <1>3, <2>1 DEF Counters
  <1>7. Owned'
    BY <1>1, <1>3 DEF Owned, TypeOK
  <1>8. Pending'
    BY DEF Pending
  <1>9. \A j \in Keys : tt'[j] # <<>> => Translated(j)'
    BY <1>3 DEF Translated
  <1>10. Instrumenting'
    <2>1. bbd' = d
      BY <1>3 DEF bbd
    <2>2. bbdefs' # <<>> /\ tt'[cur'] = <<>> /\ DOMAIN sbOut' = {}
      BY <1>3
    <2> QED BY <1>1, <2>1, <2>2, BlocksAssumption DEF Instrumenting
  <1> QED BY <1>4, <1>5, <1>6, <1>7, <1>8, <1>9, <1>10 DEF RefInv

\* dg_instrument adds one statement: the newest definition changes only in its
\* instructions and accesses, and the statement belongs to it.
LEMMA AddStatement ==
  ASSUME RefInv, mode = "instr",
         UNCHANGED <<log, dgsbs, global_bbdef_index, defAt, traceVars, ghostVars,
                     tt, mode, cur, pc>>,
         NEW e \in Def, bbdefs' = [bbdefs EXCEPT ![Len(bbdefs)] = e],
         e.at = bbd.at, e.live = bbd.live, e.index = bbd.index, e.ctxs = bbd.ctxs,
         insns' \in Nat, insns' = e.n, 0 < insns', insns' <= GuestMaxInsns,
         NEW s \in Statement, sbOut' = Append(sbOut, s),
         s.bbd = Len(bbdefs), s.kind # "end",
         sbOut = <<>> => s.kind = "imark" /\ s.n = 1
  PROVE  RefInv'
  <1> /\ TypeOK /\ WellReferenced /\ Counters /\ Owned /\ Pending
      /\ \A j \in Keys : tt[j] # <<>> => Translated(j)
      /\ Instrumenting
    BY DEF RefInv
  <1>1. /\ bbdefs \in Seq(Def) /\ DOMAIN bbdefs = 1..Len(bbdefs) /\ Len(bbdefs) \in Nat
        /\ Len(bbdefs) > 0
    BY DEF TypeOK, Instrumenting
  <1>2. /\ bbdefs' \in Seq(Def) /\ DOMAIN bbdefs' = DOMAIN bbdefs
        /\ Len(bbdefs') = Len(bbdefs) /\ bbdefs'[Len(bbdefs)] = e
        /\ \A b \in DOMAIN bbdefs : b # Len(bbdefs) => bbdefs'[b] = bbdefs[b]
    BY <1>1
  <1>3. \A b \in DOMAIN bbdefs : /\ bbdefs'[b].at = bbdefs[b].at
                                 /\ bbdefs'[b].live = bbdefs[b].live
                                 /\ bbdefs'[b].index = bbdefs[b].index
                                 /\ bbdefs'[b].ctxs = bbdefs[b].ctxs
    BY <1>1, <1>2 DEF bbd
  <1>4. /\ sbOut \in Seq(Statement) /\ sbOut' \in Code /\ Len(sbOut) \in Nat
        /\ DOMAIN sbOut = 1..Len(sbOut) /\ DOMAIN sbOut' = 1..(Len(sbOut) + 1)
        /\ sbOut'[Len(sbOut) + 1] = s
        /\ \A j \in 1..Len(sbOut) : sbOut'[j] = sbOut[j]
    BY Appended DEF TypeOK, Code
  <1>5. TypeOK'
    BY <1>1, <1>2, <1>4 DEF TypeOK
  <1>6. WellReferenced' /\ Pending'
    BY DEF WellReferenced, Pending
  <1>7. Counters' /\ Owned'
    BY <1>2, <1>3 DEF Counters, Owned, TypeOK
  <1>8. \A j \in Keys : tt'[j] # <<>> => Translated(j)'
    BY <1>2, <1>3 DEF Translated
  <1>9. Instrumenting'
    <2>1. bbd' = e /\ bbdefs' # <<>> /\ tt'[cur'] = <<>> /\ sbOut' # <<>>
      BY <1>1, <1>2, <1>4 DEF bbd, Instrumenting
    <2>2. Begins(sbOut', Len(bbdefs'))
      <3>1. CASE sbOut = <<>>
        BY <1>2, <1>4, <2>1, <3>1 DEF Begins
      <3>2. CASE sbOut # <<>>
        <4>1. Begins(sbOut, Len(bbdefs)) /\ 1 \in 1..Len(sbOut)
          BY <1>4, <3>2 DEF Instrumenting
        <4> QED BY <1>2, <1>4, <2>1, <4>1 DEF Begins
      <3> QED BY <3>1, <3>2
    <2>3. \A j \in DOMAIN sbOut' : sbOut'[j].kind # "end"
      BY <1>4 DEF Instrumenting
    <2> QED BY <2>1, <2>2, <2>3 DEF Instrumenting
  <1> QED BY <1>5, <1>6, <1>7, <1>8, <1>9 DEF RefInv

\* dg_bbdef_add_instr, in a definition with room: the full one is out of VEX's reach.
LEMMA StepAddInstr == RefInv /\ AddInstr => RefInv'
  <1> SUFFICES ASSUME RefInv, AddInstr PROVE RefInv'
    OBVIOUS
  <1>1. TypeOK /\ Instrumenting /\ mode = "instr"
    BY DEF RefInv, AddInstr
  <1>2. bbd \in Def /\ Len(bbdefs) \in Nat \ {0}
    BY <1>1 DEF TypeOK, Instrumenting, bbd
  <1>3. bbd.n # MaxDefInstrs /\ insns < GuestMaxInsns /\ insns = bbd.n
    BY <1>1, BlocksAssumption DEF Instrumenting, AddInstr, TypeOK
  <1> DEFINE e == [bbd EXCEPT !.n = @ + 1]
             s == Stmt("imark", Len(bbdefs), bbd.n + 1, Len(bbd.accs), <<>>, "none")
  <1>4. /\ e \in Def /\ e.at = bbd.at /\ e.live = bbd.live /\ e.index = bbd.index
        /\ e.ctxs = bbd.ctxs /\ e.n = bbd.n + 1
    BY <1>2 DEF Def
  <1>5. /\ s \in Statement /\ s.bbd = Len(bbdefs) /\ s.kind = "imark"
        /\ s.n = bbd.n + 1
    BY <1>2 DEF Def, Statement, Stmt, Guards
  <1>6. /\ bbdefs' = [bbdefs EXCEPT ![Len(bbdefs)] = e] /\ sbOut' = Append(sbOut, s)
        /\ insns' = insns + 1
        /\ UNCHANGED <<log, defAt, global_bbdef_index, dgsbs, traceVars, ghostVars, tt,
                       mode, cur, pc>>
    BY <1>3 DEF AddInstr, dg_bbdef_add_instr, bbd
  <1>7. insns \in Nat /\ (sbOut = <<>> => bbd.n = 0)
    BY <1>1, <1>3 DEF TypeOK, Instrumenting
  <1> HIDE DEF e, s
  <1>8. insns' \in Nat /\ insns' = e.n /\ 0 < insns' /\ insns' <= GuestMaxInsns
    BY <1>3, <1>4, <1>6, <1>7, BlocksAssumption
  <1>9. s.kind # "end" /\ (sbOut = <<>> => s.kind = "imark" /\ s.n = 1)
    BY <1>5, <1>7
  <1> QED BY <1>1, <1>4, <1>5, <1>6, <1>8, <1>9, AddStatement

\* dg_bbdef_add_access extends the newest definition.
LEMMA StepAddAccess ==
  ASSUME RefInv, NEW dirs \in Footprints, NEW g \in Guards, AddAccess(dirs, g)
  PROVE  RefInv'
  <1>1. TypeOK /\ Instrumenting /\ mode = "instr" /\ sbOut # <<>>
    BY DEF RefInv, AddAccess
  <1>2. bbd \in Def /\ Len(bbdefs) \in Nat \ {0} /\ bbd.n > 0 /\ bbd.n = insns
        /\ insns \in Nat /\ insns <= GuestMaxInsns
    BY <1>1 DEF TypeOK, Instrumenting, bbd
  <1> DEFINE accs == bbd.accs \o Entries(dirs, bbd.n)
             e == [bbd EXCEPT !.accs = accs]
             s == Stmt("mem", Len(bbdefs), bbd.n, Len(accs), dirs, g)
  <1>3. accs \in Seq(Entry)
    <2>1. dirs \in Seq(Dirs)
      BY FootprintIsSeq
    <2>2. Entries(dirs, bbd.n) \in [1..Len(dirs) -> Entry] /\ Len(dirs) \in Nat
      <3>1. bbd.n - 1 \in Nat /\ \A i \in 1..Len(dirs) : dirs[i] \in Dirs
        BY <1>2, <2>1
      <3>2. \A i \in 1..Len(dirs) : [dir |-> dirs[i], iseq |-> bbd.n - 1] \in Entry
        BY <3>1 DEF Entry
      <3> QED BY <2>1, <3>2 DEF Entries
    <2>3. Entries(dirs, bbd.n) \in Seq(Entry)
      BY <2>2, FunctionIsSeq
    <2> QED BY <1>2, <2>3 DEF Def
  <1> HIDE DEF accs
  <1>4. /\ e \in Def /\ e.at = bbd.at /\ e.live = bbd.live /\ e.index = bbd.index
        /\ e.ctxs = bbd.ctxs /\ e.n = bbd.n
    BY <1>2, <1>3 DEF Def
  <1>5. s \in Statement /\ s.bbd = Len(bbdefs) /\ s.kind = "mem"
    BY <1>2, <1>3 DEF Def, Statement, Stmt, Guards
  <1>6. /\ bbdefs' = [bbdefs EXCEPT ![Len(bbdefs)] = e] /\ sbOut' = Append(sbOut, s)
        /\ UNCHANGED <<log, defAt, global_bbdef_index, dgsbs, traceVars, ghostVars, tt,
                       mode, cur, pc, insns>>
    BY DEF AddAccess, dg_bbdef_add_access, bbd, accs
  <1> HIDE DEF e, s
  <1> QED BY <1>1, <1>2, <1>4, <1>5, <1>6, AddStatement

\* A side exit adds a statement and changes no definition.
LEMMA StepAddExit == RefInv /\ AddExit => RefInv'
  <1> SUFFICES ASSUME RefInv, AddExit PROVE RefInv'
    OBVIOUS
  <1>1. TypeOK /\ Instrumenting /\ mode = "instr" /\ sbOut # <<>>
    BY DEF RefInv, AddExit
  <1>2. bbd \in Def /\ Len(bbdefs) \in Nat \ {0} /\ bbd.n > 0 /\ bbd.n = insns
        /\ insns \in Nat /\ insns <= GuestMaxInsns
    BY <1>1 DEF TypeOK, Instrumenting, bbd
  <1> DEFINE s == Stmt("exit", Len(bbdefs), bbd.n, Len(bbd.accs), <<>>, "none")
  <1>3. s \in Statement /\ s.bbd = Len(bbdefs) /\ s.kind = "exit"
    BY <1>2 DEF Def, Statement, Stmt, Guards
  <1>4. /\ bbdefs' = [bbdefs EXCEPT ![Len(bbdefs)] = bbd]
        /\ sbOut' = Append(sbOut, s)
        /\ UNCHANGED <<log, defAt, global_bbdef_index, dgsbs, traceVars, ghostVars, tt,
                       mode, cur, pc, insns>>
    BY <1>1 DEF AddExit, dg_bbdef_update_instrs, bbd, TypeOK
  <1> HIDE DEF s
  <1> QED BY <1>1, <1>2, <1>3, <1>4, AddStatement

\* The definition is written, gets its ordinal, and the code becomes runnable.
LEMMA StepInstrumentEnd == RefInv /\ InstrumentEnd => RefInv'
  <1> SUFFICES ASSUME RefInv, InstrumentEnd PROVE RefInv'
    OBVIOUS
  <1> /\ TypeOK /\ WellReferenced /\ Counters /\ Owned /\ Pending
      /\ \A j \in Keys : tt[j] # <<>> => Translated(j)
      /\ Instrumenting /\ mode = "instr" /\ sbOut # <<>> /\ cur \in Keys
    BY DEF RefInv, InstrumentEnd, TypeOK
  <1>1. /\ bbdefs \in Seq(Def) /\ DOMAIN bbdefs = 1..Len(bbdefs)
        /\ Len(bbdefs) \in Nat \ {0} /\ bbd \in Def /\ bbd.n > 0 /\ bbd.at = cur
        /\ Len(defAt) \in Nat /\ Len(ctxAt) \in Nat
        /\ global_bbdef_index = Len(defAt)
    BY DEF TypeOK, Instrumenting, bbd, Positions, Counters
  <1> DEFINE e == Flushed(bbd)
             r == BBDEF(bbd.at, bbd.n, bbd.accs)
             s == Stmt("end", Len(bbdefs), bbd.n, Len(bbd.accs), <<>>, "none")
  <1>2. /\ e \in Def /\ e.at = cur /\ e.live /\ e.index = Len(defAt)
        /\ e.ctxs = bbd.ctxs
    <2>1. e = [bbd EXCEPT !.index = Len(defAt), !.n = 0, !.accs = <<>>]
      BY <1>1 DEF Flushed
    <2>2. e \in Def
      <3>1. <<>> \in Seq(Entry) /\ Len(defAt) \in Nat \cup {-1} /\ 0 \in Nat
        BY <1>1
      <3>2. e = [at |-> bbd.at, index |-> Len(defAt), n |-> 0, accs |-> <<>>,
                 live |-> bbd.live, ctxs |-> bbd.ctxs]
        BY <1>1, <2>1 DEF Def
      <3>3. bbd.at \in Keys /\ bbd.live \in BOOLEAN
            /\ bbd.ctxs \in [Stacks -> Nat \cup {NoContext}]
        BY <1>1 DEF Def
      <3> QED BY <3>1, <3>2, <3>3 DEF Def
    <2>3. /\ e.at = bbd.at /\ e.live = bbd.live /\ e.index = Len(defAt)
          /\ e.ctxs = bbd.ctxs
      BY <1>1, <2>1 DEF Def
    <2> QED BY <1>1, <2>2, <2>3 DEF Instrumenting
  <1>3. r \in Record /\ r.type = "BBDEF"
    BY <1>1 DEF BBDEF, Record, Def
  <1>4. s \in Statement /\ s.bbd = Len(bbdefs) /\ s.kind = "end"
    BY <1>1 DEF Stmt, Statement, Def, Guards
  <1>5. /\ log' = Append(log, r) /\ defAt' = Append(defAt, Len(log) + 1)
        /\ global_bbdef_index' = global_bbdef_index + 1
    BY <1>1 DEF dg_bbdef_flush, InstrumentEnd
  <1>6. /\ bbdefs' = [bbdefs EXCEPT ![Len(bbdefs)] = e]
        /\ tt' = [tt EXCEPT ![cur] = Append(sbOut, s)]
        /\ mode' = "sched" /\ cur' = "none" /\ sbOut' = <<>> /\ insns' = 0
        /\ UNCHANGED <<dgsbs, traceVars, ghostVars, pc>>
    BY DEF InstrumentEnd, dg_bbdef_update_instrs
  <1> HIDE DEF e, r, s
  <1>7. File(log', defAt', ctxAt', runAt')
    BY <1>3, <1>5, <1>6, FileInv, AppendDef
  <1>8. Len(defAt') = Len(defAt) + 1
    BY <1>5, Appended DEF TypeOK, Positions
  <1>9. /\ bbdefs' \in Seq(Def) /\ DOMAIN bbdefs' = DOMAIN bbdefs
        /\ Len(bbdefs') = Len(bbdefs) /\ bbdefs'[Len(bbdefs)] = e
        /\ \A b \in DOMAIN bbdefs : b # Len(bbdefs) => bbdefs'[b] = bbdefs[b]
    BY <1>1, <1>2, <1>6
  <1>10. /\ tt' \in [Keys -> Code] /\ tt'[cur] = Append(sbOut, s)
         /\ \A j \in Keys : j # cur => tt'[j] = tt[j]
    BY <1>4, <1>6 DEF TypeOK, Code
  <1>11. TypeOK'
    <2>1. sbOut' \in Code
      BY <1>6 DEF Code
    <2> QED BY <1>1, <1>5, <1>6, <1>7, <1>9, <1>10, <2>1 DEF TypeOK, File
  <1>12. WellReferenced' /\ Pending'
    BY <1>6, <1>7 DEF WellReferenced, File, Pending
  <1>13. Counters'
    <2>1. ASSUME NEW b \in DOMAIN bbdefs PROVE bbdefs[b].index \in Int
      <3>1. bbdefs[b] \in Def
        BY <1>1
      <3> QED BY <3>1 DEF Def
    <2> QED BY <1>1, <1>2, <1>5, <1>6, <1>8, <1>9, <2>1 DEF Counters, bbd
  <1>14. Owned'
    BY <1>1, <1>2, <1>6, <1>9 DEF Owned, bbd
  <1>15. ASSUME NEW j \in Keys, tt'[j] # <<>> PROVE Translated(j)'
    <2>1. CASE j # cur
      <3>1. Translated(j) /\ tt'[j] = tt[j] /\ bbd.at # j
        BY <1>1, <1>10, <1>15, <2>1
      <3> QED BY <1>2, <1>9, <3>1 DEF Translated, bbd
    <2>2. CASE j = cur
      <3>1. /\ sbOut \in Seq(Statement) /\ Len(sbOut) \in Nat \ {0}
            /\ DOMAIN sbOut = 1..Len(sbOut) /\ DOMAIN tt'[j] = 1..(Len(sbOut) + 1)
            /\ tt'[j][Len(sbOut) + 1] = s /\ Len(tt'[j]) = Len(sbOut) + 1
            /\ \A i \in 1..Len(sbOut) : tt'[j][i] = sbOut[i]
        <4>1. sbOut \in Seq(Statement)
          BY DEF TypeOK, Code
        <4>2. Len(sbOut) \in Nat \ {0}
          BY <4>1
        <4> QED BY <1>4, <1>10, <2>2, <4>1, <4>2, Appended
      <3>2. Begins(sbOut, Len(bbdefs)) /\ \A i \in DOMAIN sbOut : sbOut[i].kind # "end"
        BY DEF Instrumenting
      <3>3. Begins(tt'[j], Len(bbdefs)) /\ tt'[j][1].bbd = Len(bbdefs)
        BY <1>4, <1>15, <3>1, <3>2 DEF Begins
      <3>4. \A i \in DOMAIN tt'[j] : tt'[j][i].kind = "end" <=> i = Len(tt'[j])
        BY <1>4, <3>1, <3>2
      <3> QED BY <1>1, <1>2, <1>9, <2>2, <3>3, <3>4 DEF Translated
    <2> QED BY <2>1, <2>2
  <1> QED BY <1>6, <1>11, <1>12, <1>13, <1>14, <1>15 DEF RefInv

\* Freeing the definitions of k leaves those of the other keys alone.
LEMMA StepDiscard ==
  ASSUME RefInv, NEW k \in Keys, dg_discard_superblock_info(k)
  PROVE  RefInv'
  <1> /\ TypeOK /\ WellReferenced /\ Counters /\ Owned /\ Pending
      /\ \A j \in Keys : tt[j] # <<>> => Translated(j)
    BY DEF RefInv
  <1> DEFINE freed(b) == \E i \in DOMAIN dgsbs[k] : dgsbs[k][i] = b
             none == [ec \in Stacks |-> NoContext]
  <1>0. /\ mode = "sched" /\ tt' = [tt EXCEPT ![k] = <<>>]
        /\ dgsbs' = [dgsbs EXCEPT ![k] = <<>>]
        /\ UNCHANGED <<log, global_bbdef_index, defAt, sbOut, insns, traceVars,
                       ghostVars, mode, cur, pc>>
    BY DEF dg_discard_superblock_info
  <1>1. bbdefs \in Seq(Def) /\ DOMAIN bbdefs = 1..Len(bbdefs) /\ Len(bbdefs) \in Nat
    BY DEF TypeOK
  <1>2. \A b \in DOMAIN bbdefs :
          bbdefs'[b] = IF freed(b) THEN [bbdefs[b] EXCEPT !.live = FALSE, !.ctxs = none]
                       ELSE bbdefs[b]
    BY DEF dg_discard_superblock_info
  <1>3. ASSUME NEW b \in DOMAIN bbdefs
        PROVE  /\ bbdefs'[b] \in Def
               /\ bbdefs'[b].at = bbdefs[b].at
               /\ bbdefs'[b].index = bbdefs[b].index
               /\ bbdefs'[b].ctxs = bbdefs[b].ctxs \/ bbdefs'[b].ctxs = none
    <2>1. bbdefs[b] \in Def
      BY <1>1
    <2>2. none \in [Stacks -> Nat \cup {NoContext}]
      OBVIOUS
    <2> HIDE DEF none
    <2>3. CASE freed(b)
      <3>1. bbdefs'[b] = [bbdefs[b] EXCEPT !.live = FALSE, !.ctxs = none]
        BY <1>2, <2>3
      <3> QED BY <2>1, <2>2, <3>1 DEF Def
    <2>4. CASE ~freed(b)
      BY <1>2, <2>1, <2>4
    <2> QED BY <2>3, <2>4
  <1>4. bbdefs' \in Seq(Def) /\ DOMAIN bbdefs' = DOMAIN bbdefs /\ Len(bbdefs') = Len(bbdefs)
    <2>1. bbdefs' \in [1..Len(bbdefs) -> Def]
      BY <1>1, <1>3 DEF dg_discard_superblock_info
    <2> QED BY <1>1, <2>1, FunctionIsSeq
  <1>5. ASSUME NEW b \in DOMAIN bbdefs, bbdefs[b].at # k PROVE bbdefs'[b] = bbdefs[b]
    <2>1. ~freed(b)
      BY <1>5 DEF Owned
    <2> QED BY <1>2, <2>1
  <1>6. TypeOK'
    <2>1. tt' \in [Keys -> Code] /\ dgsbs' \in [Keys -> Seq(Nat \ {0})]
      BY <1>0 DEF TypeOK, Code
    <2> QED BY <1>0, <1>4, <2>1 DEF TypeOK
  <1>7. WellReferenced' /\ Pending'
    BY <1>0 DEF WellReferenced, Pending
  <1>8. Counters'
    <2>1. Len(ctxAt) \in Nat /\ \A ec \in Stacks : none[ec] < Len(ctxAt)
      BY DEF TypeOK, Positions, NoContext
    <2> HIDE DEF none
    <2> QED BY <1>0, <1>3, <1>4, <2>1 DEF Counters
  <1>9. Owned'
    <2>1. \A j \in Keys : DOMAIN dgsbs'[j] = {} \/ dgsbs'[j] = dgsbs[j]
      BY <1>0 DEF TypeOK
    <2> QED BY <1>3, <1>4, <2>1 DEF Owned
  <1>10. ASSUME NEW j \in Keys, tt'[j] # <<>> PROVE Translated(j)'
    <2>1. j # k /\ tt'[j] = tt[j] /\ Translated(j)
      BY <1>0, <1>10 DEF TypeOK
    <2> QED BY <1>4, <1>5, <2>1 DEF Translated
  <1> QED BY <1>0, <1>6, <1>7, <1>8, <1>9, <1>10 DEF RefInv

\* A step that writes nothing and touches neither code nor definitions.
LEMMA Quiet ==
  ASSUME RefInv, TypeOK', Pending',
         UNCHANGED <<log, instrVars, global_context_index, ctxAt, runAt, tt>>,
         mode' = "instr" => mode = "instr" /\ cur' = cur
  PROVE  RefInv'
  <1> /\ WellReferenced /\ Counters /\ Owned
      /\ \A j \in Keys : tt[j] # <<>> => Translated(j)
      /\ mode = "instr" => Instrumenting
    BY DEF RefInv
  <1>1. WellReferenced' /\ Counters' /\ Owned'
    BY DEF WellReferenced, Counters, Owned
  <1>2. \A j \in Keys : tt'[j] # <<>> => Translated(j)'
    BY DEF Translated
  <1>3. mode' = "instr" => Instrumenting'
    BY DEF Instrumenting, bbd
  <1> QED BY <1>1, <1>2, <1>3 DEF RefInv

\* What a run-time step may rely on.
LEMMA Running ==
  ASSUME RefInv, mode = "run"
  PROVE  /\ cur \in Keys /\ tt[cur] # <<>> /\ tt[cur] \in Seq(Statement)
         /\ pc \in Nat /\ pc \in 1..Len(tt[cur]) /\ stmt \in Statement
         /\ stmt.bbd \in DOMAIN bbdefs /\ bbdefs[stmt.bbd].live
         /\ bbdefs[stmt.bbd].index >= 0 /\ bbdefs[stmt.bbd] \in Def
         /\ stmt.kind # "end" => pc + 1 \in DOMAIN tt[cur]
         /\ pc = 1 => stmt.kind = "imark" /\ stmt.n = 1
         /\ now \in Truth /\ out_bbr \in Bbr
  <1>1. /\ TypeOK /\ cur \in Keys /\ tt[cur] \in Seq(Statement)
        /\ pc \in DOMAIN tt[cur] /\ now \in Truth /\ out_bbr \in Bbr
    BY DEF RefInv, TypeOK, Code
  <1>2. DOMAIN tt[cur] = 1..Len(tt[cur]) /\ Len(tt[cur]) \in Nat
    BY <1>1
  <1>3. tt[cur] # <<>> /\ pc \in Nat /\ pc \in 1..Len(tt[cur]) /\ stmt \in Statement
    BY <1>1, <1>2 DEF stmt
  <1>4. Translated(cur)
    BY <1>1, <1>3 DEF RefInv
  <1>5. stmt.bbd = tt[cur][1].bbd
    BY <1>1, <1>3, <1>4 DEF Translated, Begins, stmt
  <1>6. /\ stmt.bbd \in DOMAIN bbdefs /\ bbdefs[stmt.bbd].live
        /\ bbdefs[stmt.bbd].index >= 0
    BY <1>4, <1>5 DEF Translated
  <1>7. bbdefs[stmt.bbd] \in Def
    BY <1>1, <1>6 DEF TypeOK
  <1>8. stmt.kind # "end" => pc # Len(tt[cur])
    BY <1>1, <1>4 DEF Translated, stmt
  <1>9. pc = 1 => stmt.kind = "imark" /\ stmt.n = 1
    BY <1>4 DEF Translated, Begins, stmt
  <1> QED BY <1>1, <1>2, <1>3, <1>6, <1>7, <1>8, <1>9

\* A failed assertion stops everything where it is.
LEMMA StepUnsupported == RefInv /\ AddUnsupported => RefInv'
  <1> SUFFICES ASSUME RefInv, AddUnsupported PROVE RefInv'
    OBVIOUS
  <1>1. TypeOK' /\ Pending'
    BY DEF RefInv, TypeOK, Pending, AddUnsupported
  <1> QED BY <1>1, Quiet DEF AddUnsupported

\* Entering a translation finds its definitions written and allocated.
LEMMA StepExecute ==
  ASSUME RefInv, NEW k \in Keys, NEW ec \in Stacks, Execute(k, ec)
  PROVE  RefInv'
  <1>1. TypeOK /\ Pending /\ tt[k] \in Seq(Statement) /\ tt[k] # <<>>
    BY DEF RefInv, TypeOK, Execute, Code
  <1>2. 1 \in DOMAIN tt[k]
    BY <1>1
  <1>3. now' \in Truth
    BY DEF Execute, Truth
  <1>4. TypeOK'
    BY <1>1, <1>2, <1>3 DEF TypeOK, Execute
  <1>5. Pending'
    BY <1>1 DEF Pending, Execute
  <1> QED BY <1>4, <1>5, Quiet DEF Execute

\* What a memory statement appends is of the right type.
LEMMA TouchTypes ==
  ASSUME RefInv, mode = "run", stmt.kind = "mem", NEW a \in Addrs
  PROVE  /\ pc > 1 /\ now.n > 0
         /\ [out_bbr EXCEPT !.accs = @ \o Traced(stmt.dirs, a)] \in Bbr
         /\ [now EXCEPT !.accs = @ \o Touched(stmt.dirs, a)] \in Truth
  <1>1. pc > 1 /\ stmt \in Statement /\ now \in Truth /\ out_bbr \in Bbr
    BY Running
  <1>2. now.n > 0 /\ now.n \in Nat /\ now.n - 1 \in Nat
    BY <1>1 DEF RefInv, Pending, Truth
  <1>3. stmt.dirs \in Seq(Dirs)
    <2>1. stmt.dirs \in Footprints \cup {<<>>}
      BY <1>1 DEF Statement
    <2>2. <<>> \in Seq(Dirs)
      OBVIOUS
    <2> QED BY <2>1, <2>2, FootprintIsSeq
  <1>4. Len(stmt.dirs) \in Nat /\ \A i \in 1..Len(stmt.dirs) : stmt.dirs[i] \in Dirs
    BY <1>3
  <1>5. Traced(stmt.dirs, a) \in Seq(Addrs)
    BY <1>4, FunctionIsSeq DEF Traced
  <1>6. Touched(stmt.dirs, a) \in Seq(Touch)
    <2>1. \A i \in 1..Len(stmt.dirs) :
            [dir |-> stmt.dirs[i], iseq |-> now.n - 1, addr |-> a] \in Touch
      BY <1>2, <1>4 DEF Touch
    <2>2. Touched(stmt.dirs, a) \in [1..Len(stmt.dirs) -> Touch]
      BY <2>1 DEF Touched
    <2> QED BY <1>4, <2>2, FunctionIsSeq
  <1>7. out_bbr.accs \in Seq(Addrs) /\ now.accs \in Seq(Touch)
    BY <1>1 DEF Bbr, Truth
  <1>8. /\ out_bbr.accs \o Traced(stmt.dirs, a) \in Seq(Addrs)
        /\ now.accs \o Touched(stmt.dirs, a) \in Seq(Touch)
    BY <1>5, <1>6, <1>7, ConcatProperties
  <1> QED BY <1>1, <1>2, <1>8 DEF Bbr, Truth

\* trace_access adds addresses to out_bbr only.
LEMMA StepAccess ==
  ASSUME RefInv, NEW a \in Addrs, RunAccess(a)
  PROVE  RefInv'
  <1>1. mode = "run" /\ stmt.kind = "mem" /\ TypeOK /\ Pending
    BY DEF RunAccess, RefInv
  <1>2. /\ pc + 1 \in DOMAIN tt[cur] /\ pc \in Nat /\ now.n > 0 /\ pc > 1
        /\ out_bbr' \in Bbr /\ now' \in Truth
        /\ out_bbr \in Bbr /\ now \in Truth
    <2>1. /\ [out_bbr EXCEPT !.accs = @ \o Traced(stmt.dirs, a)] \in Bbr
          /\ [now EXCEPT !.accs = @ \o Touched(stmt.dirs, a)] \in Truth
          /\ now.n > 0 /\ pc > 1
      BY <1>1, TouchTypes
    <2> QED BY <1>1, <2>1, Running DEF RunAccess
  <1>3. now'.n = now.n /\ out_bbr'.ctx = out_bbr.ctx /\ out_bbr'.n = out_bbr.n
    BY <1>2 DEF RunAccess, Bbr, Truth
  <1>4. /\ pc' = pc + 1
        /\ UNCHANGED <<log, instrVars, global_context_index, ctxAt, runAt, happened, tt,
                       mode, cur>>
    BY DEF RunAccess
  <1>5. TypeOK'
    BY <1>1, <1>2, <1>4 DEF TypeOK
  <1>6. Pending'
    BY <1>1, <1>2, <1>3, <1>4 DEF Pending
  <1> QED BY <1>1, <1>4, <1>5, <1>6, Quiet

\* A false guard changes nothing but the program counter.
LEMMA StepSkipped == RefInv /\ RunSkipped => RefInv'
  <1> SUFFICES ASSUME RefInv, RunSkipped PROVE RefInv'
    OBVIOUS
  <1>1. mode = "run" /\ stmt.kind = "mem" /\ TypeOK /\ Pending
    BY DEF RunSkipped, RefInv
  <1>2. pc + 1 \in DOMAIN tt[cur] /\ pc \in Nat /\ pc > 1
    BY <1>1, Running
  <1>3. TypeOK'
    BY <1>1, <1>2 DEF TypeOK, RunSkipped
  <1>4. Pending'
    BY <1>1, <1>2 DEF Pending, RunSkipped
  <1> QED BY <1>1, <1>3, <1>4, Quiet DEF RunSkipped

\* A helper that is not called: its addresses go to out_bbr all the same.
LEMMA StepUntouched ==
  ASSUME RefInv, NEW a \in Addrs, RunUntouched(a)
  PROVE  RefInv'
  <1>1. /\ mode = "run" /\ stmt.kind = "mem" /\ TypeOK /\ Pending
        /\ pc' = pc + 1
        /\ UNCHANGED <<log, instrVars, global_context_index, ctxAt, runAt, ghostVars, tt,
                       mode, cur>>
    BY DEF RunUntouched, RefInv
  <1>2. /\ pc + 1 \in DOMAIN tt[cur] /\ pc \in Nat /\ pc > 1 /\ out_bbr \in Bbr
        /\ out_bbr' \in Bbr
    <2>1. [out_bbr EXCEPT !.accs = @ \o Traced(stmt.dirs, a)] \in Bbr /\ pc > 1
      BY <1>1, TouchTypes
    <2> QED BY <1>1, <2>1, Running DEF RunUntouched
  <1>3. out_bbr'.ctx = out_bbr.ctx /\ out_bbr'.n = out_bbr.n
    BY <1>2 DEF RunUntouched, Bbr
  <1>4. TypeOK'
    BY <1>1, <1>2 DEF TypeOK
  <1>5. Pending'
    BY <1>1, <1>2, <1>3 DEF Pending
  <1> QED BY <1>1, <1>4, <1>5, Quiet

\* Leaving a superblock by an exit, its end, a fault or a trap: out_bbr keeps
\* its context and its count is valid or as before.
LEMMA LeaveStep ==
  ASSUME RefInv, mode = "run", pc > 1, Leave, out_bbr' \in Bbr,
         out_bbr'.ctx = out_bbr.ctx,
         UNCHANGED <<log, instrVars, global_context_index, ctxAt, runAt, tt>>
  PROVE  RefInv'
  <1>1. TypeOK /\ Pending /\ now \in Truth
    BY Running DEF RefInv
  <1>2. happened' \in Seq(Truth)
    BY <1>1 DEF Leave, TypeOK
  <1>3. TypeOK'
    BY <1>1, <1>2 DEF TypeOK, Leave
  <1>4. Pending'
    BY <1>1 DEF Pending, Leave
  <1> QED BY <1>3, <1>4, Quiet DEF Leave

\* The ways out of a superblock: an exit or the end, a fault, a trap.
LEMMA StepLeave ==
  ASSUME RefInv, RunLeave \/ RunTrap \/ \E a \in Addrs : RunFault(a)
  PROVE  RefInv'
  <1>1. CASE RunLeave
    <2>1. mode = "run" /\ pc > 1 /\ stmt \in Statement /\ out_bbr \in Bbr
      BY <1>1, Running DEF RunLeave, trace_update_instrs
    <2>2. out_bbr' \in Bbr /\ out_bbr'.ctx = out_bbr.ctx
      BY <1>1, <2>1 DEF RunLeave, trace_update_instrs, Bbr, Statement
    <2> QED BY <1>1, <2>1, <2>2, LeaveStep DEF RunLeave, trace_update_instrs
  <1>2. CASE RunTrap
    <2>1. mode = "run" /\ pc > 1 /\ out_bbr \in Bbr
      BY <1>2, Running DEF RunTrap
    <2> QED BY <1>2, <2>1, LeaveStep DEF RunTrap
  <1>3. CASE \E a \in Addrs : RunFault(a)
    <2>1. PICK a \in Addrs : RunFault(a)
      BY <1>3
    <2>2. mode = "run" /\ stmt.kind = "mem"
      BY <2>1 DEF RunFault
    <2>3. pc > 1 /\ out_bbr' \in Bbr /\ out_bbr'.ctx = out_bbr.ctx
      BY <2>1, <2>2, TouchTypes, Running DEF RunFault, Bbr
    <2> QED BY <2>1, <2>2, <2>3, LeaveStep DEF RunFault
  <1> QED BY <1>1, <1>2, <1>3

\* A side exit that is not taken sets the count of the run.
LEMMA StepStay == RefInv /\ RunStay => RefInv'
  <1> SUFFICES ASSUME RefInv, RunStay PROVE RefInv'
    OBVIOUS
  <1>1. mode = "run" /\ stmt.kind = "exit" /\ TypeOK /\ Pending
    BY DEF RunStay, trace_update_instrs, RefInv
  <1>2. /\ pc + 1 \in DOMAIN tt[cur] /\ pc \in Nat /\ pc > 1
        /\ stmt \in Statement /\ out_bbr \in Bbr
    BY <1>1, Running
  <1>3. out_bbr' \in Bbr /\ out_bbr'.ctx = out_bbr.ctx
    BY <1>2 DEF RunStay, trace_update_instrs, Bbr, Statement
  <1>4. TypeOK'
    BY <1>1, <1>2, <1>3 DEF TypeOK, RunStay, trace_update_instrs
  <1>5. Pending'
    BY <1>1, <1>2, <1>3 DEF Pending, RunStay, trace_update_instrs
  <1> QED BY <1>1, <1>4, <1>5, Quiet DEF RunStay, trace_update_instrs

\* trace_bb_flush writes a run whose context is in the file.
LEMMA FlushFile ==
  ASSUME RefInv
  PROVE  File(FlushedLog, defAt, ctxAt, FlushedRunAt)
  <1>1. File(log, defAt, ctxAt, runAt) /\ Pending /\ out_bbr \in Bbr
    BY FileInv DEF RefInv, TypeOK
  <1>2. CASE out_bbr.n > 0
    <2>1. Len(ctxAt) \in Nat /\ DOMAIN ctxAt = 1..Len(ctxAt)
      BY <1>1 DEF File, Positions
    <2>2. out_bbr.ctx + 1 \in DOMAIN ctxAt
      BY <1>1, <1>2, <2>1 DEF Pending, Bbr
    <2>3. BBRUN(out_bbr) \in Record
      BY <1>1 DEF BBRUN, Record, Bbr
    <2>4. BBRUN(out_bbr).type = "BBRUN" /\ BBRUN(out_bbr).ctx = out_bbr.ctx
      BY DEF BBRUN
    <2> QED BY <1>1, <1>2, <2>2, <2>3, <2>4, AppendRun DEF FlushedLog, FlushedRunAt
  <1>3. CASE ~(out_bbr.n > 0)
    BY <1>1, <1>3 DEF FlushedLog, FlushedRunAt
  <1> QED BY <1>2, <1>3

\* The record of a client request disturbs no reference.
LEMMA StepEvent == RefInv /\ dg_handle_client_request => RefInv'
  <1> SUFFICES ASSUME RefInv, dg_handle_client_request PROVE RefInv'
    OBVIOUS
  <1> /\ TypeOK /\ Counters /\ Owned /\ Pending
      /\ \A j \in Keys : tt[j] # <<>> => Translated(j)
    BY DEF RefInv
  <1>1. /\ mode = "sched" /\ log' = Append(log, EVENT)
        /\ UNCHANGED <<instrVars, traceVars, ghostVars, tt, mode, cur, pc>>
    BY DEF dg_handle_client_request
  <1>2. EVENT \in Record /\ EVENT.type = "EVENT"
    <2>1. Len(happened) \in Nat
      BY DEF TypeOK
    <2> QED BY <2>1 DEF EVENT, Record
  <1>3. File(log', defAt', ctxAt', runAt')
    BY <1>1, <1>2, FileInv, AppendEvent
  <1>4. TypeOK'
    BY <1>1, <1>3 DEF TypeOK, File
  <1>5. WellReferenced' /\ Pending'
    BY <1>1, <1>3 DEF WellReferenced, File, Pending
  <1>6. Counters' /\ Owned'
    BY <1>1 DEF Counters, Owned
  <1>7. \A j \in Keys : tt'[j] # <<>> => Translated(j)'
    BY <1>1 DEF Translated
  <1> QED BY <1>1, <1>4, <1>5, <1>6, <1>7 DEF RefInv

\* dg_fini writes the last run, or fails its assertion.
LEMMA StepFini == RefInv /\ dg_fini => RefInv'
  <1> SUFFICES ASSUME RefInv, dg_fini PROVE RefInv'
    OBVIOUS
  <1> /\ TypeOK /\ Counters /\ Owned /\ Pending
      /\ \A j \in Keys : tt[j] # <<>> => Translated(j)
    BY DEF RefInv
  <1>1. CASE FlushFails
    <2>1. TypeOK' /\ Pending'
      BY <1>1 DEF TypeOK, Pending, dg_fini
    <2> QED BY <1>1, <2>1, Quiet DEF dg_fini
  <1>2. CASE ~FlushFails
    <2>1. /\ mode' = "done" /\ log' = FlushedLog /\ runAt' = FlushedRunAt
          /\ out_bbr' = [out_bbr EXCEPT !.n = 0, !.accs = <<>>]
          /\ UNCHANGED <<instrVars, global_context_index, ctxAt, ghostVars, tt, cur, pc>>
      BY <1>2 DEF dg_fini
    <2>2. File(log', defAt', ctxAt', runAt')
      BY <2>1, FlushFile
    <2>3. out_bbr' \in Bbr /\ out_bbr'.n = 0
      <3>1. out_bbr \in Bbr /\ <<>> \in Seq(Addrs)
        BY DEF TypeOK
      <3> QED BY <2>1, <3>1 DEF Bbr
    <2>4. TypeOK'
      BY <2>1, <2>2, <2>3 DEF TypeOK, File
    <2>5. WellReferenced' /\ Pending'
      BY <2>1, <2>2, <2>3 DEF WellReferenced, File, Pending
    <2>6. Counters' /\ Owned'
      BY <2>1 DEF Counters, Owned
    <2>7. \A j \in Keys : tt'[j] # <<>> => Translated(j)'
      BY <2>1 DEF Translated
    <2> QED BY <2>1, <2>4, <2>5, <2>6, <2>7 DEF RefInv
  <1> QED BY <1>1, <1>2

\* trace_bb_start: the context that the run will name is in the file when it
\* returns, found or newly written.
LEMMA StartFile ==
  ASSUME RefInv, mode = "run", trace_bb_start(stmt.bbd),
         UNCHANGED <<global_bbdef_index, defAt>>
  PROVE  /\ File(log', defAt', ctxAt', runAt')
         /\ out_bbr' \in Bbr /\ out_bbr'.ctx < Len(ctxAt') /\ out_bbr'.n = 0
         /\ bbdefs' \in Seq(Def) /\ DOMAIN bbdefs' = DOMAIN bbdefs
         /\ Len(bbdefs') = Len(bbdefs)
         /\ \A b \in DOMAIN bbdefs : /\ bbdefs'[b].at = bbdefs[b].at
                                      /\ bbdefs'[b].live = bbdefs[b].live
                                      /\ bbdefs'[b].index = bbdefs[b].index
         /\ Counters'
  <1> DEFINE b == stmt.bbd
             ec == now.stack
  <1>1. /\ File(FlushedLog, defAt, ctxAt, FlushedRunAt) /\ TypeOK /\ Counters
        /\ b \in DOMAIN bbdefs /\ bbdefs[b] \in Def /\ bbdefs[b].index >= 0
        /\ ec \in Stacks /\ bbdefs \in Seq(Def)
    <2>1. now \in Truth /\ b \in DOMAIN bbdefs /\ bbdefs[b] \in Def
          /\ bbdefs[b].index >= 0
      BY Running
    <2> QED BY <2>1, FlushFile DEF RefInv, TypeOK, Truth
  <1>2. Len(defAt) \in Nat /\ Len(ctxAt) \in Nat /\ DOMAIN defAt = 1..Len(defAt)
    BY <1>1 DEF TypeOK, Positions
  <1>3. bbdefs[b].ctxs[ec] \in Nat \cup {-1} /\ bbdefs[b].index \in Nat
    BY <1>1 DEF Def, NoContext
  <1>4. CASE bbdefs[b].ctxs[ec] # NoContext
    <2>1. /\ log' = FlushedLog /\ runAt' = FlushedRunAt /\ bbdefs' = bbdefs /\ ctxAt' = ctxAt
          /\ global_context_index' = global_context_index
          /\ out_bbr' = [ctx |-> bbdefs[b].ctxs[ec], n |-> 0, accs |-> <<>>]
      BY <1>4 DEF trace_bb_start
    <2>2. out_bbr' \in Bbr /\ out_bbr'.ctx = bbdefs[b].ctxs[ec] /\ out_bbr'.n = 0
      BY <1>3, <1>4, <2>1 DEF Bbr, NoContext
    <2>3. Counters'
      BY <1>1, <2>1 DEF Counters
    <2> QED BY <1>1, <2>1, <2>2, <2>3 DEF Counters
  <1>5. CASE bbdefs[b].ctxs[ec] = NoContext
    <2> DEFINE r == CONTEXT(bbdefs[b].index, ec)
               c == [bbdefs[b].ctxs EXCEPT ![ec] = global_context_index]
               e == [bbdefs[b] EXCEPT !.ctxs = c]
    <2>1. /\ log' = Append(FlushedLog, r) /\ runAt' = FlushedRunAt
          /\ ctxAt' = Append(ctxAt, Len(FlushedLog) + 1)
          /\ global_context_index' = global_context_index + 1
          /\ bbdefs' = [bbdefs EXCEPT ![b] = e]
          /\ out_bbr' = [ctx |-> global_context_index, n |-> 0, accs |-> <<>>]
      BY <1>5 DEF trace_bb_start
    <2>2. r \in Record /\ r.type = "CONTEXT" /\ r.bbdef + 1 \in DOMAIN defAt
      <3>1. bbdefs[b].index + 1 \in DOMAIN defAt
        BY <1>1, <1>2, <1>3 DEF Counters
      <3> QED BY <1>1, <1>3, <3>1 DEF CONTEXT, Record
    <2>3. /\ c \in [Stacks -> Nat \cup {NoContext}]
          /\ \A x \in Stacks : c[x] < Len(ctxAt) + 1
      <3>1. bbdefs[b].ctxs \in [Stacks -> Nat \cup {NoContext}]
        BY <1>1 DEF Def
      <3>2. global_context_index \in Nat /\ global_context_index = Len(ctxAt)
        BY <1>1, <1>2 DEF Counters
      <3>3. \A x \in Stacks : bbdefs[b].ctxs[x] < Len(ctxAt)
        BY <1>1 DEF Counters
      <3>4. c \in [Stacks -> Nat \cup {NoContext}]
        BY <3>1, <3>2
      <3>5. ASSUME NEW x \in Stacks PROVE c[x] < Len(ctxAt) + 1
        <4>1. c[x] = IF x = ec THEN Len(ctxAt) ELSE bbdefs[b].ctxs[x]
          BY <3>1, <3>2
        <4>2. bbdefs[b].ctxs[x] \in Int
          BY <3>1 DEF NoContext
        <4> HIDE DEF c
        <4> QED BY <1>2, <3>3, <4>1, <4>2
      <3> QED BY <3>4, <3>5
    <2> HIDE DEF c, r
    <2>4. /\ e \in Def /\ e.at = bbdefs[b].at /\ e.live = bbdefs[b].live
          /\ e.index = bbdefs[b].index /\ e.ctxs = c
      BY <1>1, <2>3 DEF Def
    <2> HIDE DEF e
    <2>5. File(log', defAt', ctxAt', runAt')
      BY <1>1, <2>1, <2>2, AppendContext
    <2>6. Len(ctxAt') = Len(ctxAt) + 1
      BY <1>1, <1>2, <2>1 DEF File, Positions
    <2>7. /\ out_bbr' \in Bbr /\ out_bbr'.ctx = global_context_index /\ out_bbr'.n = 0
      BY <1>1, <2>1 DEF Bbr, TypeOK
    <2>8. /\ bbdefs' \in Seq(Def) /\ DOMAIN bbdefs' = DOMAIN bbdefs
          /\ Len(bbdefs') = Len(bbdefs) /\ bbdefs'[b] = e
          /\ \A x \in DOMAIN bbdefs : x # b => bbdefs'[x] = bbdefs[x]
      BY <1>1, <2>1, <2>4
    <2>9. Counters'
      <3>1. global_bbdef_index' = Len(defAt') /\ global_context_index' = Len(ctxAt')
        BY <1>1, <2>1, <2>6 DEF Counters
      <3>2. ASSUME NEW x \in DOMAIN bbdefs'
            PROVE  /\ bbdefs'[x].index < Len(defAt')
                   /\ \A y \in Stacks : bbdefs'[x].ctxs[y] < Len(ctxAt')
        <4>1. CASE x = b
          BY <1>1, <2>3, <2>4, <2>6, <2>8, <4>1 DEF Counters
        <4>2. CASE x # b
          <5>1. bbdefs[x] \in Def /\ bbdefs'[x] = bbdefs[x]
            BY <1>1, <2>8, <4>2
          <5>2. \A y \in Stacks : bbdefs[x].ctxs[y] \in Int
            BY <5>1 DEF Def, NoContext
          <5> QED BY <1>1, <1>2, <2>6, <2>8, <5>1, <5>2 DEF Counters
        <4> QED BY <4>1, <4>2
      <3> QED BY <3>1, <3>2 DEF Counters
    <2>10. global_context_index < Len(ctxAt')
      BY <1>1, <1>2, <2>6 DEF Counters
    <2> QED BY <2>4, <2>5, <2>7, <2>8, <2>9, <2>10
  <1> QED BY <1>4, <1>5

\* An instruction starts: the first of a definition calls trace_bb_start.
LEMMA StepIMark == RefInv /\ RunIMark => RefInv'
  <1> SUFFICES ASSUME RefInv, RunIMark PROVE RefInv'
    OBVIOUS
  <1> /\ TypeOK /\ WellReferenced /\ Counters /\ Owned /\ Pending
      /\ \A j \in Keys : tt[j] # <<>> => Translated(j)
    BY DEF RefInv
  <1>1. /\ mode = "run" /\ stmt.kind = "imark"
        /\ now' = [now EXCEPT !.n = @ + 1] /\ pc' = pc + 1
        /\ UNCHANGED <<dgsbs, global_bbdef_index, defAt, sbOut, insns, happened, tt, cur>>
    BY DEF RunIMark
  <1>2. /\ pc + 1 \in DOMAIN tt[cur] /\ pc \in Nat /\ pc >= 1
        /\ stmt \in Statement /\ now \in Truth /\ (pc = 1 => stmt.n = 1)
    BY <1>1, Running
  <1>3. now' \in Truth /\ now'.n > 0
    BY <1>1, <1>2 DEF Truth
  <1>4. CASE stmt.n > 1
    <2>1. UNCHANGED <<log, bbdefs, traceVars, mode>> /\ pc > 1
      BY <1>2, <1>4 DEF RunIMark
    <2>2. TypeOK'
      BY <1>1, <1>2, <1>3, <2>1 DEF TypeOK
    <2>3. Pending'
      BY <1>1, <1>3, <2>1 DEF Pending
    <2> QED BY <1>1, <2>1, <2>2, <2>3, Quiet
  <1>5. CASE ~(stmt.n > 1) /\ FlushFails
    <2>1. UNCHANGED <<log, bbdefs, traceVars>> /\ mode' = "panic"
      BY <1>5 DEF RunIMark
    <2>2. TypeOK'
      BY <1>1, <1>2, <1>3, <2>1 DEF TypeOK
    <2>3. Pending'
      BY <2>1 DEF Pending
    <2> QED BY <1>1, <2>1, <2>2, <2>3, Quiet
  <1>6. CASE ~(stmt.n > 1) /\ ~FlushFails
    <2>1. trace_bb_start(stmt.bbd) /\ mode' = mode
      BY <1>6 DEF RunIMark
    <2>2. /\ File(log', defAt', ctxAt', runAt')
          /\ out_bbr' \in Bbr /\ out_bbr'.ctx < Len(ctxAt')
          /\ bbdefs' \in Seq(Def) /\ DOMAIN bbdefs' = DOMAIN bbdefs
          /\ \A b \in DOMAIN bbdefs : /\ bbdefs'[b].at = bbdefs[b].at
                                       /\ bbdefs'[b].live = bbdefs[b].live
                                       /\ bbdefs'[b].index = bbdefs[b].index
          /\ Counters'
      BY <1>1, <2>1, StartFile
    <2>3. global_context_index' \in Nat
      BY <2>2 DEF Counters, File, Positions
    <2>4. TypeOK'
      BY <1>1, <1>2, <1>3, <2>1, <2>2, <2>3 DEF TypeOK, File
    <2>5. WellReferenced' /\ Pending'
      BY <1>3, <2>2 DEF WellReferenced, File, Pending
    <2>6. Owned'
      BY <1>1, <2>2 DEF Owned
    <2>7. \A j \in Keys : tt'[j] # <<>> => Translated(j)'
      BY <1>1, <2>2 DEF Translated
    <2> QED BY <1>1, <2>1, <2>2, <2>4, <2>5, <2>6, <2>7 DEF RefInv
  <1> QED BY <1>4, <1>5, <1>6

\* Every step of Datagrind preserves the invariant.
LEMMA RefStep == RefInv /\ [Next]_vars => RefInv'
  <1> SUFFICES ASSUME RefInv, [Next]_vars PROVE RefInv'
    OBVIOUS
  <1>1. CASE Instrument
    BY <1>1, StepBegin, StepAddInstr, StepAddAccess, StepAddExit, StepUnsupported,
       StepInstrumentEnd DEF Instrument
  <1>2. CASE Run
    BY <1>2, StepExecute, StepIMark, StepAccess, StepUntouched, StepSkipped,
       StepLeave, StepStay DEF Run
  <1>3. CASE \E k \in Keys : dg_discard_superblock_info(k)
    BY <1>3, StepDiscard
  <1>4. CASE dg_fini
    BY <1>4, StepFini
  <1>5. CASE dg_handle_client_request
    BY <1>5, StepEvent
  <1>6. CASE UNCHANGED vars
    <2>1. TypeOK' /\ Pending'
      BY <1>6 DEF RefInv, TypeOK, Pending, vars
    <2> QED BY <1>6, <2>1, Quiet DEF vars
  <1> QED BY <1>1, <1>2, <1>3, <1>4, <1>5, <1>6 DEF Next, Terminating

\* The reachable states of DgBlocks satisfy the invariant.
THEOREM RefInvariant == Spec => []RefInv
  BY RefInit, RefStep, PTL DEF Spec

\* The variables keep their types, with faults, guards and discards.
THEOREM TypeCorrect == Spec => []TypeOK
  <1>1. RefInv => TypeOK
    BY DEF RefInv
  <1> QED BY <1>1, RefInvariant, PTL

\* No reader of the file ever meets a reference to a record that is not there
\* yet, whatever is executed, faults or is discarded.
THEOREM ReferencesResolve == Spec => []WellReferenced
  <1>1. RefInv => WellReferenced
    BY DEF RefInv
  <1> QED BY <1>1, RefInvariant, PTL

-----------------------------------------------------------------------------
(* The invariant that relates code, definitions and contexts.              *)

\* Statement t comes after s in code that was made for the accesses accs.
Follows(s, t, accs) ==
  /\ t.kind = "imark" => t.n = s.n + 1 /\ t.k = s.k
  /\ t.kind = "mem" =>
       /\ t.n = s.n /\ t.k = s.k + Len(t.dirs)
       /\ \A i \in 1..Len(t.dirs) :
            accs[s.k + i] = [dir |-> t.dirs[i], iseq |-> t.n - 1]
  /\ t.kind \in {"exit", "end"} => t.n = s.n /\ t.k = s.k

\* The code lays out the accesses accs, each in its instruction.
Laid(code, accs) ==
  /\ code[1].k = 0
  /\ \A j \in DOMAIN code : /\ code[j].k <= Len(accs) /\ code[j].n >= 1
                            /\ code[j].guard # "none" => MayGuard
                            /\ j > 1 => Follows(code[j - 1], code[j], accs)

\* The BBDEF of definition b, once it is flushed.
Written(b) == log[defAt[bbdefs[b].index + 1]]

\* The translation of k lays out the accesses of its BBDEF.
Drawn(k) == LET d == Written(tt[k][1].bbd) IN d.at = k /\ Laid(tt[k], d.accs)

\* The code emitted so far lays out the accesses of the definition so far.
Drawing ==
  /\ \A ec \in Stacks : bbd.ctxs[ec] = NoContext
  /\ sbOut = <<>> => bbd.accs = <<>>
  /\ sbOut # <<>> => /\ Laid(sbOut, bbd.accs)
                     /\ sbOut[Len(sbOut)].n = bbd.n
                     /\ sbOut[Len(sbOut)].k = Len(bbd.accs)

\* A remembered context is in the file.
Contexts ==
  \A b \in DOMAIN bbdefs, ec \in Stacks : bbdefs[b].ctxs[ec] # NoContext =>
    /\ bbdefs[b].index >= 0
    /\ log[ctxAt[bbdefs[b].ctxs[ec] + 1]] = CONTEXT(bbdefs[b].index, ec)

\* The execution is as far as the program counter, and out_bbr is about it.
Started ==
  /\ now.at = cur
  /\ pc = 1 => now.n = 0 /\ now.accs = <<>>
  /\ pc > 1 =>
       /\ now.n = tt[cur][pc - 1].n
       /\ Len(out_bbr.accs) <= tt[cur][pc - 1].k
       /\ log[ctxAt[out_bbr.ctx + 1]]
            = CONTEXT(bbdefs[tt[cur][1].bbd].index, now.stack)

CodeInv ==
  /\ RefInv
  /\ \A k \in Keys : tt[k] # <<>> => Drawn(k)
  /\ mode = "instr" => Drawing
  /\ Contexts
  /\ mode = "run" => Started

-----------------------------------------------------------------------------
(* What is written stays as it is.                                         *)

\* The sequence t begins with s.
Kept(s, t) == \A i \in DOMAIN s : i \in DOMAIN t /\ t[i] = s[i]

\* What the file has, and what its reader has indexed, stays.
FileGrows == /\ Kept(log, log') /\ Kept(defAt, defAt') /\ Kept(ctxAt, ctxAt')
             /\ Kept(runAt, runAt') /\ Kept(happened, happened')

LEMMA KeptAppend ==
  ASSUME NEW S, NEW s \in Seq(S), NEW e
  PROVE  Kept(s, Append(s, e))
  BY DEF Kept

LEMMA KeptTrans ==
  ASSUME NEW r, NEW s, NEW t, Kept(r, s), Kept(s, t)
  PROVE  Kept(r, t)
  BY DEF Kept

\* trace_bb_flush only appends.
LEMMA FlushKeeps ==
  ASSUME TypeOK
  PROVE  /\ Kept(log, FlushedLog) /\ Kept(runAt, FlushedRunAt)
         /\ FlushedLog \in Seq(Record)
  <1>1. log \in Seq(Record) /\ runAt \in Seq(Nat \ {0}) /\ out_bbr \in Bbr
    BY DEF TypeOK, Positions
  <1>2. Kept(log, log) /\ Kept(runAt, runAt)
    BY DEF Kept
  <1>3. Kept(log, Append(log, BBRUN(out_bbr))) /\ Kept(runAt, Append(runAt, Len(log) + 1))
    BY <1>1, KeptAppend
  <1>4. BBRUN(out_bbr) \in Record
    BY <1>1 DEF BBRUN, Record, Bbr
  <1> QED BY <1>1, <1>2, <1>3, <1>4 DEF FlushedLog, FlushedRunAt

\* No step takes anything back that is in the file.
LEMMA Grow ==
  ASSUME TypeOK, [Next]_vars
  PROVE  FileGrows
  <1>1. /\ log \in Seq(Record) /\ defAt \in Seq(Nat \ {0}) /\ ctxAt \in Seq(Nat \ {0})
        /\ runAt \in Seq(Nat \ {0}) /\ happened \in Seq(Truth)
    BY DEF TypeOK, Positions
  <1>2. \A x : Kept(x, x)
    BY DEF Kept
  <1>3. CASE UNCHANGED <<log, defAt, ctxAt, runAt, happened>>
    BY <1>2, <1>3 DEF FileGrows
  <1>4. CASE Leave /\ UNCHANGED <<log, defAt, ctxAt, runAt>>
    <2>1. Kept(happened, happened')
      BY <1>1, <1>4, KeptAppend DEF Leave
    <2> QED BY <1>2, <1>4, <2>1 DEF FileGrows
  <1>5. CASE dg_bbdef_flush /\ UNCHANGED <<ctxAt, runAt, happened>>
    <2>1. Kept(log, log') /\ Kept(defAt, defAt')
      <3>1. CASE bbd.n = 0
        BY <1>2, <1>5, <3>1 DEF dg_bbdef_flush
      <3>2. CASE bbd.n # 0
        BY <1>1, <1>5, <3>2, KeptAppend DEF dg_bbdef_flush
      <3> QED BY <3>1, <3>2
    <2> QED BY <1>2, <1>5, <2>1 DEF FileGrows
  <1>6. CASE dg_handle_client_request
    <2>1. Kept(log, log')
      BY <1>1, <1>6, KeptAppend DEF dg_handle_client_request
    <2> QED BY <1>2, <1>6, <2>1 DEF FileGrows, dg_handle_client_request
  <1>7. CASE dg_fini
    <2>1. Kept(log, log') /\ Kept(runAt, runAt')
      <3>1. CASE FlushFails
        BY <1>2, <1>7, <3>1 DEF dg_fini
      <3>2. CASE ~FlushFails
        BY <1>7, <3>2, FlushKeeps DEF dg_fini
      <3> QED BY <3>1, <3>2
    <2> QED BY <1>2, <1>7, <2>1 DEF FileGrows, dg_fini
  <1>8. CASE RunIMark
    <2>1. UNCHANGED <<defAt, happened>>
      BY <1>8 DEF RunIMark
    <2>2. CASE UNCHANGED <<log, ctxAt, runAt>>
      BY <1>3, <2>1, <2>2
    <2>3. CASE trace_bb_start(stmt.bbd)
      <3>1. Kept(runAt, runAt')
        BY <2>3, FlushKeeps DEF trace_bb_start
      <3>2. Kept(log, log') /\ Kept(ctxAt, ctxAt')
        <4>1. CASE log' = FlushedLog /\ ctxAt' = ctxAt
          BY <1>2, <4>1, FlushKeeps
        <4>2. CASE ~(log' = FlushedLog /\ ctxAt' = ctxAt)
          <5>1. /\ log' = Append(FlushedLog, CONTEXT(bbdefs[stmt.bbd].index, now.stack))
                /\ ctxAt' = Append(ctxAt, Len(FlushedLog) + 1)
            BY <2>3, <4>2 DEF trace_bb_start
          <5>2. Kept(log, FlushedLog) /\ Kept(FlushedLog, log')
            BY <5>1, FlushKeeps, KeptAppend
          <5> QED BY <1>1, <5>1, <5>2, KeptAppend, KeptTrans
        <4> QED BY <4>1, <4>2
      <3> QED BY <1>2, <2>1, <3>1, <3>2 DEF FileGrows
    <2> QED BY <1>8, <2>2, <2>3 DEF RunIMark
  <1>9. CASE UNCHANGED vars
    BY <1>3, <1>9 DEF vars
  <1>10. CASE Instrument
    <2>1. CASE \E k \in Keys : InstrumentBegin(k)
      BY <1>3, <2>1 DEF InstrumentBegin
    <2>2. CASE AddInstr
      <3>1. UNCHANGED <<ctxAt, runAt, happened>>
        BY <2>2 DEF AddInstr
      <3>2. dg_bbdef_flush \/ UNCHANGED <<log, defAt>>
        BY <2>2 DEF AddInstr, dg_bbdef_add_instr
      <3> QED BY <1>3, <1>5, <3>1, <3>2
    <2>3. CASE \E dirs \in Footprints, g \in Guards : AddAccess(dirs, g)
      BY <1>3, <2>3 DEF AddAccess
    <2>4. CASE AddExit \/ AddUnsupported
      BY <1>3, <2>4 DEF AddExit, AddUnsupported
    <2>5. CASE InstrumentEnd
      BY <1>5, <2>5 DEF InstrumentEnd
    <2> QED BY <1>10, <2>1, <2>2, <2>3, <2>4, <2>5 DEF Instrument
  <1>11. CASE Run
    <2>1. CASE \E k \in Keys, ec \in Stacks : Execute(k, ec)
      BY <1>3, <2>1 DEF Execute
    <2>2. CASE \E a \in Addrs : RunAccess(a) \/ RunUntouched(a)
      BY <1>3, <2>2 DEF RunAccess, RunUntouched
    <2>3. CASE RunSkipped \/ RunStay
      BY <1>3, <2>3 DEF RunSkipped, RunStay, trace_update_instrs
    <2>4. CASE RunLeave \/ RunTrap \/ \E a \in Addrs : RunFault(a)
      BY <1>4, <2>4 DEF RunLeave, RunTrap, RunFault, trace_update_instrs
    <2> QED BY <1>8, <1>11, <2>1, <2>2, <2>3, <2>4 DEF Run
  <1>12. CASE \E k \in Keys : dg_discard_superblock_info(k)
    BY <1>3, <1>12 DEF dg_discard_superblock_info
  <1> QED BY <1>6, <1>7, <1>9, <1>10, <1>11, <1>12 DEF Next, Terminating

\* Nothing is ever taken back or changed in the output file (there is no seek
\* in out_bytes), and the reader's indices of it only grow.
THEOREM FileOnlyGrows == Spec => [][FileGrows]_vars
  <1>1. TypeOK /\ [Next]_vars => [FileGrows]_vars
    BY Grow
  <1> QED BY <1>1, TypeCorrect, PTL DEF Spec

-----------------------------------------------------------------------------
(* Code, definitions and contexts stay related.                            *)

\* Initially there is no code and no definition.
LEMMA CodeInit == Init => CodeInv
  <1> SUFFICES ASSUME Init PROVE CodeInv
    OBVIOUS
  <1>1. RefInv
    BY RefInit
  <1>2. Contexts
    BY DEF Init, Contexts
  <1> QED BY <1>1, <1>2 DEF CodeInv, Init

\* An ordinal that the file resolves goes on meaning the same record.
LEMMA RecordKept ==
  ASSUME RefInv, FileGrows, NEW i \in Int
  PROVE  /\ i + 1 \in DOMAIN defAt => /\ i + 1 \in DOMAIN defAt'
                                      /\ log'[defAt'[i + 1]] = log[defAt[i + 1]]
         /\ i + 1 \in DOMAIN ctxAt => /\ i + 1 \in DOMAIN ctxAt'
                                      /\ log'[ctxAt'[i + 1]] = log[ctxAt[i + 1]]
  BY DEF RefInv, WellReferenced, Scans, FileGrows, Kept

\* The ordinal of a translated definition is resolved.
LEMMA IndexResolved ==
  ASSUME RefInv, NEW b \in DOMAIN bbdefs
  PROVE  /\ bbdefs[b].index \in Int
         /\ bbdefs[b].index >= 0 => bbdefs[b].index + 1 \in DOMAIN defAt
         /\ \A ec \in Stacks : /\ bbdefs[b].ctxs[ec] \in Int
                               /\ bbdefs[b].ctxs[ec] # NoContext
                                    => bbdefs[b].ctxs[ec] + 1 \in DOMAIN ctxAt
  <1>1. bbdefs[b] \in Def /\ Counters /\ TypeOK
    BY DEF RefInv, TypeOK
  <1>2. /\ Len(defAt) \in Nat /\ DOMAIN defAt = 1..Len(defAt)
        /\ Len(ctxAt) \in Nat /\ DOMAIN ctxAt = 1..Len(ctxAt)
    BY <1>1 DEF TypeOK, Positions
  <1>3. /\ bbdefs[b].index \in Nat \cup {-1}
        /\ \A ec \in Stacks : bbdefs[b].ctxs[ec] \in Nat \cup {-1}
    BY <1>1 DEF Def, NoContext
  <1>4. /\ bbdefs[b].index < Len(defAt)
        /\ \A ec \in Stacks : bbdefs[b].ctxs[ec] < Len(ctxAt)
    BY <1>1 DEF Counters
  <1> QED BY <1>2, <1>3, <1>4 DEF NoContext

\* A translation that is kept, with the ordinal of its definition, stays drawn.
LEMMA DrawnKept ==
  ASSUME CodeInv, FileGrows, NEW k \in Keys, tt[k] # <<>>, tt'[k] = tt[k],
         bbdefs'[tt[k][1].bbd].index = bbdefs[tt[k][1].bbd].index
  PROVE  Drawn(k)'
  <1>1. RefInv /\ Translated(k) /\ Drawn(k)
    BY DEF CodeInv, RefInv
  <1> DEFINE b == tt[k][1].bbd
             i == bbdefs[b].index
  <1>2. b \in DOMAIN bbdefs /\ i >= 0
    BY <1>1 DEF Translated
  <1>3. i \in Int /\ i + 1 \in DOMAIN defAt
    BY <1>1, <1>2, IndexResolved
  <1>4. log'[defAt'[i + 1]] = log[defAt[i + 1]]
    BY <1>1, <1>3, RecordKept
  <1>5. Written(b)' = log'[defAt'[i + 1]] /\ Written(b) = log[defAt[i + 1]]
    BY DEF Written
  <1> QED BY <1>1, <1>4, <1>5 DEF Drawn

\* Contexts that definitions go on remembering stay in the file.
LEMMA ContextsKept ==
  ASSUME CodeInv, FileGrows,
         NEW b \in DOMAIN bbdefs, NEW ec \in Stacks,
         bbdefs[b].ctxs[ec] # NoContext,
         bbdefs'[b].ctxs[ec] = bbdefs[b].ctxs[ec],
         bbdefs'[b].index = bbdefs[b].index
  PROVE  /\ bbdefs'[b].index >= 0
         /\ log'[ctxAt'[bbdefs'[b].ctxs[ec] + 1]] = CONTEXT(bbdefs'[b].index, ec)
  <1> DEFINE c == bbdefs[b].ctxs[ec]
  <1>1. RefInv /\ c \in Int /\ c + 1 \in DOMAIN ctxAt
    BY IndexResolved DEF CodeInv
  <1>2. log'[ctxAt'[c + 1]] = log[ctxAt[c + 1]]
    BY <1>1, RecordKept
  <1>3. bbdefs[b].index >= 0 /\ log[ctxAt[c + 1]] = CONTEXT(bbdefs[b].index, ec)
    BY DEF CodeInv, Contexts
  <1> QED BY <1>2, <1>3

\* A step that touches neither code nor definitions leaves the first two parts alone.
LEMMA SameCode ==
  ASSUME CodeInv, FileGrows, UNCHANGED <<tt, bbdefs>>
  PROVE  /\ \A k \in Keys : tt'[k] # <<>> => Drawn(k)'
         /\ Contexts'
  <1>1. \A k \in Keys : tt'[k] # <<>> => Drawn(k)'
    BY DrawnKept
  <1>2. Contexts'
    BY ContextsKept DEF Contexts
  <1> QED BY <1>1, <1>2

\* A new definition has no code and remembers no context.
LEMMA CodeBegin ==
  ASSUME CodeInv, RefInv', FileGrows, NEW k \in Keys, InstrumentBegin(k)
  PROVE  CodeInv'
  <1> DEFINE d == dg_bbdef_new(k)
  <1>1. RefInv /\ TypeOK /\ bbdefs \in Seq(Def) /\ mode' = "instr" /\ sbOut' = <<>>
        /\ tt' = tt /\ bbdefs' = Append(bbdefs, d)
    BY DEF CodeInv, RefInv, TypeOK, InstrumentBegin
  <1>2. d \in Def /\ d.accs = <<>> /\ \A ec \in Stacks : d.ctxs[ec] = NoContext
    BY DEF dg_bbdef_new, NoContext, Def
  <1> HIDE DEF d
  <1>3. /\ Len(bbdefs) \in Nat /\ DOMAIN bbdefs = 1..Len(bbdefs)
        /\ Len(bbdefs') = Len(bbdefs) + 1 /\ bbdefs'[Len(bbdefs) + 1] = d
        /\ \A b \in 1..Len(bbdefs) : bbdefs'[b] = bbdefs[b]
        /\ DOMAIN bbdefs' = 1..(Len(bbdefs) + 1)
    BY <1>1, <1>2, Appended
  <1>4. ASSUME NEW j \in Keys, tt'[j] # <<>> PROVE Drawn(j)'
    <2>1. Translated(j)
      BY <1>1, <1>4 DEF RefInv
    <2>2. bbdefs'[tt[j][1].bbd] = bbdefs[tt[j][1].bbd]
      BY <1>3, <2>1 DEF Translated
    <2> QED BY <1>1, <1>4, <2>2, DrawnKept
  <1>5. Contexts'
    <2>1. ASSUME NEW b \in DOMAIN bbdefs', NEW ec \in Stacks,
                 bbdefs'[b].ctxs[ec] # NoContext
          PROVE  /\ bbdefs'[b].index >= 0
                 /\ log'[ctxAt'[bbdefs'[b].ctxs[ec] + 1]] = CONTEXT(bbdefs'[b].index, ec)
      <3>1. b \in DOMAIN bbdefs /\ bbdefs'[b] = bbdefs[b]
        BY <1>2, <1>3, <2>1
      <3> QED BY <2>1, <3>1, ContextsKept
    <2> QED BY <2>1 DEF Contexts
  <1>6. Drawing'
    <2>1. bbd' = d
      BY <1>3 DEF bbd
    <2> QED BY <1>1, <1>2, <2>1 DEF Drawing
  <1> QED BY <1>1, <1>4, <1>5, <1>6 DEF CodeInv

LEMMA Slice ==
  ASSUME NEW a \in Nat, NEW l \in Nat, NEW d \in Int, NEW i \in Int,
         1 <= i, i <= d, a + d <= l
  PROVE  a + i \in 1..l
  OBVIOUS

\* One more statement extends the layout.
LEMMA LaidAppend ==
  ASSUME NEW code \in Seq(Statement), code # <<>>, NEW accs \in Seq(Entry),
         NEW s \in Statement, NEW more \in Seq(Entry), Laid(code, accs),
         code[Len(code)].k = Len(accs),
         s.n >= 1, s.guard # "none" => MayGuard, s.k = Len(accs) + Len(more),
         Follows(code[Len(code)], s, accs \o more)
  PROVE  Laid(Append(code, s), accs \o more)
  <1> DEFINE new == Append(code, s)
             all == accs \o more
  <1>1. /\ Len(code) \in Nat /\ Len(code) > 0 /\ DOMAIN code = 1..Len(code)
        /\ DOMAIN new = 1..(Len(code) + 1) /\ new[Len(code) + 1] = s
        /\ \A j \in 1..Len(code) : new[j] = code[j]
    <2>1. Len(code) > 0
      OBVIOUS
    <2> QED BY <2>1, Appended
  <1>2. /\ Len(accs) \in Nat /\ Len(more) \in Nat /\ Len(all) = Len(accs) + Len(more)
        /\ \A i \in 1..Len(accs) : all[i] = accs[i]
    OBVIOUS
  <1> HIDE DEF new, all
  <1>3. new[1] = code[1] /\ code[1].k = 0
    BY <1>1 DEF Laid
  <1>4. ASSUME NEW j \in DOMAIN new
        PROVE  /\ new[j].k <= Len(all) /\ new[j].n >= 1
               /\ new[j].guard # "none" => MayGuard
               /\ j > 1 => Follows(new[j - 1], new[j], all)
    <2>1. CASE j = Len(code) + 1
      <3>1. new[j] = s /\ new[j - 1] = code[Len(code)]
        BY <1>1, <2>1
      <3> QED BY <1>2, <3>1 DEF all
    <2>2. CASE j \in DOMAIN code
      <3>1. /\ new[j] = code[j] /\ code[j] \in Statement
            /\ j > 1 => new[j - 1] = code[j - 1] /\ code[j - 1] \in Statement
        BY <1>1, <2>2
      <3>2. code[j].k \in Nat /\ code[j].n \in Nat
        BY <3>1 DEF Statement
      <3>3. /\ code[j].k <= Len(accs) /\ code[j].n >= 1
            /\ code[j].guard # "none" => MayGuard
            /\ j > 1 => Follows(code[j - 1], code[j], accs)
        BY <2>2 DEF Laid
      <3>4. ASSUME j > 1 PROVE Follows(code[j - 1], code[j], all)
        <4>1. Follows(code[j - 1], code[j], accs) /\ code[j - 1].k \in Nat
          BY <3>1, <3>3, <3>4 DEF Statement
        <4>2. ASSUME code[j].kind = "mem", NEW i \in 1..Len(code[j].dirs)
              PROVE  all[code[j - 1].k + i] = accs[code[j - 1].k + i]
          <5>1. code[j].k = code[j - 1].k + Len(code[j].dirs) /\ Len(code[j].dirs) \in Int
            <6>1. Len(code[j].dirs) \in Int
              <7>1. code[j].dirs \in Footprints \cup {<<>>}
                BY <3>1 DEF Statement
              <7>2. code[j].dirs \in Seq(Dirs)
                BY <7>1, FootprintIsSeq
              <7> QED BY <7>2
            <6> QED BY <4>1, <4>2, <6>1 DEF Follows
          <5>2. i \in Int /\ 1 <= i /\ i <= Len(code[j].dirs)
            BY <5>1
          <5>3. code[j - 1].k \in Nat /\ code[j].k <= Len(accs)
            BY <3>3, <4>1
          <5>4. Len(accs) \in Nat
            BY <1>2
          <5>5. code[j - 1].k + Len(code[j].dirs) <= Len(accs)
            BY <5>1, <5>3
          <5>6. code[j - 1].k + i \in 1..Len(accs)
            BY <5>1, <5>2, <5>3, <5>4, <5>5, Slice
          <5> QED BY <1>2, <5>6
        <4> QED BY <4>1, <4>2 DEF Follows
      <3> QED BY <1>2, <3>1, <3>2, <3>3, <3>4
    <2> QED BY <1>1, <2>1, <2>2
  <1>5. Laid(new, all)
    BY <1>3, <1>4 DEF Laid
  <1> QED BY <1>5 DEF new, all

\* dg_instrument adds one statement to the code and its effect to the definition.
LEMMA CodeAdd ==
  ASSUME CodeInv, RefInv', FileGrows, mode = "instr", mode' = mode, tt' = tt,
         NEW e \in Def, bbdefs' = [bbdefs EXCEPT ![Len(bbdefs)] = e],
         e.index = bbd.index, e.ctxs = bbd.ctxs,
         NEW s \in Statement, sbOut' = Append(sbOut, s), s.n = e.n, s.k = Len(e.accs),
         Laid(sbOut', e.accs)
  PROVE  CodeInv'
  <1>1. /\ RefInv /\ Drawing /\ bbdefs \in Seq(Def) /\ Len(bbdefs) \in Nat
        /\ Len(bbdefs) \in DOMAIN bbdefs
    <2>1. RefInv /\ Drawing /\ bbdefs \in Seq(Def) /\ bbdefs # <<>>
      BY DEF CodeInv, RefInv, TypeOK, Instrumenting
    <2> QED BY <2>1
  <1>2. /\ DOMAIN bbdefs' = DOMAIN bbdefs /\ Len(bbdefs') = Len(bbdefs)
        /\ bbdefs'[Len(bbdefs)] = e
        /\ \A b \in DOMAIN bbdefs : b # Len(bbdefs) => bbdefs'[b] = bbdefs[b]
    BY <1>1
  <1>3. \A b \in DOMAIN bbdefs : /\ bbdefs'[b].index = bbdefs[b].index
                                 /\ bbdefs'[b].ctxs = bbdefs[b].ctxs
    BY <1>1, <1>2 DEF bbd
  <1>4. ASSUME NEW j \in Keys, tt'[j] # <<>> PROVE Drawn(j)'
    <2>1. Translated(j)
      BY <1>1, <1>4 DEF RefInv
    <2>2. bbdefs'[tt[j][1].bbd].index = bbdefs[tt[j][1].bbd].index
      BY <1>3, <2>1 DEF Translated
    <2> QED BY <1>4, <2>2, DrawnKept
  <1>5. Contexts'
    BY <1>2, <1>3, ContextsKept DEF Contexts
  <1>6. Drawing'
    <2>1. bbd' = e
      BY <1>2 DEF bbd
    <2>2. sbOut' # <<>> /\ sbOut'[Len(sbOut')] = s
      <3>1. sbOut \in Seq(Statement)
        BY <1>1 DEF RefInv, TypeOK, Code
      <3> QED BY <3>1
    <2> QED BY <1>1, <2>1, <2>2 DEF Drawing
  <1> QED BY <1>4, <1>5, <1>6 DEF CodeInv

\* An instruction follows the statement before it, or is the first.
LEMMA CodeAddInstr ==
  ASSUME CodeInv, RefInv', FileGrows, AddInstr
  PROVE  CodeInv'
  <1>1. RefInv /\ TypeOK /\ Instrumenting /\ Drawing /\ mode = "instr"
    BY DEF CodeInv, RefInv, AddInstr
  <1>2. /\ bbd \in Def /\ Len(bbdefs) \in Nat \ {0} /\ sbOut \in Seq(Statement)
        /\ bbd.n \in Nat /\ bbd.accs \in Seq(Entry)
    <2>1. bbd \in Def /\ Len(bbdefs) \in Nat \ {0} /\ sbOut \in Seq(Statement)
      BY <1>1 DEF TypeOK, Instrumenting, bbd, Code
    <2> QED BY <2>1 DEF Def
  <1>3. bbd.n # MaxDefInstrs /\ (sbOut = <<>> => bbd.n = 0)
    BY <1>1, BlocksAssumption DEF Instrumenting, AddInstr, TypeOK
  <1> DEFINE e == [bbd EXCEPT !.n = @ + 1]
             s == Stmt("imark", Len(bbdefs), bbd.n + 1, Len(bbd.accs), <<>>, "none")
  <1>4. /\ e \in Def /\ e.index = bbd.index /\ e.ctxs = bbd.ctxs /\ e.n = bbd.n + 1
        /\ e.accs = bbd.accs
    <2>1. bbd \in Def
      BY <1>2
    <2> QED BY <2>1 DEF Def
  <1>5. /\ s \in Statement /\ s.kind = "imark" /\ s.n = bbd.n + 1 /\ s.guard = "none"
        /\ s.k = Len(bbd.accs)
    BY <1>2 DEF Def, Statement, Stmt, Guards
  <1>6. /\ bbdefs' = [bbdefs EXCEPT ![Len(bbdefs)] = e] /\ sbOut' = Append(sbOut, s)
        /\ UNCHANGED <<tt, mode>>
    BY <1>3 DEF AddInstr, dg_bbdef_add_instr, bbd
  <1> HIDE DEF e, s
  <1>7. Laid(sbOut', bbd.accs)
    <2>1. CASE sbOut = <<>>
      <3>1. bbd.accs = <<>> /\ Len(bbd.accs) = 0
        BY <1>1, <2>1 DEF Drawing
      <3>2. DOMAIN sbOut' = {1} /\ sbOut'[1] = s
        BY <1>6, <2>1
      <3>3. s.k = 0 /\ s.n = 1
        BY <1>3, <1>5, <2>1, <3>1
      <3> QED BY <1>5, <3>1, <3>2, <3>3 DEF Laid
    <2>2. CASE sbOut # <<>>
      <3>1. /\ Laid(sbOut, bbd.accs) /\ sbOut[Len(sbOut)].n = bbd.n
            /\ sbOut[Len(sbOut)].k = Len(bbd.accs)
        BY <1>1, <2>2 DEF Drawing
      <3>2. bbd.accs \o <<>> = bbd.accs /\ <<>> \in Seq(Entry) /\ Len(<<>>) = 0
            /\ Len(bbd.accs) \in Nat
        BY <1>2
      <3>3. Follows(sbOut[Len(sbOut)], s, bbd.accs)
        BY <1>5, <3>1 DEF Follows
      <3>4. s.n >= 1 /\ s.k = Len(bbd.accs) + 0
        BY <1>2, <1>5, <3>2
      <3> QED BY <1>2, <1>5, <1>6, <2>2, <3>1, <3>2, <3>3, <3>4, LaidAppend
    <2> QED BY <2>1, <2>2
  <1> QED BY <1>1, <1>4, <1>5, <1>6, <1>7, CodeAdd

\* A memory statement lays out the entries that dg_bbdef_add_access adds.
LEMMA CodeAddAccess ==
  ASSUME CodeInv, RefInv', FileGrows, NEW dirs \in Footprints, NEW g \in Guards,
         AddAccess(dirs, g)
  PROVE  CodeInv'
  <1>1. /\ RefInv /\ TypeOK /\ Instrumenting /\ Drawing /\ mode = "instr"
        /\ sbOut # <<>> /\ (g # "none" => MayGuard)
    BY DEF CodeInv, RefInv, AddAccess
  <1>2. /\ bbd \in Def /\ Len(bbdefs) \in Nat \ {0} /\ sbOut \in Seq(Statement)
        /\ bbd.n \in Nat /\ bbd.accs \in Seq(Entry) /\ bbd.n >= 1
    <2>1. /\ bbd \in Def /\ Len(bbdefs) \in Nat \ {0} /\ sbOut \in Seq(Statement)
          /\ bbd.n > 0
      BY <1>1 DEF TypeOK, Instrumenting, bbd, Code
    <2> QED BY <2>1 DEF Def
  <1> DEFINE more == Entries(dirs, bbd.n)
             accs == bbd.accs \o more
             e == [bbd EXCEPT !.accs = accs]
             s == Stmt("mem", Len(bbdefs), bbd.n, Len(accs), dirs, g)
  <1>3. /\ more \in Seq(Entry) /\ Len(more) = Len(dirs) /\ Len(dirs) \in Nat
        /\ \A i \in 1..Len(dirs) : more[i] = [dir |-> dirs[i], iseq |-> bbd.n - 1]
    <2>1. dirs \in Seq(Dirs)
      BY FootprintIsSeq
    <2>2. bbd.n - 1 \in Nat /\ \A i \in 1..Len(dirs) : dirs[i] \in Dirs
      BY <1>2, <2>1
    <2>3. \A i \in 1..Len(dirs) : [dir |-> dirs[i], iseq |-> bbd.n - 1] \in Entry
      BY <2>2 DEF Entry
    <2>4. more \in [1..Len(dirs) -> Entry] /\ Len(dirs) \in Nat
      BY <2>1, <2>3 DEF Entries
    <2> QED BY <2>4, FunctionIsSeq DEF Entries
  <1> HIDE DEF more
  <1>4. /\ accs \in Seq(Entry) /\ Len(accs) = Len(bbd.accs) + Len(dirs)
        /\ \A i \in 1..Len(dirs) : accs[Len(bbd.accs) + i] = more[i]
    <2>1. bbd.accs \in Seq(Entry) /\ more \in Seq(Entry) /\ Len(more) = Len(dirs)
      BY <1>2, <1>3
    <2> QED BY <2>1
  <1> HIDE DEF accs
  <1>5. /\ e \in Def /\ e.index = bbd.index /\ e.ctxs = bbd.ctxs /\ e.n = bbd.n
        /\ e.accs = accs
    BY <1>2, <1>4 DEF Def
  <1>6. /\ s \in Statement /\ s.kind = "mem" /\ s.n = bbd.n /\ s.guard = g
        /\ s.k = Len(accs) /\ s.dirs = dirs
    BY <1>2, <1>4 DEF Def, Statement, Stmt, Guards
  <1>7. /\ bbdefs' = [bbdefs EXCEPT ![Len(bbdefs)] = e] /\ sbOut' = Append(sbOut, s)
        /\ UNCHANGED <<tt, mode>>
    BY DEF AddAccess, dg_bbdef_add_access, bbd, accs, more
  <1> HIDE DEF e, s
  <1>8. Laid(sbOut', accs)
    <2>1. /\ Laid(sbOut, bbd.accs) /\ sbOut[Len(sbOut)].n = bbd.n
          /\ sbOut[Len(sbOut)].k = Len(bbd.accs)
      BY <1>1 DEF Drawing
    <2>2. Follows(sbOut[Len(sbOut)], s, accs)
      BY <1>3, <1>4, <1>6, <2>1 DEF Follows
    <2>3. Laid(Append(sbOut, s), bbd.accs \o more)
      BY <1>1, <1>2, <1>3, <1>4, <1>6, <2>1, <2>2, LaidAppend DEF accs
    <2> QED BY <1>7, <2>3 DEF accs
  <1> QED BY <1>1, <1>5, <1>6, <1>7, <1>8, CodeAdd

\* A way out lays out nothing.
LEMMA LaidExit ==
  ASSUME CodeInv, mode = "instr", sbOut # <<>>, NEW kind \in {"exit", "end"}
  PROVE  Laid(Append(sbOut, dg_bbdef_update_instrs(kind)), bbd.accs)
  <1> DEFINE s == dg_bbdef_update_instrs(kind)
  <1>1. RefInv /\ TypeOK /\ Instrumenting /\ Drawing
    BY DEF CodeInv, RefInv
  <1>2. /\ bbd \in Def /\ Len(bbdefs) \in Nat \ {0} /\ sbOut \in Seq(Statement)
        /\ bbd.n \in Nat /\ bbd.accs \in Seq(Entry) /\ bbd.n >= 1
    <2>1. /\ bbd \in Def /\ Len(bbdefs) \in Nat \ {0} /\ sbOut \in Seq(Statement)
          /\ bbd.n > 0
      BY <1>1 DEF TypeOK, Instrumenting, bbd, Code
    <2> QED BY <2>1 DEF Def
  <1>3. /\ s \in Statement /\ s.kind = kind /\ s.n = bbd.n /\ s.guard = "none"
        /\ s.k = Len(bbd.accs)
    BY <1>2 DEF Def, Statement, Stmt, Guards, dg_bbdef_update_instrs
  <1> HIDE DEF s
  <1>4. /\ Laid(sbOut, bbd.accs) /\ sbOut[Len(sbOut)].n = bbd.n
        /\ sbOut[Len(sbOut)].k = Len(bbd.accs)
    BY <1>1 DEF Drawing
  <1>5. bbd.accs \o <<>> = bbd.accs /\ <<>> \in Seq(Entry) /\ Len(<<>>) = 0
        /\ Len(bbd.accs) \in Nat
    BY <1>2
  <1>6. Follows(sbOut[Len(sbOut)], s, bbd.accs)
    BY <1>3, <1>4 DEF Follows
  <1>7. s.n >= 1 /\ s.k = Len(bbd.accs) + 0
    BY <1>2, <1>3, <1>5
  <1>8. Laid(Append(sbOut, s), bbd.accs)
    BY <1>2, <1>3, <1>4, <1>5, <1>6, <1>7, LaidAppend
  <1> QED BY <1>8 DEF s

LEMMA CodeAddExit ==
  ASSUME CodeInv, RefInv', FileGrows, AddExit
  PROVE  CodeInv'
  <1> DEFINE s == dg_bbdef_update_instrs("exit")
  <1>1. RefInv /\ TypeOK /\ Instrumenting /\ mode = "instr" /\ sbOut # <<>>
    BY DEF CodeInv, RefInv, AddExit
  <1>2. bbd \in Def /\ bbdefs \in Seq(Def) /\ Len(bbdefs) \in Nat \ {0}
    BY <1>1 DEF TypeOK, Instrumenting, bbd
  <1>3. s \in Statement /\ s.n = bbd.n /\ s.k = Len(bbd.accs)
    BY <1>2 DEF Def, Statement, Stmt, Guards, dg_bbdef_update_instrs
  <1>4. Laid(Append(sbOut, s), bbd.accs)
    BY <1>1, LaidExit
  <1>5. /\ bbdefs' = [bbdefs EXCEPT ![Len(bbdefs)] = bbd]
        /\ sbOut' = Append(sbOut, s) /\ UNCHANGED <<tt, mode>>
    BY <1>2 DEF AddExit, bbd
  <1> HIDE DEF s
  <1> QED BY <1>1, <1>2, <1>3, <1>4, <1>5, CodeAdd

\* The BBDEF that is written has the accesses that the code lays out.
LEMMA CodeEnd ==
  ASSUME CodeInv, RefInv', FileGrows, InstrumentEnd
  PROVE  CodeInv'
  <1>1. /\ RefInv /\ TypeOK /\ Instrumenting /\ Drawing /\ mode = "instr"
        /\ sbOut # <<>> /\ cur \in Keys
    BY DEF CodeInv, RefInv, InstrumentEnd, TypeOK
  <1> DEFINE s == dg_bbdef_update_instrs("end")
             r == BBDEF(bbd.at, bbd.n, bbd.accs)
             e == Flushed(bbd)
  <1>2. /\ bbd \in Def /\ bbdefs \in Seq(Def) /\ Len(bbdefs) \in Nat \ {0}
        /\ Len(bbdefs) \in DOMAIN bbdefs /\ bbd.n > 0 /\ bbd.at = cur
        /\ global_bbdef_index = Len(defAt) /\ defAt \in Seq(Nat \ {0})
        /\ log \in Seq(Record) /\ sbOut \in Seq(Statement)
    <2>1. /\ bbdefs \in Seq(Def) /\ bbdefs # <<>> /\ bbd.n > 0 /\ bbd.at = cur
          /\ global_bbdef_index = Len(defAt) /\ defAt \in Seq(Nat \ {0})
          /\ log \in Seq(Record) /\ sbOut \in Seq(Statement)
      BY <1>1 DEF TypeOK, Instrumenting, RefInv, Counters, Positions, Code
    <2>2. Len(bbdefs) \in Nat \ {0} /\ Len(bbdefs) \in DOMAIN bbdefs /\ bbd \in Def
      BY <2>1 DEF bbd
    <2> QED BY <2>1, <2>2
  <1>3. e.index = Len(defAt) /\ e.ctxs = bbd.ctxs
    <2>1. e = [bbd EXCEPT !.index = Len(defAt), !.n = 0, !.accs = <<>>]
      BY <1>2 DEF Flushed
    <2> QED BY <1>2, <2>1 DEF Def
  <1>4. r.at = cur /\ r.accs = bbd.accs /\ r \in Record
    BY <1>2 DEF BBDEF, Record, Def
  <1>5. Laid(Append(sbOut, s), bbd.accs)
    BY <1>1, LaidExit
  <1>6. /\ s \in Statement /\ s.bbd = Len(bbdefs)
    BY <1>2 DEF Def, Statement, Stmt, Guards, dg_bbdef_update_instrs
  <1>7. /\ bbdefs' = [bbdefs EXCEPT ![Len(bbdefs)] = e]
        /\ tt' = [tt EXCEPT ![cur] = Append(sbOut, s)] /\ mode' = "sched"
        /\ log' = Append(log, r) /\ defAt' = Append(defAt, Len(log) + 1)
    BY <1>2 DEF InstrumentEnd, dg_bbdef_flush
  <1> HIDE DEF e, r, s
  <1>8. /\ DOMAIN bbdefs' = DOMAIN bbdefs /\ bbdefs'[Len(bbdefs)] = e
        /\ \A b \in DOMAIN bbdefs : b # Len(bbdefs) => bbdefs'[b] = bbdefs[b]
    BY <1>2, <1>7
  <1>9. /\ tt'[cur] = Append(sbOut, s) /\ \A j \in Keys : j # cur => tt'[j] = tt[j]
    BY <1>1, <1>7 DEF TypeOK
  <1>10. log'[defAt'[Len(defAt) + 1]] = r
    BY <1>2, <1>4, <1>7
  <1>11. ASSUME NEW j \in Keys, tt'[j] # <<>> PROVE Drawn(j)'
    <2>1. CASE j # cur
      <3>1. Translated(j) /\ tt'[j] = tt[j] /\ tt[j] # <<>>
        BY <1>1, <1>9, <1>11, <2>1 DEF RefInv
      <3>2. tt[j][1].bbd \in DOMAIN bbdefs /\ tt[j][1].bbd # Len(bbdefs)
        BY <1>2, <2>1, <3>1 DEF Translated, bbd
      <3> QED BY <1>8, <3>1, <3>2, DrawnKept
    <2>2. CASE j = cur
      <3>1. tt'[j][1] = sbOut[1] /\ sbOut[1].bbd = Len(bbdefs)
        <4>1. Begins(sbOut, Len(bbdefs)) /\ 1 \in DOMAIN sbOut
          BY <1>1, <1>2 DEF Instrumenting
        <4>2. Append(sbOut, s)[1] = sbOut[1]
          BY <1>2, <1>6, <4>1, Appended
        <4> QED BY <1>9, <2>2, <4>1, <4>2 DEF Begins
      <3>2. log'[defAt'[bbdefs'[tt'[j][1].bbd].index + 1]] = r
        BY <1>3, <1>8, <1>10, <3>1
      <3>3. Laid(tt'[j], r.accs)
        BY <1>4, <1>5, <1>9, <2>2
      <3> QED BY <1>4, <2>2, <3>2, <3>3 DEF Drawn, Written
    <2> QED BY <2>1, <2>2
  <1>12. Contexts'
    <2>1. ASSUME NEW b \in DOMAIN bbdefs', NEW ec \in Stacks,
                 bbdefs'[b].ctxs[ec] # NoContext
          PROVE  /\ bbdefs'[b].index >= 0
                 /\ log'[ctxAt'[bbdefs'[b].ctxs[ec] + 1]] = CONTEXT(bbdefs'[b].index, ec)
      <3>1. b \in DOMAIN bbdefs /\ bbdefs'[b] = bbdefs[b]
        BY <1>1, <1>3, <1>8, <2>1 DEF Drawing
      <3> QED BY <2>1, <3>1, ContextsKept
    <2> QED BY <2>1 DEF Contexts
  <1> QED BY <1>7, <1>11, <1>12 DEF CodeInv

\* Discarding a translation forgets contexts and keeps the rest.
LEMMA CodeDiscard ==
  ASSUME CodeInv, RefInv', FileGrows, NEW k \in Keys, dg_discard_superblock_info(k)
  PROVE  CodeInv'
  <1>1. /\ RefInv /\ TypeOK /\ Owned /\ bbdefs \in Seq(Def)
        /\ mode = "sched" /\ mode' = mode /\ tt' = [tt EXCEPT ![k] = <<>>]
    BY DEF CodeInv, RefInv, TypeOK, dg_discard_superblock_info
  <1> DEFINE freed(b) == \E i \in DOMAIN dgsbs[k] : dgsbs[k][i] = b
             none == [ec \in Stacks |-> NoContext]
  <1>2. /\ DOMAIN bbdefs' = DOMAIN bbdefs
        /\ \A b \in DOMAIN bbdefs :
             bbdefs'[b] = IF freed(b) THEN [bbdefs[b] EXCEPT !.live = FALSE, !.ctxs = none]
                          ELSE bbdefs[b]
    BY DEF dg_discard_superblock_info
  <1>3. ASSUME NEW b \in DOMAIN bbdefs
        PROVE  /\ bbdefs'[b].index = bbdefs[b].index
               /\ bbdefs'[b].ctxs = bbdefs[b].ctxs \/ bbdefs'[b].ctxs = none
    <2>1. bbdefs[b] \in Def
      BY <1>1
    <2> HIDE DEF none
    <2>2. CASE freed(b)
      <3>1. bbdefs'[b] = [bbdefs[b] EXCEPT !.live = FALSE, !.ctxs = none]
        BY <1>2, <2>2
      <3> QED BY <2>1, <3>1 DEF Def
    <2>3. CASE ~freed(b)
      BY <1>2, <2>3
    <2> QED BY <2>2, <2>3
  <1>4. \A ec \in Stacks : none[ec] = NoContext
    OBVIOUS
  <1> HIDE DEF none, freed
  <1>5. ASSUME NEW j \in Keys, tt'[j] # <<>> PROVE Drawn(j)'
    <2>1. tt'[j] = tt[j] /\ tt[j] # <<>>
      BY <1>1, <1>5 DEF TypeOK
    <2>2. tt[j][1].bbd \in DOMAIN bbdefs
      BY <1>1, <2>1 DEF RefInv, Translated
    <2> QED BY <1>3, <2>1, <2>2, DrawnKept
  <1>6. Contexts'
    <2>1. ASSUME NEW b \in DOMAIN bbdefs', NEW ec \in Stacks,
                 bbdefs'[b].ctxs[ec] # NoContext
          PROVE  /\ bbdefs'[b].index >= 0
                 /\ log'[ctxAt'[bbdefs'[b].ctxs[ec] + 1]] = CONTEXT(bbdefs'[b].index, ec)
      <3>1. /\ b \in DOMAIN bbdefs /\ bbdefs'[b].ctxs = bbdefs[b].ctxs
            /\ bbdefs'[b].index = bbdefs[b].index
        BY <1>2, <1>3, <1>4, <2>1
      <3> QED BY <2>1, <3>1, ContextsKept
    <2> QED BY <2>1 DEF Contexts
  <1> QED BY <1>1, <1>5, <1>6 DEF CodeInv

\* A step outside instrumentation that ends outside an execution and touches neither
\* code nor definitions.
LEMMA CodeIdle ==
  ASSUME CodeInv, RefInv', FileGrows, UNCHANGED <<tt, bbdefs>>,
         mode' # "instr", mode' # "run"
  PROVE  CodeInv'
  BY SameCode DEF CodeInv

\* An execution begins.
LEMMA CodeExecute ==
  ASSUME CodeInv, RefInv', FileGrows, NEW k \in Keys, NEW ec \in Stacks, Execute(k, ec)
  PROVE  CodeInv'
  <1>1. /\ UNCHANGED <<tt, bbdefs>> /\ mode' = "run" /\ cur' = k /\ pc' = 1
        /\ now' = [at |-> k, stack |-> ec, n |-> 0, accs |-> <<>>]
    BY DEF Execute
  <1>2. Started'
    BY <1>1 DEF Started
  <1> QED BY <1>1, <1>2, SameCode DEF CodeInv

\* What the invariant says about the statement that is next, st, and the one before it.
LEMMA AtStatement ==
  ASSUME CodeInv, mode = "run", NEW b, b = tt[cur][1].bbd
  PROVE  /\ Written(b).at = cur
         /\ Written(b).accs \in Seq(Entry)
         /\ stmt \in Statement /\ stmt.bbd = b /\ b \in DOMAIN bbdefs
         /\ pc \in Nat /\ pc >= 1 /\ cur \in Keys /\ tt[cur] # <<>>
         /\ stmt.k <= Len(Written(b).accs) /\ stmt.n >= 1
         /\ stmt.guard # "none" => MayGuard
         /\ pc = 1 => stmt.k = 0 /\ stmt.kind = "imark" /\ stmt.n = 1
         /\ pc > 1 => /\ tt[cur][pc - 1] \in Statement
                      /\ tt[cur][pc - 1].n >= 1
                      /\ Follows(tt[cur][pc - 1], stmt, Written(b).accs)
         /\ stmt.kind = "imark" /\ pc > 1 => stmt.n > 1
  <1>1. RefInv
    BY DEF CodeInv
  <1>2. /\ cur \in Keys /\ tt[cur] # <<>> /\ tt[cur] \in Seq(Statement)
        /\ pc \in Nat /\ pc \in 1..Len(tt[cur]) /\ stmt \in Statement
        /\ pc = 1 => stmt.kind = "imark" /\ stmt.n = 1
    BY <1>1, Running
  <1>3. Drawn(cur) /\ Translated(cur)
    BY <1>1, <1>2 DEF CodeInv, RefInv
  <1>4. Written(b).at = cur /\ Laid(tt[cur], Written(b).accs)
    BY <1>3 DEF Drawn
  <1>5. /\ b \in DOMAIN bbdefs /\ bbdefs[b].index >= 0
        /\ \A j \in DOMAIN tt[cur] : tt[cur][j].bbd = b
    BY <1>3 DEF Translated, Begins
  <1>6. pc \in DOMAIN tt[cur] /\ (pc > 1 => pc - 1 \in DOMAIN tt[cur])
    BY <1>2
  <1>7. Written(b).accs \in Seq(Entry)
    <2>1. bbdefs[b].index + 1 \in DOMAIN defAt
      BY <1>1, <1>5, IndexResolved
    <2>2. Written(b) \in Record /\ Written(b).type = "BBDEF"
      BY <1>1, <2>1 DEF RefInv, WellReferenced, Scans, TypeOK, Written
    <2> QED BY <2>2 DEF Record
  <1>8. /\ stmt.k <= Len(Written(b).accs) /\ stmt.n >= 1
        /\ stmt.guard # "none" => MayGuard
        /\ pc = 1 => stmt.k = 0
        /\ pc > 1 => Follows(tt[cur][pc - 1], stmt, Written(b).accs)
    BY <1>4, <1>6 DEF Laid, stmt
  <1>9. pc > 1 => tt[cur][pc - 1] \in Statement /\ tt[cur][pc - 1].n >= 1
    BY <1>2, <1>4, <1>6 DEF Laid
  <1>10. stmt.kind = "imark" /\ pc > 1 => stmt.n > 1
    <2>1. ASSUME stmt.kind = "imark", pc > 1 PROVE stmt.n > 1
      <3>1. stmt.n = tt[cur][pc - 1].n + 1 /\ tt[cur][pc - 1].n \in Nat
        BY <1>8, <1>9, <2>1 DEF Follows, Statement
      <3> QED BY <1>9, <2>1, <3>1
    <2> QED BY <2>1
  <1> QED BY <1>2, <1>4, <1>5, <1>6, <1>7, <1>8, <1>9, <1>10 DEF stmt

\* The accesses of a statement are a sequence of directions.
LEMMA DirsAreSeq ==
  ASSUME NEW s \in Statement
  PROVE  s.dirs \in Seq(Dirs) /\ Len(s.dirs) \in Nat
  <1>1. s.dirs \in Footprints \cup {<<>>}
    BY DEF Statement
  <1>2. <<>> \in Seq(Dirs)
    OBVIOUS
  <1>3. s.dirs \in Seq(Dirs)
    BY <1>1, <1>2, FootprintIsSeq
  <1> QED BY <1>3

LEMMA Bounded ==
  ASSUME NEW x \in Nat, NEW y \in Nat, NEW d \in Nat, NEW k \in Nat,
         x <= y + d, y <= k
  PROVE  x <= k + d
  OBVIOUS

\* A memory statement takes out_bbr no further than the definition's accesses.
LEMMA CodeMem ==
  ASSUME CodeInv, RefInv', FileGrows, mode = "run", stmt.kind = "mem",
         UNCHANGED <<tt, bbdefs, log, ctxAt, mode, cur>>, pc' = pc + 1,
         now'.at = now.at, now'.n = now.n, now'.stack = now.stack,
         out_bbr'.ctx = out_bbr.ctx, Len(out_bbr'.accs) \in Nat,
         Len(out_bbr'.accs) <= Len(out_bbr.accs) + Len(stmt.dirs)
  PROVE  CodeInv'
  <1>1. PICK b : b = tt[cur][1].bbd
    OBVIOUS
  <1>2. /\ pc \in Nat /\ pc > 1 /\ tt[cur][pc - 1] \in Statement /\ stmt \in Statement
        /\ Follows(tt[cur][pc - 1], stmt, Written(b).accs)
    <2>1. /\ pc \in Nat /\ pc >= 1 /\ (pc = 1 => stmt.kind = "imark")
      BY <1>1, AtStatement
    <2>2. pc > 1
      BY <2>1
    <2> QED BY <1>1, <2>1, <2>2, AtStatement
  <1>3. /\ stmt.n = tt[cur][pc - 1].n
        /\ stmt.k = tt[cur][pc - 1].k + Len(stmt.dirs)
    BY <1>2 DEF Follows
  <1>4. /\ now.at = cur /\ now.n = tt[cur][pc - 1].n
        /\ Len(out_bbr.accs) <= tt[cur][pc - 1].k
        /\ log[ctxAt[out_bbr.ctx + 1]]
             = CONTEXT(bbdefs[tt[cur][1].bbd].index, now.stack)
    BY <1>2 DEF CodeInv, Started
  <1>5. /\ Len(out_bbr.accs) \in Nat /\ Len(stmt.dirs) \in Nat
        /\ tt[cur][pc - 1].k \in Nat /\ stmt.k \in Nat
    <2>1. out_bbr \in Bbr
      BY DEF CodeInv, RefInv, TypeOK
    <2>2. Len(out_bbr.accs) \in Nat
      BY <2>1 DEF Bbr
    <2>3. Len(stmt.dirs) \in Nat
      BY <1>2, DirsAreSeq
    <2> QED BY <1>2, <2>2, <2>3 DEF Statement
  <1>6. Len(out_bbr'.accs) <= stmt.k
    <2>1. Len(out_bbr.accs) <= tt[cur][pc - 1].k
      BY <1>4
    <2> DEFINE x == Len(out_bbr'.accs)
               y == Len(out_bbr.accs)
               d == Len(stmt.dirs)
               k == tt[cur][pc - 1].k
    <2>2. x \in Nat /\ y \in Nat /\ d \in Nat /\ k \in Nat /\ x <= y + d /\ y <= k
      BY <1>5, <2>1
    <2> HIDE DEF x, y, d, k
    <2>3. x <= k + d
      BY <2>2, Bounded
    <2> QED BY <1>3, <2>3 DEF x, d, k
  <1>7. pc' - 1 = pc /\ pc' > 1 /\ tt'[cur'][pc' - 1] = stmt /\ pc' # 1
    BY <1>2 DEF stmt
  <1>8. Started'
    BY <1>3, <1>4, <1>6, <1>7 DEF Started
  <1> QED BY <1>8, SameCode DEF CodeInv

\* The two ways to execute a memory statement that call trace_access.
LEMMA CodeAccess ==
  ASSUME CodeInv, RefInv', FileGrows, NEW a \in Addrs,
         RunAccess(a) \/ RunUntouched(a)
  PROVE  CodeInv'
  <1>1. /\ mode = "run" /\ stmt.kind = "mem" /\ RefInv
        /\ UNCHANGED <<tt, bbdefs, log, ctxAt, mode, cur>> /\ pc' = pc + 1
    BY DEF RunAccess, RunUntouched, CodeInv
  <1>2. now \in Truth /\ out_bbr \in Bbr /\ stmt \in Statement /\ out_bbr.accs \in Seq(Addrs)
    BY <1>1, Running DEF Bbr
  <1>3. now'.at = now.at /\ now'.n = now.n /\ now'.stack = now.stack
    BY <1>2 DEF RunAccess, RunUntouched, Truth
  <1>4. stmt.dirs \in Seq(Dirs) /\ Len(stmt.dirs) \in Nat
    BY <1>2, DirsAreSeq
  <1>5. Traced(stmt.dirs, a) \in Seq(Addrs) /\ Len(Traced(stmt.dirs, a)) = Len(stmt.dirs)
    BY <1>4, FunctionIsSeq DEF Traced
  <1>6. /\ out_bbr'.ctx = out_bbr.ctx
        /\ out_bbr'.accs = out_bbr.accs \o Traced(stmt.dirs, a)
    BY <1>2 DEF RunAccess, RunUntouched, Bbr
  <1>7. /\ Len(out_bbr'.accs) \in Nat
        /\ Len(out_bbr'.accs) <= Len(out_bbr.accs) + Len(stmt.dirs)
    <2>1. out_bbr.accs \in Seq(Addrs) /\ Len(out_bbr.accs) \in Nat
      BY <1>2
    <2>2. Len(out_bbr.accs \o Traced(stmt.dirs, a))
            = Len(out_bbr.accs) + Len(Traced(stmt.dirs, a))
      BY <1>5, <2>1, ConcatProperties
    <2> DEFINE x == Len(out_bbr'.accs)
               y == Len(out_bbr.accs)
               d == Len(stmt.dirs)
    <2>3. y \in Nat /\ d \in Nat
      BY <1>4, <2>1
    <2>4. Len(out_bbr'.accs) = Len(out_bbr.accs) + Len(stmt.dirs)
      BY <1>5, <1>6, <2>2
    <2> HIDE DEF x, y, d
    <2>5. x = y + d
      BY <2>4 DEF x, y, d
    <2>6. x \in Nat /\ x <= y + d
      BY <2>3, <2>5
    <2> QED BY <2>6 DEF x, y, d
  <1> QED BY <1>1, <1>3, <1>6, <1>7, CodeMem

\* A memory statement whose guard is false.
LEMMA CodeSkipped ==
  ASSUME CodeInv, RefInv', FileGrows, RunSkipped
  PROVE  CodeInv'
  <1> DEFINE x == Len(out_bbr.accs)
             d == Len(stmt.dirs)
  <1>1. /\ mode = "run" /\ stmt.kind = "mem" /\ RefInv /\ pc' = pc + 1
        /\ UNCHANGED <<tt, bbdefs, log, ctxAt, mode, cur, now, out_bbr>>
    BY DEF RunSkipped, CodeInv
  <1>2. stmt \in Statement /\ out_bbr \in Bbr
    BY <1>1, Running
  <1>3. x \in Nat /\ d \in Nat
    BY <1>2, DirsAreSeq DEF Bbr
  <1> HIDE DEF x, d
  <1>4. x <= x + d
    BY <1>3
  <1>5. Len(out_bbr'.accs) \in Nat /\ Len(out_bbr'.accs) <= Len(out_bbr.accs) + Len(stmt.dirs)
    BY <1>1, <1>3, <1>4 DEF x, d
  <1> QED BY <1>1, <1>5, CodeMem

\* A side exit that is not taken.
LEMMA CodeStay ==
  ASSUME CodeInv, RefInv', FileGrows, RunStay
  PROVE  CodeInv'
  <1>1. /\ mode = "run" /\ stmt.kind = "exit" /\ pc' = pc + 1
        /\ UNCHANGED <<tt, bbdefs, log, ctxAt, mode, cur, now>>
        /\ out_bbr' = [out_bbr EXCEPT !.n = stmt.n]
    BY DEF RunStay, trace_update_instrs
  <1>2. PICK b : b = tt[cur][1].bbd
    OBVIOUS
  <1>3. /\ pc \in Nat /\ pc > 1 /\ Follows(tt[cur][pc - 1], stmt, Written(b).accs)
    <2>1. /\ pc \in Nat /\ pc >= 1 /\ (pc = 1 => stmt.kind = "imark")
      BY <1>1, <1>2, AtStatement
    <2>2. pc > 1
      BY <1>1, <2>1
    <2> QED BY <1>1, <1>2, <2>1, <2>2, AtStatement
  <1>4. stmt.n = tt[cur][pc - 1].n /\ stmt.k = tt[cur][pc - 1].k
    BY <1>1, <1>3 DEF Follows
  <1>5. out_bbr'.ctx = out_bbr.ctx /\ out_bbr'.accs = out_bbr.accs
    BY <1>1 DEF CodeInv, RefInv, TypeOK, Bbr
  <1>6. pc' - 1 = pc /\ pc' > 1 /\ tt'[cur'][pc' - 1] = stmt /\ pc' # 1
    BY <1>1, <1>3 DEF stmt
  <1>7. /\ now.at = cur /\ now.n = tt[cur][pc - 1].n
        /\ Len(out_bbr.accs) <= tt[cur][pc - 1].k
        /\ log[ctxAt[out_bbr.ctx + 1]]
             = CONTEXT(bbdefs[tt[cur][1].bbd].index, now.stack)
    BY <1>1, <1>3 DEF CodeInv, Started
  <1>8. Started'
    BY <1>1, <1>4, <1>5, <1>6, <1>7 DEF Started
  <1> QED BY <1>1, <1>8, SameCode DEF CodeInv

\* trace_bb_start leaves in out_bbr the ordinal of the context of this definition and
\* this stack, found or newly written.
LEMMA StartContext ==
  ASSUME CodeInv, RefInv', FileGrows, mode = "run", trace_bb_start(stmt.bbd)
  PROVE  /\ log'[ctxAt'[out_bbr'.ctx + 1]] = CONTEXT(bbdefs[stmt.bbd].index, now.stack)
         /\ \A x \in DOMAIN bbdefs : bbdefs'[x].index = bbdefs[x].index
         /\ DOMAIN bbdefs' = DOMAIN bbdefs
         /\ out_bbr'.accs = <<>> /\ out_bbr'.n = 0
         /\ Contexts'
  <1> DEFINE b == stmt.bbd
             ec == now.stack
  <1>1. RefInv /\ TypeOK /\ Contexts
    BY DEF CodeInv, RefInv
  <1>2. /\ b \in DOMAIN bbdefs /\ bbdefs[b] \in Def /\ bbdefs[b].index >= 0
        /\ ec \in Stacks /\ bbdefs \in Seq(Def)
    <2>1. now \in Truth /\ b \in DOMAIN bbdefs /\ bbdefs[b] \in Def
          /\ bbdefs[b].index >= 0
      BY <1>1, Running
    <2> QED BY <1>1, <2>1 DEF TypeOK, Truth
  <1>3. CASE bbdefs[b].ctxs[ec] # NoContext
    <2>1. /\ bbdefs' = bbdefs
          /\ out_bbr' = [ctx |-> bbdefs[b].ctxs[ec], n |-> 0, accs |-> <<>>]
      BY <1>3 DEF trace_bb_start
    <2>2. log'[ctxAt'[bbdefs[b].ctxs[ec] + 1]] = CONTEXT(bbdefs[b].index, ec)
      BY <1>2, <1>3, <2>1, ContextsKept
    <2>3. Contexts'
      BY <2>1, ContextsKept DEF Contexts
    <2> QED BY <2>1, <2>2, <2>3
  <1>4. CASE bbdefs[b].ctxs[ec] = NoContext
    <2> DEFINE r == CONTEXT(bbdefs[b].index, ec)
               c == [bbdefs[b].ctxs EXCEPT ![ec] = global_context_index]
               e == [bbdefs[b] EXCEPT !.ctxs = c]
    <2>1. /\ log' = Append(FlushedLog, r)
          /\ ctxAt' = Append(ctxAt, Len(FlushedLog) + 1)
          /\ bbdefs' = [bbdefs EXCEPT ![b] = e]
          /\ out_bbr' = [ctx |-> global_context_index, n |-> 0, accs |-> <<>>]
      BY <1>4 DEF trace_bb_start
    <2>2. global_context_index = Len(ctxAt) /\ ctxAt \in Seq(Nat \ {0})
      BY <1>1 DEF RefInv, Counters, TypeOK, Positions
    <2>3. FlushedLog \in Seq(Record)
      BY <1>1, FlushKeeps
    <2> HIDE DEF r
    <2>4. log'[ctxAt'[global_context_index + 1]] = r
      <3>1. ctxAt'[Len(ctxAt) + 1] = Len(FlushedLog) + 1
        BY <2>1, <2>2
      <3>2. log'[Len(FlushedLog) + 1] = r
        BY <2>1, <2>3
      <3> QED BY <2>2, <3>1, <3>2
    <2>5. /\ e.index = bbdefs[b].index /\ e.ctxs = c
      BY <1>2 DEF Def
    <2>6. \A x \in Stacks : c[x] = IF x = ec THEN global_context_index
                                    ELSE bbdefs[b].ctxs[x]
      BY <1>2 DEF Def
    <2> HIDE DEF e, c
    <2>7. /\ DOMAIN bbdefs' = DOMAIN bbdefs /\ bbdefs'[b] = e
          /\ \A x \in DOMAIN bbdefs : x # b => bbdefs'[x] = bbdefs[x]
      BY <1>2, <2>1
    <2>8. Contexts'
      <3>1. ASSUME NEW x \in DOMAIN bbdefs', NEW y \in Stacks,
                   bbdefs'[x].ctxs[y] # NoContext
            PROVE  /\ bbdefs'[x].index >= 0
                   /\ log'[ctxAt'[bbdefs'[x].ctxs[y] + 1]] = CONTEXT(bbdefs'[x].index, y)
        <4>1. CASE x = b /\ y = ec
          BY <1>2, <2>4, <2>5, <2>6, <2>7, <4>1 DEF r
        <4>2. CASE ~(x = b /\ y = ec)
          <5>1. /\ x \in DOMAIN bbdefs /\ bbdefs'[x].index = bbdefs[x].index
                /\ bbdefs'[x].ctxs[y] = bbdefs[x].ctxs[y]
            BY <2>5, <2>6, <2>7, <4>2
          <5> QED BY <3>1, <5>1, ContextsKept
        <4> QED BY <4>1, <4>2
      <3> QED BY <3>1 DEF Contexts
    <2> QED BY <2>1, <2>4, <2>5, <2>7, <2>8 DEF r
  <1> QED BY <1>3, <1>4

\* An instruction: the first of a definition starts the run.
LEMMA CodeIMark ==
  ASSUME CodeInv, RefInv', FileGrows, RunIMark
  PROVE  CodeInv'
  <1>1. /\ mode = "run" /\ stmt.kind = "imark" /\ RefInv
        /\ now' = [now EXCEPT !.n = @ + 1] /\ pc' = pc + 1 /\ UNCHANGED <<tt, cur>>
    BY DEF RunIMark, CodeInv
  <1>2. PICK b : b = tt[cur][1].bbd
    OBVIOUS
  <1>3. now \in Truth /\ now.n \in Nat
    BY <1>1, Running DEF Truth
  <1>4. /\ now'.at = now.at /\ now'.stack = now.stack /\ now'.n = now.n + 1
        /\ now'.accs = now.accs
    BY <1>1, <1>3 DEF Truth
  <1>5. /\ pc \in Nat /\ pc >= 1 /\ stmt \in Statement /\ stmt.bbd = b /\ b \in DOMAIN bbdefs
        /\ pc = 1 => stmt.k = 0 /\ stmt.n = 1
        /\ pc > 1 => Follows(tt[cur][pc - 1], stmt, Written(b).accs)
        /\ pc > 1 => stmt.n > 1
    BY <1>1, <1>2, AtStatement
  <1>6. pc' - 1 = pc /\ pc' > 1 /\ tt'[cur'][pc' - 1] = stmt /\ pc' # 1
    BY <1>1, <1>5 DEF stmt
  <1>7. Started
    BY <1>1 DEF CodeInv
  <1>8. CASE pc > 1
    <2>1. UNCHANGED <<log, bbdefs, traceVars, mode>>
      BY <1>5, <1>8 DEF RunIMark
    <2>2. stmt.n = tt[cur][pc - 1].n + 1 /\ stmt.k = tt[cur][pc - 1].k
      BY <1>1, <1>5, <1>8 DEF Follows
    <2>3. Started'
      BY <1>1, <1>4, <1>6, <1>7, <1>8, <2>1, <2>2 DEF Started
    <2> QED BY <1>1, <2>1, <2>3, SameCode DEF CodeInv
  <1>9. CASE pc = 1 /\ FlushFails
    <2>1. UNCHANGED bbdefs /\ mode' = "panic"
      BY <1>5, <1>9 DEF RunIMark
    <2> QED BY <1>1, <2>1, CodeIdle
  <1>10. CASE pc = 1 /\ ~FlushFails
    <2>1. trace_bb_start(stmt.bbd) /\ mode' = mode
      BY <1>5, <1>10 DEF RunIMark
    <2>2. /\ log'[ctxAt'[out_bbr'.ctx + 1]] = CONTEXT(bbdefs[stmt.bbd].index, now.stack)
          /\ \A x \in DOMAIN bbdefs : bbdefs'[x].index = bbdefs[x].index
          /\ out_bbr'.accs = <<>> /\ Contexts'
      BY <1>1, <2>1, StartContext
    <2>3. ASSUME NEW k \in Keys, tt'[k] # <<>> PROVE Drawn(k)'
      <3>1. tt[k][1].bbd \in DOMAIN bbdefs
        BY <1>1, <2>3 DEF RefInv, Translated
      <3> QED BY <1>1, <2>2, <2>3, <3>1, DrawnKept
    <2>4. now'.n = 1 /\ Len(out_bbr'.accs) = 0
      BY <1>3, <1>4, <1>7, <1>10, <2>2 DEF Started
    <2>5. bbdefs'[tt'[cur'][1].bbd].index = bbdefs[stmt.bbd].index
      BY <1>1, <1>2, <1>5, <2>2
    <2>6. Started'
      BY <1>1, <1>4, <1>5, <1>6, <1>7, <1>10, <2>2, <2>4, <2>5 DEF Started
    <2> QED BY <1>1, <2>1, <2>2, <2>3, <2>6 DEF CodeInv
  <1> QED BY <1>5, <1>8, <1>9, <1>10

\* Every step keeps code, definitions and contexts related.
LEMMA CodeStep ==
  ASSUME CodeInv, [Next]_vars
  PROVE  CodeInv' /\ RefInv' /\ FileGrows
  <1>1. RefInv' /\ FileGrows
    BY RefStep, Grow DEF CodeInv, RefInv
  <1>2. CASE Instrument
    <2>1. CASE AddUnsupported
      BY <1>1, <2>1, CodeIdle DEF AddUnsupported
    <2> QED BY <1>1, <1>2, <2>1, CodeBegin, CodeAddInstr, CodeAddAccess, CodeAddExit, CodeEnd
            DEF Instrument
  <1>3. CASE Run
    <2>1. CASE RunLeave \/ RunTrap \/ \E a \in Addrs : RunFault(a)
      <3>1. mode' = "sched" /\ UNCHANGED <<tt, bbdefs>>
        BY <2>1 DEF RunLeave, RunTrap, RunFault, Leave, trace_update_instrs
      <3> QED BY <1>1, <3>1, CodeIdle
    <2> QED BY <1>1, <1>3, <2>1, CodeExecute, CodeIMark, CodeAccess, CodeSkipped, CodeStay
            DEF Run
  <1>4. CASE \E k \in Keys : dg_discard_superblock_info(k)
    BY <1>1, <1>4, CodeDiscard
  <1>5. CASE dg_fini
    <2>1. UNCHANGED <<tt, bbdefs>> /\ mode' \in {"panic", "done"}
      BY <1>5 DEF dg_fini
    <2> QED BY <1>1, <2>1, CodeIdle
  <1>6. CASE dg_handle_client_request
    BY <1>1, <1>6, CodeIdle DEF dg_handle_client_request
  <1>7. CASE UNCHANGED vars
    <2>1. UNCHANGED <<tt, bbdefs>> /\ (Drawing => Drawing') /\ (Started => Started')
          /\ mode' = mode
      BY <1>7 DEF vars, Drawing, Started, bbd
    <2> QED BY <1>1, <2>1, SameCode DEF CodeInv
  <1> QED BY <1>1, <1>2, <1>3, <1>4, <1>5, <1>6, <1>7 DEF Next, Terminating

\* The code of every translation lays out exactly the accesses of the BBDEF that its
\* DgBBDef's index names, every remembered context is in the file, and out_bbr belongs
\* to the block that runs, with faults, guards, discards and client requests.
THEOREM CodeInvariant == Spec => []CodeInv
  <1>1. CodeInv /\ [Next]_vars => CodeInv'
    BY CodeStep
  <1> QED BY <1>1, CodeInit, PTL DEF Spec

-----------------------------------------------------------------------------
(* The invariant for exact runs.                                           *)

\* A reader of the file finds in record r what execution h did.
Tells(lg, defs, ctxs, r, h) ==
  LET c == lg[ctxs[r.ctx + 1]]
      d == lg[defs[c.bbdef + 1]]
  IN /\ d.at = h.at /\ c.stack = h.stack /\ r.n = h.n
     /\ Len(r.addrs) = Len(h.accs) /\ Len(h.accs) <= Len(d.accs)
     /\ \A i \in 1..Len(h.accs) :
          h.accs[i] = [dir |-> d.accs[i].dir, iseq |-> d.accs[i].iseq,
                       addr |-> r.addrs[i]]

\* out_bbr has what the current execution did so far.
Collected ==
  LET d == Written(tt[cur][1].bbd)
  IN /\ Len(now.accs) = tt[cur][pc - 1].k
     /\ Len(out_bbr.accs) = Len(now.accs)
     /\ \A i \in 1..Len(now.accs) :
          now.accs[i] = [dir |-> d.accs[i].dir, iseq |-> d.accs[i].iseq,
                         addr |-> out_bbr.accs[i]]
     /\ Len(happened) = Len(runAt)

\* Between executions out_bbr has the last one, or nothing and all are written.
Waiting ==
  /\ out_bbr.n > 0 => /\ Len(happened) = Len(runAt) + 1
                      /\ Tells(log, defAt, ctxAt, BBRUN(out_bbr),
                               happened[Len(happened)])
  /\ out_bbr.n = 0 => out_bbr.accs = <<>> /\ Len(happened) = Len(runAt)

RunInv ==
  /\ CodeInv
  /\ mode = "panic" => MayUnsupported
  /\ IF mode = "run" /\ pc > 1 THEN Collected ELSE Waiting
  /\ \A i \in DOMAIN runAt : /\ i \in DOMAIN happened
                             /\ Tells(log, defAt, ctxAt, log[runAt[i]], happened[i])
  /\ EventPlacement

\* The references of a run that the file resolves.
LEMMA RunResolved ==
  ASSUME RefInv, NEW c \in Nat, c + 1 \in DOMAIN ctxAt
  PROVE  /\ log[ctxAt[c + 1]] \in Record /\ log[ctxAt[c + 1]].type = "CONTEXT"
         /\ log[ctxAt[c + 1]].bbdef \in Nat
         /\ log[ctxAt[c + 1]].bbdef + 1 \in DOMAIN defAt
         /\ log[defAt[log[ctxAt[c + 1]].bbdef + 1]] \in Record
         /\ log[defAt[log[ctxAt[c + 1]].bbdef + 1]].type = "BBDEF"
  <1> DEFINE p == ctxAt[c + 1]
             q == defAt[log[p].bbdef + 1]
  <1>1. /\ log \in Seq(Record) /\ Scans(log, ctxAt, "CONTEXT") /\ Scans(log, defAt, "BBDEF")
        /\ Resolves(log, defAt, ctxAt)
    BY DEF RefInv, TypeOK, WellReferenced
  <1>2. p \in DOMAIN log /\ log[p].type = "CONTEXT"
    BY <1>1 DEF Scans
  <1>3. log[p] \in Record
    BY <1>1, <1>2
  <1>4. log[p].bbdef \in Nat
    BY <1>2, <1>3 DEF Record
  <1>5. log[p].bbdef + 1 \in DOMAIN defAt
    BY <1>1, <1>2 DEF Resolves
  <1>6. q \in DOMAIN log /\ log[q].type = "BBDEF"
    BY <1>1, <1>5 DEF Scans
  <1>7. log[q] \in Record
    BY <1>1, <1>6
  <1> QED BY <1>2, <1>3, <1>4, <1>5, <1>6, <1>7

\* What a record tells does not change when the file grows.
LEMMA TellsKept ==
  ASSUME RefInv, FileGrows, NEW r, NEW h, r.ctx \in Nat, r.ctx + 1 \in DOMAIN ctxAt,
         Tells(log, defAt, ctxAt, r, h)
  PROVE  Tells(log', defAt', ctxAt', r, h)
  <1> DEFINE c == log[ctxAt[r.ctx + 1]]
  <1>1. c.bbdef \in Nat /\ c.bbdef + 1 \in DOMAIN defAt
    BY RunResolved
  <1>2. log'[ctxAt'[r.ctx + 1]] = c
    BY RecordKept
  <1> HIDE DEF c
  <1>3. log'[defAt'[c.bbdef + 1]] = log[defAt[c.bbdef + 1]]
    BY <1>1, RecordKept
  <1> QED BY <1>2, <1>3 DEF Tells, c

\* A BBRUN in the file names a context in the file.
LEMMA RunRecord ==
  ASSUME RefInv, NEW i \in DOMAIN runAt
  PROVE  /\ runAt[i] \in DOMAIN log /\ log[runAt[i]] \in Record
         /\ log[runAt[i]].ctx \in Nat /\ log[runAt[i]].ctx + 1 \in DOMAIN ctxAt
         /\ log[runAt[i]].n \in Nat /\ log[runAt[i]].addrs \in Seq(Addrs)
         /\ log[runAt[i]].type = "BBRUN"
  <1>1. /\ log \in Seq(Record) /\ Scans(log, runAt, "BBRUN")
        /\ Resolves(log, defAt, ctxAt)
    BY DEF RefInv, TypeOK, WellReferenced
  <1>2. runAt[i] \in DOMAIN log /\ log[runAt[i]].type = "BBRUN"
    BY <1>1 DEF Scans
  <1>3. log[runAt[i]] \in Record
    BY <1>1, <1>2
  <1>4. /\ log[runAt[i]].ctx \in Nat /\ log[runAt[i]].n \in Nat
        /\ log[runAt[i]].addrs \in Seq(Addrs)
    BY <1>2, <1>3 DEF Record
  <1> QED BY <1>1, <1>2, <1>3, <1>4 DEF Resolves

\* The runs that are in the file go on telling what happened.
LEMMA RunsKept ==
  ASSUME RunInv, FileGrows, NEW i \in DOMAIN runAt
  PROVE  /\ i \in DOMAIN happened'
         /\ Tells(log', defAt', ctxAt', log'[runAt'[i]], happened'[i])
  <1>1. RefInv
    BY DEF RunInv, CodeInv
  <1>2. i \in DOMAIN happened /\ Tells(log, defAt, ctxAt, log[runAt[i]], happened[i])
    BY DEF RunInv
  <1>3. log'[runAt'[i]] = log[runAt[i]] /\ happened'[i] = happened[i] /\ i \in DOMAIN happened'
    BY <1>1, <1>2, RunRecord DEF FileGrows, Kept
  <1> QED BY <1>1, <1>2, <1>3, RunRecord, TellsKept

\* A run that is counted names a context in the file.
LEMMA PendingResolved ==
  ASSUME RefInv, out_bbr.n > 0
  PROVE  /\ BBRUN(out_bbr).ctx \in Nat /\ BBRUN(out_bbr).ctx + 1 \in DOMAIN ctxAt
         /\ BBRUN(out_bbr).ctx = out_bbr.ctx /\ BBRUN(out_bbr).n = out_bbr.n
         /\ BBRUN(out_bbr).addrs = out_bbr.accs
  <1>1. BBRUN(out_bbr).ctx = out_bbr.ctx /\ BBRUN(out_bbr).n = out_bbr.n
        /\ BBRUN(out_bbr).addrs = out_bbr.accs
    BY DEF BBRUN
  <1>2. out_bbr.ctx \in Nat /\ out_bbr.ctx < Len(ctxAt)
    BY DEF RefInv, TypeOK, Pending, Bbr
  <1>3. Len(ctxAt) \in Nat /\ DOMAIN ctxAt = 1..Len(ctxAt)
    BY DEF RefInv, TypeOK, Positions
  <1>4. out_bbr.ctx + 1 \in DOMAIN ctxAt
    BY <1>2, <1>3
  <1> QED BY <1>1, <1>2, <1>4

\* A run that waits goes on waiting.
LEMMA WaitingKept ==
  ASSUME RefInv, Waiting, FileGrows, UNCHANGED <<out_bbr, runAt, happened>>
  PROVE  Waiting'
  <1>1. ASSUME out_bbr.n > 0
        PROVE  Tells(log', defAt', ctxAt', BBRUN(out_bbr), happened[Len(happened)])
    BY <1>1, PendingResolved, TellsKept DEF Waiting
  <1>2. BBRUN(out_bbr)' = BBRUN(out_bbr)
    BY DEF BBRUN
  <1> QED BY <1>1, <1>2 DEF Waiting

\* The runs before a record that is in the file stay the same ones.
LEMMA BeforeKept ==
  ASSUME RefInv, RefInv', FileGrows, NEW p \in DOMAIN log
  PROVE  {i \in DOMAIN runAt' : runAt'[i] < p} = {i \in DOMAIN runAt : runAt[i] < p}
  <1>1. /\ Scans(log, runAt, "BBRUN") /\ Scans(log', runAt', "BBRUN")
        /\ log \in Seq(Record) /\ log' \in Seq(Record)
        /\ runAt' \in Seq(Nat \ {0}) /\ runAt \in Seq(Nat \ {0})
    BY DEF RefInv, WellReferenced, TypeOK, Positions
  <1>2. /\ \A i \in DOMAIN runAt : i \in DOMAIN runAt' /\ runAt'[i] = runAt[i]
        /\ \A q \in DOMAIN log : q \in DOMAIN log' /\ log'[q] = log[q]
    BY DEF FileGrows, Kept
  <1>3. ASSUME NEW i \in DOMAIN runAt', runAt'[i] < p PROVE i \in DOMAIN runAt
    <2>1. runAt'[i] \in Nat /\ runAt'[i] >= 1 /\ p \in 1..Len(log) /\ Len(log) \in Nat
          /\ DOMAIN log = 1..Len(log)
      BY <1>1
    <2>2. runAt'[i] \in DOMAIN log
      BY <1>3, <2>1
    <2>3. log'[runAt'[i]].type = "BBRUN"
      BY <1>1 DEF Scans
    <2>4. log[runAt'[i]].type = "BBRUN"
      BY <1>2, <2>2, <2>3
    <2>5. PICK j \in DOMAIN runAt : runAt[j] = runAt'[i]
      BY <1>1, <2>2, <2>4 DEF Scans
    <2>6. j \in DOMAIN runAt' /\ runAt'[j] = runAt'[i]
      BY <1>2, <2>5
    <2>7. ~(i < j) /\ ~(j < i)
      <3>1. i < j => runAt'[i] < runAt'[j]
        BY <1>1, <2>6 DEF Scans
      <3>2. j < i => runAt'[j] < runAt'[i]
        BY <1>1, <2>6 DEF Scans
      <3> QED BY <2>1, <2>6, <3>1, <3>2
    <2>8. i \in Int /\ j \in Int
      BY <1>1, <2>6
    <2> QED BY <2>5, <2>7, <2>8
  <1> QED BY <1>2, <1>3

\* Events that are in the file stay well placed.
LEMMA EventKept ==
  ASSUME RunInv, RefInv', FileGrows,
         \A p \in DOMAIN log' : log'[p].type = "EVENT" => p \in DOMAIN log
  PROVE  EventPlacement'
  <1>1. RefInv /\ EventPlacement
    BY DEF RunInv, CodeInv
  <1>2. ASSUME NEW p \in DOMAIN log', log'[p].type = "EVENT"
        PROVE  /\ Cardinality({i \in DOMAIN runAt' : runAt'[i] < p}) <= log'[p].after
               /\ log'[p].after <= Cardinality({i \in DOMAIN runAt' : runAt'[i] < p}) + 1
    <2>1. p \in DOMAIN log /\ log'[p] = log[p]
      BY <1>2 DEF FileGrows, Kept
    <2> QED BY <1>1, <1>2, <2>1, BeforeKept DEF EventPlacement
  <1> QED BY <1>2 DEF EventPlacement

\* What a step must show that writes no event.
LEMMA RunKeep ==
  ASSUME RunInv, CodeInv', FileGrows, mode' = "panic" => MayUnsupported,
         \A p \in DOMAIN log' : log'[p].type = "EVENT" => p \in DOMAIN log,
         IF mode' = "run" /\ pc' > 1 THEN Collected' ELSE Waiting',
         runAt' = runAt
  PROVE  RunInv'
  BY EventKept, RunsKept DEF RunInv, CodeInv

\* Initially nothing has happened.
LEMMA RunInit == Init => RunInv
  <1> SUFFICES ASSUME Init PROVE RunInv
    OBVIOUS
  <1>1. CodeInv
    BY CodeInit
  <1>2. Waiting /\ EventPlacement /\ mode = "sched" /\ DOMAIN runAt = {}
    BY DEF Init, Waiting, EventPlacement
  <1> QED BY <1>1, <1>2 DEF RunInv

\* Translation, discards and entering a translation leave the waiting run alone.
LEMMA RunAside ==
  ASSUME RunInv, CodeInv', FileGrows, mode # "run" \/ pc = 1,
         UNCHANGED <<out_bbr, runAt, happened>>,
         mode' = "panic" => MayUnsupported, mode' = "run" => pc' = 1,
         \A p \in DOMAIN log' : log'[p].type = "EVENT" => p \in DOMAIN log
  PROVE  RunInv'
  <1>1. RefInv /\ Waiting
    BY DEF RunInv, CodeInv
  <1>2. Waiting' /\ ~(mode' = "run" /\ pc' > 1)
    BY <1>1, WaitingKept
  <1> QED BY <1>2, RunKeep

\* A BBDEF is not an event.
LEMMA DefNoEvent ==
  ASSUME TypeOK, dg_bbdef_flush
  PROVE  \A p \in DOMAIN log' : log'[p].type = "EVENT" => p \in DOMAIN log
  <1>1. CASE bbd.n = 0
    BY <1>1 DEF dg_bbdef_flush
  <1>2. CASE bbd.n # 0
    <2> DEFINE r == BBDEF(bbd.at, bbd.n, bbd.accs)
    <2>1. log \in Seq(Record) /\ log' = Append(log, r)
      BY <1>2 DEF dg_bbdef_flush, TypeOK
    <2>2. r.type = "BBDEF"
      BY DEF BBDEF
    <2> HIDE DEF r
    <2>3. /\ Len(log) \in Nat /\ DOMAIN log = 1..Len(log)
          /\ DOMAIN log' = 1..(Len(log) + 1) /\ log'[Len(log) + 1] = r
      BY <2>1
    <2> QED BY <2>2, <2>3
  <1> QED BY <1>1, <1>2

LEMMA RunInstrument ==
  ASSUME RunInv, CodeInv', FileGrows, Instrument
  PROVE  RunInv'
  <1>1. TypeOK
    BY DEF RunInv, CodeInv, RefInv
  <1>2. UNCHANGED <<out_bbr, runAt, happened>> /\ mode \in {"sched", "instr"}
    BY DEF Instrument, InstrumentBegin, AddInstr, AddAccess, AddExit, AddUnsupported,
           InstrumentEnd
  <1>3. mode' # "run" /\ (mode' = "panic" => MayUnsupported)
    BY <1>2 DEF Instrument, InstrumentBegin, AddInstr, AddAccess, AddExit, AddUnsupported,
           InstrumentEnd
  <1>4. log' = log \/ dg_bbdef_flush
    BY DEF Instrument, InstrumentBegin, AddInstr, AddAccess, AddExit, AddUnsupported,
           InstrumentEnd, dg_bbdef_add_instr
  <1>5. \A p \in DOMAIN log' : log'[p].type = "EVENT" => p \in DOMAIN log
    BY <1>1, <1>4, DefNoEvent
  <1> QED BY <1>2, <1>3, <1>5, RunAside

\* The record of an event counts the runs before it.
LEMMA RunEvent ==
  ASSUME RunInv, CodeInv', FileGrows, dg_handle_client_request
  PROVE  RunInv'
  <1>1. /\ RefInv /\ TypeOK /\ Waiting /\ EventPlacement
        /\ UNCHANGED <<out_bbr, runAt, happened, mode>> /\ mode = "sched"
        /\ log' = Append(log, EVENT)
    BY DEF RunInv, CodeInv, RefInv, dg_handle_client_request
  <1>2. Waiting'
    BY <1>1, WaitingKept
  <1>3. /\ log \in Seq(Record) /\ runAt \in Seq(Nat \ {0}) /\ out_bbr.n \in Nat
        /\ Scans(log, runAt, "BBRUN") /\ Len(runAt) \in Nat /\ Len(happened) \in Nat
    BY <1>1 DEF TypeOK, Positions, Bbr, RefInv, WellReferenced
  <1>4. /\ Len(log) \in Nat /\ DOMAIN log = 1..Len(log)
        /\ DOMAIN log' = 1..(Len(log) + 1) /\ log'[Len(log) + 1] = EVENT
        /\ \A p \in 1..Len(log) : log'[p] = log[p]
    BY <1>1, <1>3
  <1>5. Len(runAt) <= Len(happened) /\ Len(happened) <= Len(runAt) + 1
    <2>1. Len(happened) = Len(runAt) \/ Len(happened) = Len(runAt) + 1
      BY <1>1, <1>3 DEF Waiting
    <2> QED BY <1>3, <2>1
  <1>6. EventPlacement'
    <2>1. ASSUME NEW p \in DOMAIN log', log'[p].type = "EVENT"
          PROVE  /\ Cardinality({i \in DOMAIN runAt' : runAt'[i] < p}) <= log'[p].after
                 /\ log'[p].after <= Cardinality({i \in DOMAIN runAt' : runAt'[i] < p}) + 1
      <3>1. CASE p \in DOMAIN log
        BY <1>1, <1>4, <2>1, <3>1 DEF EventPlacement
      <3>2. CASE p = Len(log) + 1
        <4>1. \A i \in DOMAIN runAt : runAt[i] < p
          BY <1>3, <1>4, <3>2 DEF Scans
        <4>2. {i \in DOMAIN runAt' : runAt'[i] < p} = 1..Len(runAt)
          BY <1>1, <1>3, <4>1
        <4>3. Cardinality(1..Len(runAt)) = Len(runAt)
          <5> DEFINE l == Len(runAt)
          <5>1. l \in Nat
            BY <1>3
          <5> HIDE DEF l
          <5>2. Cardinality(1..l) = l
            BY <5>1, FS_Interval
          <5> QED BY <5>2 DEF l
        <4>4. log'[p].after = Len(happened)
          BY <1>4, <3>2 DEF EVENT
        <4> QED BY <1>5, <4>2, <4>3, <4>4
      <3> QED BY <1>4, <3>1, <3>2
    <2> QED BY <2>1 DEF EventPlacement
  <1>7. \A i \in DOMAIN runAt' : /\ i \in DOMAIN happened'
                                 /\ Tells(log', defAt', ctxAt', log'[runAt'[i]], happened'[i])
    BY <1>1, RunsKept
  <1> QED BY <1>1, <1>2, <1>6, <1>7 DEF RunInv

\* trace_bb_flush writes the run that waits, exactly as it happened.
LEMMA FlushTells ==
  ASSUME RunInv, Waiting, FileGrows, Kept(FlushedLog, log'), runAt' = FlushedRunAt,
         happened' = happened
  PROVE  /\ Len(happened') = Len(runAt')
         /\ \A i \in DOMAIN runAt' :
              /\ i \in DOMAIN happened'
              /\ Tells(log', defAt', ctxAt', log'[runAt'[i]], happened'[i])
  <1>1. RefInv /\ TypeOK
    BY DEF RunInv, CodeInv, RefInv
  <1>2. /\ log \in Seq(Record) /\ runAt \in Seq(Nat \ {0}) /\ out_bbr.n \in Nat
        /\ happened \in Seq(Truth)
    BY <1>1 DEF TypeOK, Positions, Bbr
  <1>3. CASE out_bbr.n = 0
    BY <1>2, <1>3, RunsKept DEF Waiting, FlushedRunAt
  <1>4. CASE out_bbr.n > 0
    <2> DEFINE r == BBRUN(out_bbr)
               m == Len(happened)
    <2>1. /\ FlushedLog = Append(log, r) /\ runAt' = Append(runAt, Len(log) + 1)
          /\ m = Len(runAt) + 1 /\ Tells(log, defAt, ctxAt, r, happened[m])
      BY <1>4 DEF FlushedLog, FlushedRunAt, Waiting
    <2> HIDE DEF r, m
    <2>2. Tells(log', defAt', ctxAt', r, happened[m])
      BY <1>1, <1>4, <2>1, PendingResolved, TellsKept DEF r
    <2>3. Len(log) + 1 \in DOMAIN FlushedLog /\ FlushedLog[Len(log) + 1] = r
      BY <1>2, <2>1
    <2>4. log'[Len(log) + 1] = r
      BY <2>3 DEF Kept
    <2>5. /\ Len(runAt) \in Nat /\ Len(runAt') = Len(runAt) + 1
          /\ DOMAIN runAt = 1..Len(runAt) /\ DOMAIN runAt' = 1..(Len(runAt) + 1)
          /\ runAt'[Len(runAt) + 1] = Len(log) + 1
      BY <1>2, <2>1
    <2>6. m \in DOMAIN happened
      BY <1>2, <2>1, <2>5 DEF m
    <2>7. ASSUME NEW i \in DOMAIN runAt'
          PROVE  /\ i \in DOMAIN happened'
                 /\ Tells(log', defAt', ctxAt', log'[runAt'[i]], happened'[i])
      <3>1. CASE i \in DOMAIN runAt
        BY <3>1, RunsKept
      <3>2. CASE i = m
        BY <2>1, <2>2, <2>4, <2>5, <2>6, <3>2
      <3> QED BY <2>1, <2>5, <3>1, <3>2
    <2> QED BY <2>1, <2>5, <2>7 DEF m
  <1> QED BY <1>2, <1>3, <1>4

\* A BBRUN is not an event, and neither is a CONTEXT.
LEMMA FlushNoEvent ==
  ASSUME TypeOK
  PROVE  \A p \in DOMAIN FlushedLog : FlushedLog[p].type = "EVENT" => p \in DOMAIN log
  <1> DEFINE r == BBRUN(out_bbr)
  <1>1. log \in Seq(Record) /\ r.type = "BBRUN"
    BY DEF TypeOK, BBRUN
  <1>2. FlushedLog = Append(log, r) \/ FlushedLog = log
    BY DEF FlushedLog
  <1> HIDE DEF r
  <1>3. CASE FlushedLog = Append(log, r)
    <2>1. /\ Len(log) \in Nat /\ DOMAIN log = 1..Len(log)
          /\ DOMAIN FlushedLog = 1..(Len(log) + 1) /\ FlushedLog[Len(log) + 1] = r
      BY <1>1, <1>3
    <2> QED BY <1>1, <2>1
  <1> QED BY <1>2, <1>3

\* At the end the last run is written.
LEMMA RunFini ==
  ASSUME RunInv, CodeInv', FileGrows, dg_fini
  PROVE  RunInv'
  <1>1. RefInv /\ RefInv' /\ TypeOK /\ mode = "sched" /\ Waiting
    BY DEF RunInv, CodeInv, RefInv, dg_fini
  <1>2. ~FlushFails
    BY <1>1 DEF Waiting, FlushFails
  <1>3. /\ mode' = "done" /\ log' = FlushedLog /\ runAt' = FlushedRunAt
        /\ out_bbr' = [out_bbr EXCEPT !.n = 0, !.accs = <<>>] /\ happened' = happened
    BY <1>2 DEF dg_fini
  <1>4. Kept(FlushedLog, log')
    BY <1>3 DEF Kept
  <1>5. /\ Len(happened') = Len(runAt')
        /\ \A i \in DOMAIN runAt' :
              /\ i \in DOMAIN happened'
              /\ Tells(log', defAt', ctxAt', log'[runAt'[i]], happened'[i])
    BY <1>1, <1>3, <1>4, FlushTells
  <1>6. out_bbr'.n = 0 /\ out_bbr'.accs = <<>>
    <2>1. out_bbr \in Bbr
      BY <1>1 DEF TypeOK
    <2> QED BY <1>3, <2>1 DEF Bbr
  <1>7. Waiting'
    BY <1>5, <1>6 DEF Waiting
  <1>8. EventPlacement'
    BY <1>1, <1>3, FlushNoEvent, EventKept
  <1> QED BY <1>3, <1>5, <1>7, <1>8 DEF RunInv

\* An instruction: the first of a definition writes the run before it.
LEMMA RunsIMark ==
  ASSUME RunInv, CodeInv', FileGrows, RunIMark
  PROVE  RunInv'
  <1>1. /\ mode = "run" /\ stmt.kind = "imark" /\ CodeInv /\ RefInv /\ RefInv' /\ TypeOK
        /\ now' = [now EXCEPT !.n = @ + 1] /\ pc' = pc + 1
        /\ UNCHANGED <<tt, cur, happened, defAt>>
    BY DEF RunIMark, RunInv, CodeInv, RefInv
  <1>2. PICK b : b = tt[cur][1].bbd
    OBVIOUS
  <1>3. now \in Truth
    BY <1>1, Running
  <1>4. now'.accs = now.accs
    BY <1>1, <1>3 DEF Truth
  <1>5. /\ pc \in Nat /\ pc >= 1 /\ stmt.bbd = b /\ b \in DOMAIN bbdefs
        /\ pc = 1 => stmt.k = 0 /\ stmt.n = 1
        /\ pc > 1 => Follows(tt[cur][pc - 1], stmt, Written(b).accs)
        /\ pc > 1 => stmt.n > 1
    BY <1>1, <1>2, AtStatement
  <1>6. pc' - 1 = pc /\ pc' > 1 /\ tt'[cur'][pc' - 1] = stmt
    BY <1>1, <1>5 DEF stmt
  <1>7. CASE pc > 1
    <2>1. UNCHANGED <<log, bbdefs, traceVars, mode>>
      BY <1>5, <1>7 DEF RunIMark
    <2>2. stmt.k = tt[cur][pc - 1].k
      BY <1>1, <1>5, <1>7 DEF Follows
    <2>3. Collected
      BY <1>1, <1>7 DEF RunInv
    <2>4. Collected'
      BY <1>1, <1>4, <1>6, <2>1, <2>2, <2>3 DEF Collected, Written
    <2> QED BY <1>1, <1>6, <2>1, <2>4, RunKeep
  <1>8. CASE pc = 1
    <2>1. Waiting
      BY <1>8 DEF RunInv
    <2>2. ~FlushFails
      BY <2>1 DEF Waiting, FlushFails
    <2>3. trace_bb_start(stmt.bbd) /\ mode' = mode
      BY <1>5, <1>8, <2>2 DEF RunIMark
    <2>4. out_bbr'.accs = <<>>
      BY <1>1, <2>3, StartContext
    <2> DEFINE r == CONTEXT(bbdefs[stmt.bbd].index, now.stack)
    <2>5. runAt' = FlushedRunAt /\ (log' = FlushedLog \/ log' = Append(FlushedLog, r))
      BY <2>3 DEF trace_bb_start
    <2>6. FlushedLog \in Seq(Record) /\ r.type = "CONTEXT"
      BY <1>1, FlushKeeps DEF CONTEXT
    <2> HIDE DEF r
    <2>7. Kept(FlushedLog, log')
      <3>1. Kept(FlushedLog, FlushedLog)
        BY DEF Kept
      <3> QED BY <2>5, <2>6, <3>1, KeptAppend
    <2>8. ASSUME NEW p \in DOMAIN log', log'[p].type = "EVENT" PROVE p \in DOMAIN log
      <3>1. p \in DOMAIN FlushedLog /\ log'[p] = FlushedLog[p]
        <4>1. CASE log' = FlushedLog
          BY <2>8, <4>1
        <4>2. CASE log' = Append(FlushedLog, r)
          <5>1. /\ Len(FlushedLog) \in Nat /\ DOMAIN FlushedLog = 1..Len(FlushedLog)
                /\ DOMAIN log' = 1..(Len(FlushedLog) + 1) /\ log'[Len(FlushedLog) + 1] = r
                /\ \A q \in 1..Len(FlushedLog) : log'[q] = FlushedLog[q]
            BY <2>6, <4>2
          <5> QED BY <2>6, <2>8, <5>1
        <4> QED BY <2>5, <4>1, <4>2
      <3> QED BY <1>1, <2>8, <3>1, FlushNoEvent
    <2>9. /\ Len(happened') = Len(runAt')
          /\ \A i \in DOMAIN runAt' :
                /\ i \in DOMAIN happened'
                /\ Tells(log', defAt', ctxAt', log'[runAt'[i]], happened'[i])
      BY <1>1, <2>1, <2>5, <2>7, FlushTells
    <2>10. EventPlacement'
      BY <1>1, <2>8, EventKept
    <2>11. Collected'
      <3>1. now.accs = <<>>
        BY <1>1, <1>8 DEF CodeInv, Started
      <3>2. Len(now'.accs) = 0 /\ Len(out_bbr'.accs) = 0 /\ stmt.k = 0
        BY <1>4, <1>5, <1>8, <2>4, <3>1
      <3>3. 1..Len(now'.accs) = {}
        BY <3>2
      <3> QED BY <1>6, <2>9, <3>2, <3>3 DEF Collected
    <2> QED BY <1>1, <1>6, <2>3, <2>9, <2>10, <2>11 DEF RunInv
  <1> QED BY <1>5, <1>7, <1>8

LEMMA ConcatIs ==
  ASSUME NEW S, NEW s \in Seq(S), NEW t \in Seq(S)
  PROVE  /\ Len(s \o t) = Len(s) + Len(t) /\ s \o t \in Seq(S)
         /\ Len(s) \in Nat /\ Len(t) \in Nat
         /\ \A i \in 1..Len(s) : (s \o t)[i] = s[i]
         /\ \A j \in 1..Len(t) : (s \o t)[Len(s) + j] = t[j]
  OBVIOUS

LEMMA Splits ==
  ASSUME NEW l \in Nat, NEW d \in Nat, NEW i \in 1..(l + d)
  PROVE  i \in 1..l \/ \E j \in 1..d : i = l + j
  <1>1. i > l => i - l \in 1..d /\ i = l + (i - l)
    OBVIOUS
  <1> QED BY <1>1

\* A memory statement: the addresses go to the places of its entries.
LEMMA RunsAccess ==
  ASSUME RunInv, CodeInv', FileGrows, NEW a \in Addrs, RunAccess(a)
  PROVE  RunInv'
  <1>1. /\ mode = "run" /\ stmt.kind = "mem" /\ CodeInv /\ RefInv
        /\ UNCHANGED <<log, bbdefs, defAt, ctxAt, runAt, happened, tt, mode, cur>>
        /\ pc' = pc + 1
    BY DEF RunAccess, RunInv, CodeInv
  <1>2. PICK b : b = tt[cur][1].bbd
    OBVIOUS
  <1> DEFINE d == Written(b).accs
             s == tt[cur][pc - 1]
             dirs == stmt.dirs
             t == Touched(dirs, a)
             u == Traced(dirs, a)
  <1>3. pc \in Nat /\ pc > 1 /\ stmt \in Statement /\ s \in Statement /\ Follows(s, stmt, d)
    <2>1. /\ pc \in Nat /\ pc >= 1 /\ (pc = 1 => stmt.kind = "imark")
      BY <1>1, <1>2, AtStatement
    <2>2. pc > 1
      BY <1>1, <2>1
    <2> QED BY <1>1, <1>2, <2>1, <2>2, AtStatement
  <1>4. /\ stmt.n = s.n /\ stmt.k = s.k + Len(dirs)
        /\ \A i \in 1..Len(dirs) : d[s.k + i] = [dir |-> dirs[i], iseq |-> stmt.n - 1]
    BY <1>1, <1>3 DEF Follows
  <1>5. /\ Collected /\ now.n = s.n
    BY <1>1, <1>3 DEF RunInv, CodeInv, Started
  <1>6. /\ Len(now.accs) = s.k /\ Len(out_bbr.accs) = Len(now.accs)
        /\ Len(happened) = Len(runAt)
        /\ \A i \in 1..Len(now.accs) :
             now.accs[i] = [dir |-> d[i].dir, iseq |-> d[i].iseq, addr |-> out_bbr.accs[i]]
    BY <1>2, <1>5 DEF Collected
  <1>7. now \in Truth /\ out_bbr \in Bbr /\ dirs \in Seq(Dirs) /\ Len(dirs) \in Nat
    BY <1>1, <1>3, Running, DirsAreSeq
  <1>8. now.accs \in Seq(Touch) /\ out_bbr.accs \in Seq(Addrs)
    BY <1>7 DEF Truth, Bbr
  <1>9. /\ now'.accs = now.accs \o t /\ out_bbr'.accs = out_bbr.accs \o u
    BY <1>7 DEF RunAccess, Truth, Bbr
  <1>10. /\ t \in Seq(Touch) /\ Len(t) = Len(dirs) /\ u \in Seq(Addrs) /\ Len(u) = Len(dirs)
         /\ \A j \in 1..Len(dirs) :
              t[j] = [dir |-> dirs[j], iseq |-> now.n - 1, addr |-> a] /\ u[j] = a
    <2>1. now.n \in Nat /\ now.n - 1 \in Nat
      <3>1. now.n > 0
        BY <1>1, TouchTypes
      <3> QED BY <1>7, <3>1 DEF Truth
    <2>2. \A j \in 1..Len(dirs) : dirs[j] \in Dirs
      BY <1>7
    <2>3. \A j \in 1..Len(dirs) :
            [dir |-> dirs[j], iseq |-> now.n - 1, addr |-> a] \in Touch
      BY <2>1, <2>2 DEF Touch
    <2>4. t \in [1..Len(dirs) -> Touch] /\ u \in [1..Len(dirs) -> Addrs]
      BY <2>3 DEF Touched, Traced
    <2>5. Len(t) = Len(dirs) /\ t \in Seq(Touch)
      BY <1>7, <2>4, FunctionIsSeq
    <2>6. Len(u) = Len(dirs) /\ u \in Seq(Addrs)
      BY <1>7, <2>4, FunctionIsSeq
    <2> QED BY <2>5, <2>6 DEF Touched, Traced
  <1> HIDE DEF t, u, dirs, s, d
  <1> DEFINE l == Len(now.accs)
             e == Len(dirs)
  <1>11. /\ l \in Nat /\ e \in Nat /\ Len(now'.accs) = l + e
         /\ \A i \in 1..l : now'.accs[i] = now.accs[i]
         /\ \A j \in 1..e : now'.accs[l + j] = t[j]
    <2>1. /\ Len(now.accs \o t) = Len(now.accs) + Len(t) /\ Len(now.accs) \in Nat
          /\ \A i \in 1..Len(now.accs) : (now.accs \o t)[i] = now.accs[i]
          /\ \A j \in 1..Len(t) : (now.accs \o t)[Len(now.accs) + j] = t[j]
      <3>1. now.accs \in Seq(Touch) /\ t \in Seq(Touch)
        BY <1>8, <1>10
      <3> QED BY <3>1, ConcatIs
    <2>2. Len(t) = Len(dirs) /\ Len(dirs) \in Nat
      BY <1>7, <1>10
    <2> QED BY <1>9, <2>1, <2>2
  <1>12. /\ Len(out_bbr'.accs) = l + e
         /\ \A i \in 1..l : out_bbr'.accs[i] = out_bbr.accs[i]
         /\ \A j \in 1..e : out_bbr'.accs[l + j] = u[j]
    <2>1. Len(out_bbr.accs) = l
      BY <1>6
    <2>2. /\ Len(out_bbr.accs \o u) = Len(out_bbr.accs) + Len(u)
          /\ \A i \in 1..Len(out_bbr.accs) : (out_bbr.accs \o u)[i] = out_bbr.accs[i]
          /\ \A j \in 1..Len(u) : (out_bbr.accs \o u)[Len(out_bbr.accs) + j] = u[j]
      <3>1. out_bbr.accs \in Seq(Addrs) /\ u \in Seq(Addrs)
        BY <1>8, <1>10
      <3> QED BY <3>1, ConcatIs
    <2>3. Len(u) = Len(dirs)
      BY <1>10
    <2> QED BY <1>9, <2>1, <2>2, <2>3
  <1>13. /\ stmt.k = l + e
         /\ \A j \in 1..e : d[l + j] = [dir |-> dirs[j], iseq |-> now.n - 1]
    BY <1>4, <1>5, <1>6
  <1> HIDE DEF l, e
  <1>14. ASSUME NEW i \in 1..(l + e)
         PROVE  now'.accs[i] = [dir |-> d[i].dir, iseq |-> d[i].iseq,
                                addr |-> out_bbr'.accs[i]]
    <2>1. CASE i \in 1..l
      BY <1>6, <1>11, <1>12, <2>1 DEF l
    <2>2. CASE \E j \in 1..e : i = l + j
      <3>1. PICK j \in 1..e : i = l + j
        BY <2>2
      <3>2. now'.accs[i] = t[j] /\ out_bbr'.accs[i] = u[j]
            /\ d[i] = [dir |-> dirs[j], iseq |-> now.n - 1]
        BY <1>11, <1>12, <1>13, <3>1
      <3>3. t[j] = [dir |-> dirs[j], iseq |-> now.n - 1, addr |-> a] /\ u[j] = a
        BY <1>10 DEF e
      <3> QED BY <3>2, <3>3
    <2> QED BY <1>11, <2>1, <2>2, Splits
  <1>15. pc' - 1 = pc /\ pc' > 1 /\ tt'[cur'][pc' - 1] = stmt
    BY <1>1, <1>3 DEF stmt
  <1>16. log'[defAt'[bbdefs'[tt'[cur'][1].bbd].index + 1]].accs = d
    BY <1>1, <1>2 DEF d, Written
  <1>17. Collected'
    BY <1>1, <1>6, <1>11, <1>12, <1>13, <1>14, <1>15, <1>16 DEF Collected, Written
  <1> QED BY <1>1, <1>15, <1>17, RunKeep

\* A side exit that is not taken: nothing but the count changes.
LEMMA RunsStay ==
  ASSUME RunInv, CodeInv', FileGrows, RunStay
  PROVE  RunInv'
  <1>1. /\ mode = "run" /\ stmt.kind = "exit" /\ pc' = pc + 1 /\ CodeInv
        /\ UNCHANGED <<tt, bbdefs, log, defAt, ctxAt, runAt, happened, mode, cur, now>>
        /\ out_bbr' = [out_bbr EXCEPT !.n = stmt.n] /\ out_bbr \in Bbr
    BY DEF RunStay, trace_update_instrs, RunInv, CodeInv, RefInv, TypeOK
  <1>2. PICK b : b = tt[cur][1].bbd
    OBVIOUS
  <1>3. /\ pc \in Nat /\ pc > 1 /\ Follows(tt[cur][pc - 1], stmt, Written(b).accs)
    <2>1. /\ pc \in Nat /\ pc >= 1 /\ (pc = 1 => stmt.kind = "imark")
      BY <1>1, <1>2, AtStatement
    <2>2. pc > 1
      BY <1>1, <2>1
    <2> QED BY <1>1, <1>2, <2>1, <2>2, AtStatement
  <1>4. stmt.k = tt[cur][pc - 1].k
    BY <1>1, <1>3 DEF Follows
  <1>5. out_bbr'.accs = out_bbr.accs
    BY <1>1 DEF Bbr
  <1>6. pc' - 1 = pc /\ pc' > 1 /\ tt'[cur'][pc' - 1] = stmt
    BY <1>1, <1>3 DEF stmt
  <1>7. Collected
    BY <1>1, <1>3 DEF RunInv
  <1>8. Collected'
    BY <1>1, <1>4, <1>5, <1>6, <1>7 DEF Collected, Written
  <1> QED BY <1>1, <1>6, <1>8, RunKeep

\* Leaving by an exit or the end: what was collected waits to be written.
LEMMA RunsLeave ==
  ASSUME RunInv, CodeInv', FileGrows, RunLeave
  PROVE  RunInv'
  <1>1. /\ mode = "run" /\ stmt.kind \in {"exit", "end"} /\ CodeInv /\ RefInv
        /\ UNCHANGED <<tt, bbdefs, log, defAt, ctxAt, runAt>>
        /\ out_bbr' = [out_bbr EXCEPT !.n = stmt.n] /\ mode' = "sched"
        /\ happened' = Append(happened, now)
    BY DEF RunLeave, trace_update_instrs, Leave, RunInv, CodeInv
  <1>2. PICK b : b = tt[cur][1].bbd
    OBVIOUS
  <1> DEFINE s == tt[cur][pc - 1]
             d == Written(b)
  <1>3. /\ pc > 1 /\ stmt \in Statement /\ Follows(s, stmt, d.accs)
        /\ stmt.n >= 1 /\ stmt.k <= Len(d.accs) /\ d.at = cur
    <2>1. /\ pc \in Nat /\ pc >= 1 /\ (pc = 1 => stmt.kind = "imark")
      BY <1>1, <1>2, AtStatement
    <2>2. pc > 1
      BY <1>1, <2>1
    <2> QED BY <1>1, <1>2, <2>1, <2>2, AtStatement
  <1>4. stmt.n = s.n /\ stmt.k = s.k
    BY <1>1, <1>3 DEF Follows
  <1>5. /\ Collected /\ now.n = s.n /\ now.at = cur
        /\ log[ctxAt[out_bbr.ctx + 1]] = CONTEXT(bbdefs[b].index, now.stack)
    BY <1>1, <1>2, <1>3 DEF RunInv, CodeInv, Started
  <1>6. /\ Len(now.accs) = s.k /\ Len(out_bbr.accs) = Len(now.accs)
        /\ Len(happened) = Len(runAt)
        /\ \A i \in 1..Len(now.accs) :
             now.accs[i] = [dir |-> d.accs[i].dir, iseq |-> d.accs[i].iseq,
                            addr |-> out_bbr.accs[i]]
    BY <1>2, <1>5 DEF Collected
  <1>7. now \in Truth /\ out_bbr \in Bbr /\ happened \in Seq(Truth)
    BY <1>1, Running DEF RefInv, TypeOK
  <1>8. /\ out_bbr'.ctx = out_bbr.ctx /\ out_bbr'.accs = out_bbr.accs
        /\ out_bbr'.n = stmt.n
    BY <1>1, <1>7 DEF Bbr
  <1>9. /\ Len(happened') = Len(happened) + 1 /\ happened'[Len(happened')] = now
    BY <1>1, <1>7
  <1> DEFINE r == BBRUN(out_bbr)'
             c == log[ctxAt[out_bbr.ctx + 1]]
  <1>10. r.ctx = out_bbr.ctx /\ r.addrs = out_bbr.accs /\ r.n = stmt.n
    BY <1>8 DEF BBRUN
  <1>11. /\ c.bbdef = bbdefs[b].index /\ c.stack = now.stack
         /\ log[defAt[c.bbdef + 1]] = d
    BY <1>5 DEF CONTEXT, Written
  <1> HIDE DEF r, c, s, d
  <1>12. Tells(log', defAt', ctxAt', r, now)
    <2>1. Tells(log, defAt, ctxAt, r, now)
      BY <1>3, <1>4, <1>5, <1>6, <1>10, <1>11 DEF Tells, c
    <2> QED BY <1>1, <2>1
  <1>13. out_bbr'.n > 0 /\ out_bbr'.n # 0
    BY <1>3, <1>8 DEF Statement
  <1>14. Waiting'
    BY <1>1, <1>6, <1>9, <1>12, <1>13 DEF Waiting, r
  <1> QED BY <1>1, <1>14, RunKeep

\* Without faults and without guards every step keeps the runs exact.
LEMMA RunStep ==
  ASSUME ~MayFault, ~MayGuard, RunInv, [Next]_vars
  PROVE  RunInv'
  <1>1. CodeInv /\ CodeInv' /\ FileGrows
    BY CodeStep DEF RunInv
  <1>2. CASE Instrument
    BY <1>1, <1>2, RunInstrument
  <1>3. CASE Run
    <2>1. CASE \E k \in Keys, ec \in Stacks : Execute(k, ec)
      <3>1. /\ UNCHANGED <<out_bbr, runAt, happened, log>> /\ mode = "sched"
            /\ mode' = "run" /\ pc' = 1
        BY <2>1 DEF Execute
      <3> QED BY <1>1, <3>1, RunAside
    <2>2. CASE RunSkipped \/ \E a \in Addrs : RunUntouched(a)
      <3>1. mode = "run" /\ stmt.guard # "none"
        BY <2>2 DEF RunSkipped, RunUntouched
      <3> QED BY <1>1, <3>1, AtStatement
    <2>3. CASE RunTrap \/ \E a \in Addrs : RunFault(a)
      BY <2>3 DEF RunTrap, RunFault
    <2> QED BY <1>1, <1>3, <2>1, <2>2, <2>3, RunsIMark, RunsAccess, RunsStay, RunsLeave
            DEF Run
  <1>4. CASE \E k \in Keys : dg_discard_superblock_info(k)
    <2>1. UNCHANGED <<out_bbr, runAt, happened, log, mode>> /\ mode = "sched"
      BY <1>4 DEF dg_discard_superblock_info
    <2> QED BY <1>1, <2>1, RunAside
  <1>5. CASE dg_fini
    BY <1>1, <1>5, RunFini
  <1>6. CASE dg_handle_client_request
    BY <1>1, <1>6, RunEvent
  <1>7. CASE UNCHANGED vars
    <2>1. UNCHANGED <<log, runAt, mode, pc>> /\ (Collected => Collected')
          /\ (Waiting => Waiting')
      BY <1>7 DEF vars, Collected, Waiting, Written, BBRUN
    <2> QED BY <1>1, <2>1, RunKeep DEF RunInv
  <1> QED BY <1>2, <1>3, <1>4, <1>5, <1>6, <1>7 DEF Next, Terminating

-----------------------------------------------------------------------------
(* Exact runs.                                                             *)

\* A reader who follows the ordinals of a record finds what the record tells.
LEMMA TellsDecode ==
  ASSUME NEW r, NEW h \in Truth, Tells(log, defAt, ctxAt, r, h)
  PROVE  Decode(r) = h
  <1> DEFINE d == DefOf(r)
             c == ContextOf(r)
             m == Len(h.accs)
  <1>1. /\ d.at = h.at /\ c.stack = h.stack /\ r.n = h.n
        /\ Len(r.addrs) = m /\ m <= Len(d.accs)
        /\ \A i \in 1..m : h.accs[i] = [dir |-> d.accs[i].dir, iseq |-> d.accs[i].iseq,
                                        addr |-> r.addrs[i]]
    BY DEF Tells, DefOf, ContextOf
  <1>2. /\ h = [at |-> h.at, stack |-> h.stack, n |-> h.n, accs |-> h.accs]
        /\ h.accs \in Seq(Touch)
    BY DEF Truth
  <1>3. Decode(r) = [at |-> d.at, stack |-> c.stack, n |-> r.n,
                     accs |-> [i \in 1..m |-> [dir |-> d.accs[i].dir,
                                 iseq |-> d.accs[i].iseq, addr |-> r.addrs[i]]]]
    BY <1>1 DEF Decode
  <1> HIDE DEF d, c
  <1>4. h.accs = [i \in 1..m |-> h.accs[i]]
    BY <1>2
  <1>5. h.accs = [i \in 1..m |-> [dir |-> d.accs[i].dir, iseq |-> d.accs[i].iseq,
                                  addr |-> r.addrs[i]]]
    BY <1>1, <1>4
  <1> HIDE DEF m
  <1> QED BY <1>1, <1>2, <1>3, <1>5

\* The runs that are reported are the first ones that happened, all but one at most.
LEMMA Faithful ==
  ASSUME RunInv
  PROVE  /\ FaithfulRuns
         /\ Reported \in Seq(Truth) /\ Len(Reported) = Len(runAt)
         /\ \A i \in 1..Len(runAt) : Reported[i] = happened[i]
  <1>1. TypeOK
    BY DEF RunInv, CodeInv, RefInv
  <1>2. /\ runAt \in Seq(Nat \ {0}) /\ happened \in Seq(Truth) /\ out_bbr.n \in Nat
        /\ Len(runAt) \in Nat /\ Len(happened) \in Nat
        /\ DOMAIN runAt = 1..Len(runAt)
    BY <1>1 DEF TypeOK, Positions, Bbr
  <1>3. Len(happened) = Len(runAt) \/ Len(happened) = Len(runAt) + 1
    BY <1>2 DEF RunInv, Collected, Waiting
  <1>4. ASSUME NEW i \in DOMAIN runAt
        PROVE  Decode(log[runAt[i]]) = happened[i] /\ happened[i] \in Truth
    <2>1. i \in DOMAIN happened /\ Tells(log, defAt, ctxAt, log[runAt[i]], happened[i])
      BY DEF RunInv
    <2>2. happened[i] \in Truth
      BY <1>2, <2>1
    <2> QED BY <2>1, <2>2, TellsDecode
  <1>5. Len(runAt) <= Len(happened) /\ Len(happened) <= Len(runAt) + 1
    BY <1>2, <1>3
  <1>6. FaithfulRuns
    BY <1>4, <1>5 DEF FaithfulRuns
  <1>7. Reported \in [1..Len(runAt) -> Truth]
        /\ \A i \in 1..Len(runAt) : Reported[i] = happened[i]
    BY <1>2, <1>4 DEF Reported
  <1>8. Reported \in Seq(Truth) /\ Len(Reported) = Len(runAt)
    BY <1>2, <1>7, FunctionIsSeq
  <1> QED BY <1>6, <1>7, <1>8

\* The invariant of exact runs.
LEMMA RunInvariant ==
  ASSUME ~MayFault, ~MayGuard
  PROVE  Spec => []RunInv
  <1>1. RunInv /\ [Next]_vars => RunInv'
    BY RunStep
  <1> QED BY <1>1, RunInit, PTL DEF Spec

\* Without faults and without guarded accesses every BBRUN decodes, through the
\* ordinals and positions of the file, to what the execution of its superblock really
\* did, in order and with at most the last run missing; unsupported statements may
\* stop Datagrind.
THEOREM RunsFaithful ==
  ASSUME ~MayFault, ~MayGuard
  PROVE  Spec => []FaithfulRuns
  <1>1. RunInv => FaithfulRuns
    BY Faithful
  <1> QED BY <1>1, RunInvariant, PTL

\* Under the same conditions a record written between two executions is at most one
\* run too early in the file.
THEOREM EventsPlaced ==
  ASSUME ~MayFault, ~MayGuard
  PROVE  Spec => []EventPlacement
  <1>1. RunInv => EventPlacement
    BY DEF RunInv
  <1> QED BY <1>1, RunInvariant, PTL

\* If, besides, dg_instrument knows all statements, no assertion fails: neither the
\* one of trace_bb_flush when a block starts nor the one when Datagrind finishes.
THEOREM AssertionHolds ==
  ASSUME ~MayFault, ~MayGuard, ~MayUnsupported
  PROVE  Spec => []FlushAssertion
  <1>1. RunInv => FlushAssertion
    BY DEF RunInv, FlushAssertion
  <1> QED BY <1>1, RunInvariant, PTL

LEMMA PrefixIs ==
  ASSUME NEW S, NEW s \in Seq(S), NEW t \in Seq(S), Len(s) <= Len(t),
         \A i \in 1..Len(s) : t[i] = s[i]
  PROVE  IsPrefix(s, t)
  <1>1. Len(s) \in Nat /\ Len(t) \in Nat
    OBVIOUS
  <1>2. SubSeq(s, 1, Len(s)) = [i \in 1..Len(s) |-> s[i]]
    BY <1>1
  <1>3. SubSeq(t, 1, Len(s)) = [i \in 1..Len(s) |-> t[i]]
    BY <1>1
  <1> QED BY <1>1, <1>2, <1>3 DEF IsPrefix

LEMMA KeptLen ==
  ASSUME NEW S, NEW s \in Seq(S), NEW t \in Seq(S), Kept(s, t)
  PROVE  Len(s) <= Len(t) /\ \A i \in 1..Len(s) : t[i] = s[i]
  <1>1. /\ Len(s) \in Nat /\ Len(t) \in Nat /\ DOMAIN s = 1..Len(s)
        /\ DOMAIN t = 1..Len(t)
    OBVIOUS
  <1>2. \A i \in 1..Len(s) : i \in 1..Len(t) /\ t[i] = s[i]
    BY <1>1 DEF Kept
  <1>3. Len(s) > 0 => Len(s) \in 1..Len(t)
    BY <1>1, <1>2
  <1> QED BY <1>1, <1>2, <1>3

\* Nothing is reported before anything happens.
LEMMA StageInit == Init => Stage!Init
  <1> SUFFICES ASSUME Init PROVE Stage!Init
    OBVIOUS
  <1>1. happened = <<>> /\ Len(runAt) = 0 /\ mode = "sched"
    BY DEF Init
  <1>2. Reported \in Seq(Truth) /\ Len(Reported) = 0
    BY <1>1, RunInit, Faithful
  <1>3. Reported = <<>>
    BY <1>2
  <1> QED BY <1>1, <1>3 DEF Stage!Init

\* The runs reported so far are the first ones that happened.
Prefixed == /\ Reported \in Seq(Truth) /\ Len(Reported) = Len(runAt)
            /\ \A i \in 1..Len(runAt) : Reported[i] = happened[i]
            /\ FaithfulRuns

LEMMA PrefixedNext == RunInv' => Prefixed'
  <1>1. RunInv => Prefixed
    BY Faithful DEF Prefixed
  <1> QED BY <1>1, PTL

\* A step of Datagrind reports finished runs, closes the stage with everything
\* reported, stops it, or is none of the Recorder's business.
LEMMA StageStep ==
  ASSUME RunInv, RunInv', [Next]_vars
  PROVE  [Stage!Next]_(Stage!vars)
  <1> DEFINE open == {"sched", "instr", "run"}
  <1>1. CodeInv /\ TypeOK /\ TypeOK' /\ FileGrows
    BY CodeStep DEF RunInv, CodeInv, RefInv
  <1>2. mode \in open \cup {"done", "panic"} /\ mode' \in open \cup {"done", "panic"}
    BY <1>1 DEF TypeOK
  <1>3. CASE UNCHANGED vars
    <2>1. UNCHANGED <<happened, Reported, mode>>
      BY <1>3 DEF vars, Reported, Decode, DefOf, ContextOf
    <2> QED BY <2>1 DEF Stage!vars
  <1>4. CASE mode \in {"done", "panic"}
    <2>1. UNCHANGED vars
      BY <1>4 DEF Next, Instrument, Run, InstrumentBegin, AddInstr, AddAccess, AddExit,
         AddUnsupported, InstrumentEnd, Execute, RunIMark, RunAccess, RunFault,
         RunUntouched, RunSkipped, RunLeave, RunStay, RunTrap, trace_update_instrs,
         dg_discard_superblock_info, dg_handle_client_request, dg_fini, Terminating
    <2> QED BY <1>3, <2>1
  <1>5. CASE mode \in open /\ mode' = "panic" /\ ~UNCHANGED vars
    <2>1. AddUnsupported \/ RunIMark \/ dg_fini
      BY <1>5 DEF Next, Instrument, Run, InstrumentBegin, AddInstr, AddAccess, AddExit,
         InstrumentEnd, Execute, RunAccess, RunFault, RunUntouched, RunSkipped, RunLeave,
         RunStay, RunTrap, trace_update_instrs, Leave, dg_discard_superblock_info,
         dg_handle_client_request, Terminating
    <2>2. UNCHANGED <<log, defAt, ctxAt, runAt, happened>>
      BY <1>5, <2>1 DEF AddUnsupported, RunIMark, dg_fini
    <2>3. UNCHANGED Reported
      BY <2>2 DEF Reported, Decode, DefOf, ContextOf
    <2>4. Stage!Die
      BY <1>5, <2>2, <2>3 DEF Stage!Die
    <2> QED BY <2>4 DEF Stage!Next
  <1>6. Prefixed
    BY Faithful DEF Prefixed
  <1>7. Prefixed'
    BY PrefixedNext
  <1>8. /\ happened \in Seq(Truth) /\ happened' \in Seq(Truth)
        /\ runAt \in Seq(Nat \ {0}) /\ runAt' \in Seq(Nat \ {0})
    BY <1>1 DEF TypeOK, Positions
  <1>9. CASE mode \in open /\ mode' = "done"
    <2>1. dg_fini
      BY <1>9 DEF Next, Instrument, Run, InstrumentBegin, AddInstr, AddAccess, AddExit,
         AddUnsupported, InstrumentEnd, Execute, RunIMark, RunAccess, RunFault,
         RunUntouched, RunSkipped, RunLeave, RunStay, RunTrap, trace_update_instrs, Leave,
         dg_discard_superblock_info, dg_handle_client_request, Terminating, vars
    <2>2. happened' = happened /\ out_bbr' = [out_bbr EXCEPT !.n = 0, !.accs = <<>>]
      BY <1>9, <2>1 DEF dg_fini
    <2>3. out_bbr'.n = 0
      BY <1>1, <2>2 DEF TypeOK, Bbr
    <2>4. Len(happened') = Len(runAt')
      BY <1>9, <2>3 DEF RunInv, Waiting
    <2>5. Reported' = happened'
      <3>1. Reported' \in Seq(Truth) /\ Len(Reported') = Len(happened')
            /\ \A i \in 1..Len(happened') : Reported'[i] = happened'[i]
        BY <1>7, <2>4 DEF Prefixed
      <3> QED BY <1>8, <3>1, SeqEqual
    <2>6. Stage!Close
      BY <1>9, <2>2, <2>5 DEF Stage!Close
    <2> QED BY <2>6 DEF Stage!Next
  <1>10. CASE mode \in open /\ mode' \in open
    <2>1. Kept(happened, happened') /\ Kept(runAt, runAt')
      BY <1>1 DEF FileGrows
    <2>2. Len(happened) <= Len(happened') /\ \A i \in 1..Len(happened) : happened'[i] = happened[i]
      BY <1>8, <2>1, KeptLen
    <2>3. Len(runAt) <= Len(runAt')
      BY <1>8, <2>1, KeptLen
    <2>4. /\ Len(runAt) \in Nat /\ Len(runAt') \in Nat /\ Len(happened) \in Nat
          /\ Len(happened') \in Nat
      BY <1>8
    <2>5. /\ Len(runAt) <= Len(happened) /\ Len(runAt') <= Len(happened')
          /\ Len(happened') <= Len(runAt') + 1
      BY <1>6, <1>7 DEF Prefixed, FaithfulRuns
    <2>6. IsPrefix(happened, happened')
      BY <1>8, <2>2, PrefixIs
    <2>7. IsPrefix(Reported', happened')
      <3>1. /\ Len(Reported') <= Len(happened')
            /\ \A i \in 1..Len(Reported') : happened'[i] = Reported'[i]
        BY <1>7, <2>5 DEF Prefixed
      <3> QED BY <1>7, <1>8, <3>1, PrefixIs DEF Prefixed
    <2>8. IsPrefix(Reported, Reported')
      <3>1. ASSUME NEW i \in 1..Len(runAt) PROVE Reported'[i] = Reported[i]
        <4>1. i \in 1..Len(happened) /\ i \in 1..Len(runAt')
          BY <2>3, <2>4, <2>5
        <4> QED BY <1>6, <1>7, <2>2, <4>1 DEF Prefixed
      <3>2. Len(Reported) <= Len(Reported')
        BY <1>6, <1>7, <2>3 DEF Prefixed
      <3> QED BY <1>6, <1>7, <3>1, <3>2, PrefixIs DEF Prefixed
    <2>9. Len(happened') - Len(Reported') <= 1
      <3>1. Len(Reported') = Len(runAt')
        BY <1>7 DEF Prefixed
      <3> QED BY <2>4, <2>5, <3>1
    <2>10. Stage!Grow
      BY <1>10, <2>6, <2>7, <2>8, <2>9 DEF Stage!Grow, Stage!IsPrefix, IsPrefix
    <2> QED BY <2>10 DEF Stage!Next
  <1> QED BY <1>2, <1>3, <1>4, <1>5, <1>9, <1>10

\* Without faults and guards the tracer implements the Recorder of block runs that is
\* at most one run late, loses nothing when dg_fini closes the file, and loses no more
\* than the last run when an unsupported statement stops it.
THEOREM TracerRecords ==
  ASSUME ~MayFault, ~MayGuard
  PROVE  Spec => RecorderSpec
  <1>1. RunInv /\ RunInv' /\ [Next]_vars => [Stage!Next]_(Stage!vars)
    BY StageStep
  <1>2. Spec => Stage!Init /\ [][Stage!Next]_(Stage!vars)
    BY <1>1, StageInit, RunInvariant, PTL DEF Spec
  <1> QED BY <1>2 DEF RecorderSpec, Stage!Spec

-----------------------------------------------------------------------------
(* The invariant for the attribution of accesses, with faults and guards.  *)

\* The addresses of the accesses are, in order, among the addresses written.
Embeds(accs, addrs) ==
  \E g \in [DOMAIN accs -> DOMAIN addrs] :
    /\ \A j \in DOMAIN g : addrs[g[j]] = accs[j].addr
    /\ \A j, l \in DOMAIN g : j < l => g[j] < g[l]

\* What a reader makes of the addresses, given the entries of the definition.
Paired(addrs, entries) ==
  [i \in 1..Len(addrs) |-> [dir |-> entries[i].dir, iseq |-> entries[i].iseq,
                            addr |-> addrs[i]]]

\* Record r belongs to execution h.
Belongs(lg, defs, ctxs, r, h) ==
  LET c == lg[ctxs[r.ctx + 1]]
      d == lg[defs[c.bbdef + 1]]
  IN /\ d.at = h.at /\ c.stack = h.stack /\ r.n <= h.n
     /\ Embeds(h.accs, r.addrs)
     /\ Len(r.addrs) <= Len(d.accs)
     /\ Len(r.addrs) = Len(d.accs) => Within(h.accs, Paired(r.addrs, d.accs))

\* out_bbr is not about an execution that is still going on; if it is counted, it is
\* about the last one that is over and waits to be written.
Inside == mode = "run" /\ pc > 1
Counted == ~Inside /\ out_bbr.n > 0

\* The runs in the file belong, in order, to executions; one that waits comes later.
Assigned ==
  \E f \in [DOMAIN runAt -> DOMAIN happened] :
    /\ \A i, j \in DOMAIN runAt : i < j => f[i] < f[j]
    /\ Counted => \A i \in DOMAIN runAt : f[i] < Len(happened)
    /\ \A i \in DOMAIN runAt :
         Belongs(log, defAt, ctxAt, log[runAt[i]], happened[f[i]])

\* The execution is counted no further than it is; while no address is missing, the
\* addresses are at the places of their entries.
Placed ==
  /\ out_bbr.n <= now.n
  /\ Len(out_bbr.accs) = tt[cur][pc - 1].k =>
       Within(now.accs, Paired(out_bbr.accs, Written(tt[cur][1].bbd).accs))

AttrInv ==
  /\ CodeInv
  /\ Inside => Embeds(now.accs, out_bbr.accs) /\ Placed
  /\ Counted =>
       /\ happened # <<>>
       /\ Belongs(log, defAt, ctxAt, BBRUN(out_bbr), happened[Len(happened)])
  /\ Assigned

\* Whose a record is does not change when the file grows.
LEMMA BelongsKept ==
  ASSUME RefInv, FileGrows, NEW r, NEW h, r.ctx \in Nat, r.ctx + 1 \in DOMAIN ctxAt,
         Belongs(log, defAt, ctxAt, r, h)
  PROVE  Belongs(log', defAt', ctxAt', r, h)
  <1> DEFINE c == log[ctxAt[r.ctx + 1]]
  <1>1. c.bbdef \in Nat /\ c.bbdef + 1 \in DOMAIN defAt
    BY RunResolved
  <1>2. log'[ctxAt'[r.ctx + 1]] = c
    BY RecordKept
  <1> HIDE DEF c
  <1>3. log'[defAt'[c.bbdef + 1]] = log[defAt[c.bbdef + 1]]
    BY <1>1, RecordKept
  <1> QED BY <1>2, <1>3 DEF Belongs, c

\* Addresses that no access explains do not disturb the embedding.
LEMMA EmbedsLonger ==
  ASSUME NEW accs, NEW A, NEW addrs \in Seq(A), NEW u \in Seq(A), Embeds(accs, addrs)
  PROVE  Embeds(accs, addrs \o u)
  <1> DEFINE new == addrs \o u
  <1>1. PICK g \in [DOMAIN accs -> DOMAIN addrs] :
          /\ \A j \in DOMAIN g : addrs[g[j]] = accs[j].addr
          /\ \A j, l \in DOMAIN g : j < l => g[j] < g[l]
    BY DEF Embeds
  <1>2. \A i \in DOMAIN addrs : i \in DOMAIN new /\ new[i] = addrs[i]
    OBVIOUS
  <1> HIDE DEF new
  <1>3. g \in [DOMAIN accs -> DOMAIN new] /\ \A j \in DOMAIN g : new[g[j]] = accs[j].addr
    BY <1>1, <1>2
  <1>4. Embeds(accs, new)
    BY <1>1, <1>3 DEF Embeds
  <1> QED BY <1>4 DEF new

\* Accesses with their addresses extend the embedding.
LEMMA EmbedsMore ==
  ASSUME NEW T, NEW accs \in Seq(T), NEW t \in Seq(T),
         NEW A, NEW addrs \in Seq(A), NEW u \in Seq(A), Len(t) = Len(u),
         \A j \in 1..Len(t) : t[j].addr = u[j],
         Embeds(accs, addrs)
  PROVE  Embeds(accs \o t, addrs \o u)
  <1> DEFINE all == accs \o t
             new == addrs \o u
             l == Len(accs)
             m == Len(addrs)
             e == Len(t)
  <1>1. /\ l \in Nat /\ e \in Nat /\ DOMAIN accs = 1..l
        /\ DOMAIN all = 1..(l + e) /\ \A i \in 1..l : all[i] = accs[i]
        /\ \A j \in 1..e : all[l + j] = t[j]
    <2>1. /\ Len(all) = l + e /\ all \in Seq(T) /\ l \in Nat /\ e \in Nat
          /\ \A i \in 1..l : all[i] = accs[i]
          /\ \A j \in 1..e : all[l + j] = t[j]
      <3>1. accs \in Seq(T) /\ t \in Seq(T)
        OBVIOUS
      <3>2. /\ Len(accs \o t) = Len(accs) + Len(t) /\ accs \o t \in Seq(T)
            /\ Len(accs) \in Nat /\ Len(t) \in Nat
            /\ \A i \in 1..Len(accs) : (accs \o t)[i] = accs[i]
            /\ \A j \in 1..Len(t) : (accs \o t)[Len(accs) + j] = t[j]
        BY ONLY <3>1, ConcatIs
      <3> QED BY ONLY <3>2 DEF all, l, e
    <2>2. DOMAIN accs = 1..l /\ DOMAIN all = 1..Len(all)
      BY <2>1
    <2> QED BY <2>1, <2>2
  <1>2. /\ m \in Nat /\ DOMAIN addrs = 1..m
        /\ DOMAIN new = 1..(m + e) /\ \A i \in 1..m : new[i] = addrs[i]
        /\ \A j \in 1..e : new[m + j] = u[j]
    OBVIOUS
  <1>3. \A j \in 1..e : t[j].addr = u[j]
    OBVIOUS
  <1>4. PICK g \in [DOMAIN accs -> DOMAIN addrs] :
          /\ \A j \in DOMAIN g : addrs[g[j]] = accs[j].addr
          /\ \A j, k \in DOMAIN g : j < k => g[j] < g[k]
    BY DEF Embeds
  <1> HIDE DEF all, new, l, m, e
  <1> DEFINE h == [j \in 1..(l + e) |-> IF j <= l THEN g[j] ELSE m + (j - l)]
  <1>5. \A j \in 1..l : h[j] = g[j] /\ h[j] \in 1..m
    BY <1>1, <1>2, <1>4
  <1>6. \A j \in 1..(l + e) : j > l => h[j] = m + (j - l) /\ j - l \in 1..e /\ j = l + (j - l)
    BY <1>1
  <1>7. h \in [1..(l + e) -> 1..(m + e)]
    <2>1. ASSUME NEW j \in 1..(l + e) PROVE h[j] \in 1..(m + e)
      <3>1. CASE j \in 1..l
        <4>1. h[j] \in 1..m
          BY <1>5, <3>1
        <4> HIDE DEF h
        <4> QED BY <1>1, <1>2, <4>1
      <3>2. CASE j > l
        <4>1. h[j] = m + (j - l) /\ j - l \in 1..e
          BY <1>6, <3>2
        <4> HIDE DEF h
        <4> QED BY <1>1, <1>2, <4>1
      <3> QED BY <1>1, <3>1, <3>2
    <2> QED BY <2>1
  <1>8. ASSUME NEW j \in 1..(l + e) PROVE new[h[j]] = all[j].addr
    <2>1. CASE j \in 1..l
      <3>1. h[j] = g[j] /\ g[j] \in 1..m /\ addrs[g[j]] = accs[j].addr
        BY <1>1, <1>4, <1>5, <2>1
      <3> HIDE DEF h
      <3> QED BY <1>1, <1>2, <2>1, <3>1
    <2>2. CASE j > l
      <3>1. h[j] = m + (j - l) /\ j - l \in 1..e /\ j = l + (j - l)
        BY <1>6, <2>2
      <3> HIDE DEF h
      <3>2. new[m + (j - l)] = u[j - l] /\ all[l + (j - l)] = t[j - l]
        BY <1>1, <1>2, <3>1
      <3> QED BY <1>3, <3>1, <3>2
    <2> QED BY <1>1, <2>1, <2>2
  <1>9. ASSUME NEW j \in 1..(l + e), NEW k \in 1..(l + e), j < k PROVE h[j] < h[k]
    <2>1. CASE k \in 1..l
      <3>1. j \in 1..l
        BY <1>1, <1>9, <2>1
      <3> QED BY <1>1, <1>4, <1>5, <1>9, <2>1, <3>1
    <2>2. CASE j \in 1..l /\ k > l
      <3>1. h[j] \in 1..m
        BY <1>5, <2>2
      <3>2. h[k] = m + (k - l)
        BY <1>6, <2>2
      <3> HIDE DEF h
      <3> QED BY <1>1, <1>2, <2>2, <3>1, <3>2
    <2>3. CASE j > l /\ k > l
      <3>1. h[j] = m + (j - l) /\ h[k] = m + (k - l)
        BY <1>6, <2>3
      <3> HIDE DEF h
      <3> QED BY <1>1, <1>2, <1>9, <3>1
    <2> QED BY <1>1, <1>9, <2>1, <2>2, <2>3
  <1>10. DOMAIN h = 1..(l + e)
    OBVIOUS
  <1> HIDE DEF h
  <1>11. Embeds(all, new)
    BY <1>1, <1>2, <1>7, <1>8, <1>9, <1>10 DEF Embeds
  <1> QED BY <1>11 DEF all, new

\* The same for sequences whose elements are to be equal.
LEMMA WithinLonger ==
  ASSUME NEW T, NEW s, NEW t \in Seq(T), NEW u \in Seq(T), Within(s, t)
  PROVE  Within(s, t \o u)
  <1> DEFINE new == t \o u
  <1>1. PICK g \in [DOMAIN s -> DOMAIN t] :
          /\ \A j \in DOMAIN g : t[g[j]] = s[j]
          /\ \A j, l \in DOMAIN g : j < l => g[j] < g[l]
    BY DEF Within
  <1>2. \A i \in DOMAIN t : i \in DOMAIN new /\ new[i] = t[i]
    OBVIOUS
  <1> HIDE DEF new
  <1>3. g \in [DOMAIN s -> DOMAIN new] /\ \A j \in DOMAIN g : new[g[j]] = s[j]
    BY <1>1, <1>2
  <1>4. Within(s, new)
    BY <1>1, <1>3 DEF Within
  <1> QED BY <1>4 DEF new

LEMMA WithinMore ==
  ASSUME NEW T, NEW s \in Seq(T), NEW t \in Seq(T), NEW u \in Seq(T), Within(s, t)
  PROVE  Within(s \o u, t \o u)
  <1> DEFINE R == [addr : T]
             Boxed(q) == [i \in 1..Len(q) |-> [addr |-> q[i]]]
  <1>1. ASSUME NEW q \in Seq(T)
        PROVE  /\ Boxed(q) \in Seq(R) /\ Len(Boxed(q)) = Len(q) /\ DOMAIN Boxed(q) = DOMAIN q
               /\ \A i \in DOMAIN q : Boxed(q)[i].addr = q[i]
    <2>1. Len(q) \in Nat /\ DOMAIN q = 1..Len(q) /\ \A i \in 1..Len(q) : q[i] \in T
      OBVIOUS
    <2>2. Boxed(q) \in [1..Len(q) -> R]
      BY <2>1
    <2>3. Boxed(q) \in Seq(R) /\ Len(Boxed(q)) = Len(q)
      <3> HIDE DEF Boxed, R
      <3> QED BY <2>1, <2>2, FunctionIsSeq
    <2> QED BY <2>1, <2>3
  <1> HIDE DEF Boxed, R
  <1>2. Embeds(Boxed(s), t)
    BY <1>1 DEF Within, Embeds
  <1>3. Embeds(Boxed(s) \o Boxed(u), t \o u)
    <2>1. /\ Boxed(s) \in Seq(R) /\ Boxed(u) \in Seq(R) /\ Len(Boxed(u)) = Len(u)
          /\ \A j \in 1..Len(Boxed(u)) : Boxed(u)[j].addr = u[j]
      BY <1>1
    <2> QED BY <1>2, <2>1, EmbedsMore
  <1>4. /\ DOMAIN (Boxed(s) \o Boxed(u)) = DOMAIN (s \o u)
        /\ \A j \in DOMAIN (s \o u) : (Boxed(s) \o Boxed(u))[j].addr = (s \o u)[j]
    <2>1. /\ Boxed(s) \in Seq(R) /\ Boxed(u) \in Seq(R)
          /\ Len(Boxed(s)) = Len(s) /\ Len(Boxed(u)) = Len(u)
          /\ \A i \in 1..Len(s) : Boxed(s)[i].addr = s[i]
          /\ \A i \in 1..Len(u) : Boxed(u)[i].addr = u[i]
      BY <1>1
    <2>2. /\ Len(s \o u) = Len(s) + Len(u) /\ s \o u \in Seq(T)
          /\ Len(s) \in Nat /\ Len(u) \in Nat
          /\ \A i \in 1..Len(s) : (s \o u)[i] = s[i]
          /\ \A j \in 1..Len(u) : (s \o u)[Len(s) + j] = u[j]
      BY ConcatIs
    <2> DEFINE b == Boxed(s)
               c == Boxed(u)
    <2>3. /\ Len(b \o c) = Len(b) + Len(c) /\ b \o c \in Seq(R)
          /\ \A i \in 1..Len(b) : (b \o c)[i] = b[i]
          /\ \A j \in 1..Len(c) : (b \o c)[Len(b) + j] = c[j]
      <3>1. b \in Seq(R) /\ c \in Seq(R)
        BY <2>1
      <3> HIDE DEF b, c
      <3> QED BY <3>1, ConcatIs
    <2>4. /\ DOMAIN (s \o u) = 1..(Len(s) + Len(u))
          /\ DOMAIN (b \o c) = 1..(Len(s) + Len(u))
      BY <2>1, <2>2, <2>3
    <2>5. ASSUME NEW i \in 1..(Len(s) + Len(u)) PROVE (b \o c)[i].addr = (s \o u)[i]
      <3>1. i \in 1..Len(s) \/ \E j \in 1..Len(u) : i = Len(s) + j
        BY <2>2, Splits
      <3> QED BY <2>1, <2>2, <2>3, <3>1
    <2> QED BY <2>4, <2>5
  <1> DEFINE x == Boxed(s) \o Boxed(u)
             y == s \o u
             z == t \o u
  <1>5. PICK g \in [DOMAIN x -> DOMAIN z] :
          /\ \A j \in DOMAIN g : z[g[j]] = x[j].addr
          /\ \A j, l \in DOMAIN g : j < l => g[j] < g[l]
    BY <1>3 DEF Embeds
  <1>6. DOMAIN x = DOMAIN y /\ \A j \in DOMAIN y : x[j].addr = y[j]
    BY <1>4
  <1> HIDE DEF x, y, z
  <1>7. g \in [DOMAIN y -> DOMAIN z] /\ \A j \in DOMAIN g : z[g[j]] = y[j]
    BY <1>5, <1>6
  <1>8. Within(y, z)
    BY <1>5, <1>7 DEF Within
  <1> QED BY <1>8 DEF y, z

\* Addresses that go to the places of their entries are paired with them.
LEMMA PairedMore ==
  ASSUME NEW addrs \in Seq(Addrs), NEW u \in Seq(Addrs), NEW d \in Seq(Entry),
         NEW t \in Seq(Touch), Len(t) = Len(u), Len(addrs) + Len(u) <= Len(d),
         \A j \in 1..Len(u) : t[j] = [dir |-> d[Len(addrs) + j].dir,
                                     iseq |-> d[Len(addrs) + j].iseq, addr |-> u[j]]
  PROVE  /\ Paired(addrs, d) \in Seq(Touch)
         /\ Paired(addrs \o u, d) = Paired(addrs, d) \o t
  <1> DEFINE p == Paired(addrs, d)
             q == Paired(addrs \o u, d)
             m == Len(addrs)
             e == Len(u)
  <1>1. /\ m \in Nat /\ e \in Nat /\ Len(addrs \o u) = m + e /\ addrs \o u \in Seq(Addrs)
        /\ \A i \in 1..m : (addrs \o u)[i] = addrs[i]
        /\ \A j \in 1..e : (addrs \o u)[m + j] = u[j]
    BY ConcatIs
  <1>2. /\ p \in Seq(Touch) /\ Len(p) = m
        /\ \A i \in 1..m : p[i] = [dir |-> d[i].dir, iseq |-> d[i].iseq, addr |-> addrs[i]]
    <2>1. \A i \in 1..m : d[i] \in Entry /\ addrs[i] \in Addrs
      BY <1>1
    <2>2. p \in [1..m -> Touch]
      BY <2>1 DEF Paired, Touch, Entry
    <2>3. \A i \in 1..m : p[i] = [dir |-> d[i].dir, iseq |-> d[i].iseq, addr |-> addrs[i]]
      BY DEF Paired
    <2> HIDE DEF p, m
    <2> QED BY <1>1, <2>2, <2>3, FunctionIsSeq
  <1>3. /\ DOMAIN q = 1..(m + e) /\ q = [i \in 1..(m + e) |-> q[i]]
        /\ \A i \in 1..(m + e) : q[i] = [dir |-> d[i].dir, iseq |-> d[i].iseq,
                                        addr |-> (addrs \o u)[i]]
    BY <1>1 DEF Paired
  <1> HIDE DEF p, q
  <1>4. /\ Len(p \o t) = m + e /\ p \o t \in Seq(Touch)
        /\ \A i \in 1..m : (p \o t)[i] = p[i]
        /\ \A j \in 1..e : (p \o t)[m + j] = t[j]
    <2>1. /\ Len(p \o t) = Len(p) + Len(t) /\ p \o t \in Seq(Touch)
          /\ \A i \in 1..Len(p) : (p \o t)[i] = p[i]
          /\ \A j \in 1..Len(t) : (p \o t)[Len(p) + j] = t[j]
      <3>1. p \in Seq(Touch) /\ t \in Seq(Touch)
        BY <1>2
      <3> QED BY ONLY <3>1, ConcatIs
    <2> QED BY <1>2, <2>1
  <1> DEFINE v == p \o t
             n == m + e
  <1>5. DOMAIN v = 1..n /\ v = [i \in 1..n |-> v[i]]
    <2>1. v \in Seq(Touch) /\ Len(v) = n
      BY <1>4
    <2> HIDE DEF v, n
    <2> QED BY <2>1
  <1> HIDE DEF v
  <1>6. ASSUME NEW i \in 1..(m + e) PROVE q[i] = v[i]
    <2>1. i \in 1..m \/ \E j \in 1..e : i = m + j
      BY <1>1, Splits
    <2>2. CASE i \in 1..m
      <3>1. (addrs \o u)[i] = addrs[i] /\ v[i] = p[i]
        BY <1>1, <1>4, <2>2 DEF v
      <3> QED BY <1>2, <1>3, <2>2, <3>1
    <2>3. CASE \E j \in 1..e : i = m + j
      <3>1. PICK j \in 1..e : i = m + j
        BY <2>3
      <3>2. v[i] = t[j] /\ (addrs \o u)[i] = u[j]
        BY <1>1, <1>4, <3>1 DEF v
      <3>3. t[j] = [dir |-> d[i].dir, iseq |-> d[i].iseq, addr |-> u[j]]
        BY <3>1
      <3> QED BY <1>3, <3>2, <3>3
    <2> QED BY <2>1, <2>2, <2>3
  <1>7. q = v
    BY <1>3, <1>5, <1>6
  <1> QED BY <1>2, <1>7 DEF p, q, v

\* Initially nothing has happened and nothing is written.
LEMMA AttrInit == Init => AttrInv
  <1> SUFFICES ASSUME Init PROVE AttrInv
    OBVIOUS
  <1>1. CodeInv
    BY CodeInit
  <1>2. mode = "sched" /\ out_bbr.n = 0 /\ DOMAIN runAt = {} /\ DOMAIN happened = {}
    BY DEF Init
  <1>3. ~Inside /\ ~Counted
    BY <1>2 DEF Inside, Counted
  <1>4. Assigned
    <2> DEFINE f == [i \in {} |-> 0]
    <2>1. f \in [DOMAIN runAt -> DOMAIN happened]
      BY <1>2
    <2> QED BY <1>2, <1>3, <2>1 DEF Assigned
  <1> QED BY <1>1, <1>3, <1>4 DEF AttrInv

\* The assignment of runs to executions stays when no run is written.
LEMMA AssignedKept ==
  ASSUME AttrInv, CodeInv', FileGrows, runAt' = runAt,
         Counted' => \/ Counted /\ Len(happened') = Len(happened)
                     \/ Len(happened') = Len(happened) + 1
  PROVE  Assigned'
  <1>1. RefInv /\ TypeOK /\ TypeOK'
    BY DEF AttrInv, CodeInv, RefInv
  <1>2. PICK f \in [DOMAIN runAt -> DOMAIN happened] :
          /\ \A i, j \in DOMAIN runAt : i < j => f[i] < f[j]
          /\ Counted => \A i \in DOMAIN runAt : f[i] < Len(happened)
          /\ \A i \in DOMAIN runAt :
               Belongs(log, defAt, ctxAt, log[runAt[i]], happened[f[i]])
    BY DEF AttrInv, Assigned
  <1>3. /\ happened \in Seq(Truth) /\ Len(happened) \in Nat
        /\ DOMAIN happened = 1..Len(happened)
    BY <1>1 DEF TypeOK
  <1>4. \A i \in DOMAIN runAt : /\ f[i] \in 1..Len(happened)
                                /\ f[i] \in DOMAIN happened' /\ happened'[f[i]] = happened[f[i]]
    BY <1>2, <1>3 DEF FileGrows, Kept
  <1>5. f \in [DOMAIN runAt' -> DOMAIN happened']
    BY <1>2, <1>4
  <1>6. Counted' => \A i \in DOMAIN runAt' : f[i] < Len(happened')
    BY <1>2, <1>3, <1>4
  <1>7. ASSUME NEW i \in DOMAIN runAt'
        PROVE  Belongs(log', defAt', ctxAt', log'[runAt'[i]], happened'[f[i]])
    <2>1. i \in DOMAIN runAt /\ Belongs(log, defAt, ctxAt, log[runAt[i]], happened[f[i]])
      BY <1>2
    <2>2. log'[runAt'[i]] = log[runAt[i]]
      BY <1>1, <2>1, RunRecord DEF FileGrows, Kept
    <2> QED BY <1>1, <1>4, <2>1, <2>2, RunRecord, BelongsKept
  <1> QED BY <1>2, <1>5, <1>6, <1>7 DEF Assigned

\* A counted run goes on waiting.
LEMMA CountedKept ==
  ASSUME AttrInv, Counted, FileGrows, UNCHANGED <<out_bbr, happened>>
  PROVE  /\ happened' # <<>>
         /\ Belongs(log', defAt', ctxAt', BBRUN(out_bbr)', happened'[Len(happened')])
  <1>1. RefInv /\ happened # <<>> /\ out_bbr.n > 0
        /\ Belongs(log, defAt, ctxAt, BBRUN(out_bbr), happened[Len(happened)])
    BY DEF AttrInv, CodeInv, Counted
  <1>2. Belongs(log', defAt', ctxAt', BBRUN(out_bbr), happened[Len(happened)])
    BY <1>1, PendingResolved, BelongsKept
  <1>3. BBRUN(out_bbr)' = BBRUN(out_bbr)
    BY DEF BBRUN
  <1> QED BY <1>1, <1>2, <1>3

\* A step between executions that does not touch the waiting run.
LEMMA AttrAside ==
  ASSUME AttrInv, CodeInv', FileGrows, ~Inside, ~Inside',
         UNCHANGED <<out_bbr, runAt, happened>>
  PROVE  AttrInv'
  <1>1. Counted' => Counted
    BY DEF Counted
  <1>2. Assigned'
    BY <1>1, AssignedKept
  <1>3. Counted' => /\ happened' # <<>>
                    /\ Belongs(log', defAt', ctxAt', BBRUN(out_bbr)', happened'[Len(happened')])
    BY <1>1, CountedKept
  <1> QED BY <1>2, <1>3 DEF AttrInv

\* The next statement of an execution that goes on, and the one before it.
LEMMA Onward ==
  ASSUME CodeInv, Inside
  PROVE  LET s == tt[cur][pc - 1]
             d == Written(tt[cur][1].bbd).accs
         IN /\ RefInv /\ s.k \in Nat /\ stmt.k \in Nat /\ d \in Seq(Entry)
            /\ now \in Truth /\ now.n \in Nat /\ now.n = s.n
            /\ out_bbr \in Bbr /\ out_bbr.n \in Nat
            /\ out_bbr.accs \in Seq(Addrs) /\ Len(out_bbr.accs) \in Nat
            /\ Len(out_bbr.accs) <= s.k
            /\ stmt.dirs \in Seq(Dirs) /\ Len(stmt.dirs) \in Nat
            /\ stmt.k <= Len(d) /\ Follows(s, stmt, d)
            /\ pc \in Nat /\ (pc' = pc + 1 => pc' - 1 = pc)
  <1> DEFINE s == tt[cur][pc - 1]
             d == Written(tt[cur][1].bbd).accs
  <1>1. mode = "run" /\ pc > 1 /\ RefInv /\ Started
    BY DEF Inside, CodeInv
  <1>2. /\ d \in Seq(Entry) /\ stmt \in Statement /\ pc \in Nat /\ s \in Statement
        /\ stmt.k <= Len(d) /\ Follows(s, stmt, d)
    BY <1>1, AtStatement
  <1>3. /\ now \in Truth /\ out_bbr \in Bbr
    BY <1>1, Running
  <1>4. now.n = s.n /\ Len(out_bbr.accs) <= s.k
    BY <1>1 DEF Started
  <1>5. stmt.dirs \in Seq(Dirs) /\ Len(stmt.dirs) \in Nat
    BY <1>2, DirsAreSeq
  <1>6. /\ now.n \in Nat /\ out_bbr.n \in Nat /\ out_bbr.accs \in Seq(Addrs)
        /\ Len(out_bbr.accs) \in Nat /\ s.k \in Nat /\ stmt.k \in Nat
    BY <1>2, <1>3 DEF Truth, Bbr, Statement
  <1> HIDE DEF s, d
  <1>7. pc' = pc + 1 => pc' - 1 = pc
    BY <1>2
  <1> QED BY <1>1, <1>2, <1>3, <1>4, <1>5, <1>6, <1>7 DEF s, d

\* Nothing is appended, by an instruction, a side exit or a false guard: if no address
\* is missing after it, none was before.
LEMMA PlacedPass ==
  ASSUME CodeInv, Inside, Placed, pc' = pc + 1, UNCHANGED <<tt, cur, bbdefs, log, defAt>>,
         now'.accs = now.accs, out_bbr'.accs = out_bbr.accs, out_bbr'.n <= now'.n
  PROVE  Placed'
  <1> DEFINE s == tt[cur][pc - 1]
             d == Written(tt[cur][1].bbd).accs
  <1>1. /\ s.k \in Nat /\ stmt.k \in Nat /\ Len(out_bbr.accs) \in Nat
        /\ Len(out_bbr.accs) <= s.k /\ Len(stmt.dirs) \in Nat /\ pc' - 1 = pc
        /\ Follows(s, stmt, d) /\ stmt.kind \in {"imark", "mem", "exit", "end"}
    <2>1. stmt.kind \in {"imark", "mem", "exit", "end"}
      BY Onward, Running DEF Inside, Statement
    <2> QED BY <2>1, Onward
  <1>2. stmt.k = s.k \/ stmt.k = s.k + Len(stmt.dirs)
    BY <1>1 DEF Follows
  <1> DEFINE x == Len(out_bbr.accs)
             e == Len(stmt.dirs)
  <1>3. x = stmt.k => x = s.k
    <2>1. /\ s.k \in Nat /\ stmt.k \in Nat /\ x \in Nat /\ e \in Nat /\ x <= s.k
          /\ stmt.k = s.k \/ stmt.k = s.k + e
      BY <1>1, <1>2
    <2> HIDE DEF s, d, x, e
    <2> QED BY <2>1
  <1>4. tt'[cur'][pc' - 1].k = stmt.k /\ d' = d
    BY <1>1 DEF stmt, Written
  <1>5. x = s.k => Within(now.accs, Paired(out_bbr.accs, d))
    BY DEF Placed
  <1>6. Len(out_bbr'.accs) = tt'[cur'][pc' - 1].k =>
          Within(now'.accs, Paired(out_bbr'.accs, d'))
    <2> HIDE DEF s, d
    <2> QED BY <1>3, <1>4, <1>5
  <1> QED BY <1>6 DEF Placed

\* A step inside an execution.
LEMMA AttrInside ==
  ASSUME AttrInv, CodeInv', FileGrows, Inside', UNCHANGED <<runAt, happened>>,
         Embeds(now'.accs, out_bbr'.accs), Placed'
  PROVE  AttrInv'
  <1>1. ~Counted'
    BY DEF Counted
  <1>2. Assigned'
    BY <1>1, AssignedKept
  <1> QED BY <1>1, <1>2 DEF AttrInv

\* trace_bb_flush assigns the waiting run to the last execution.
LEMMA AssignedFlush ==
  ASSUME AttrInv, CodeInv', FileGrows, ~Inside, Kept(FlushedLog, log'),
         runAt' = FlushedRunAt, happened' = happened, ~Counted'
  PROVE  Assigned'
  <1>1. RefInv /\ TypeOK
    BY DEF AttrInv, CodeInv, RefInv
  <1>2. CASE ~(out_bbr.n > 0)
    <2>1. runAt' = runAt
      BY <1>2 DEF FlushedRunAt
    <2> QED BY <2>1, AssignedKept
  <1>3. CASE out_bbr.n > 0
    <2> DEFINE r == BBRUN(out_bbr)
               m == Len(happened)
               x == Len(runAt) + 1
    <2>1. /\ Counted /\ FlushedLog = Append(log, r) /\ runAt' = Append(runAt, Len(log) + 1)
          /\ happened # <<>> /\ Belongs(log, defAt, ctxAt, r, happened[m])
      BY <1>3 DEF FlushedLog, FlushedRunAt, Counted, AttrInv
    <2>2. Belongs(log', defAt', ctxAt', r, happened[m])
      BY <1>1, <1>3, <2>1, PendingResolved, BelongsKept
    <2> HIDE DEF r
    <2>3. log \in Seq(Record) /\ runAt \in Seq(Nat \ {0}) /\ happened \in Seq(Truth)
      BY <1>1 DEF TypeOK, Positions
    <2>4. log'[Len(log) + 1] = r
      <3>1. Len(log) + 1 \in DOMAIN FlushedLog /\ FlushedLog[Len(log) + 1] = r
        BY <2>1, <2>3
      <3> QED BY <3>1 DEF Kept
    <2>5. /\ Len(runAt) \in Nat /\ DOMAIN runAt = 1..Len(runAt)
          /\ DOMAIN runAt' = 1..(Len(runAt) + 1) /\ runAt'[x] = Len(log) + 1
      BY <2>1, <2>3
    <2>6. m \in Nat /\ m \in DOMAIN happened /\ DOMAIN happened = 1..m
      BY <2>1, <2>3
    <2> HIDE DEF m
    <2>7. PICK f \in [DOMAIN runAt -> DOMAIN happened] :
            /\ \A i, j \in DOMAIN runAt : i < j => f[i] < f[j]
            /\ \A i \in DOMAIN runAt : f[i] < m
            /\ \A i \in DOMAIN runAt :
                 Belongs(log, defAt, ctxAt, log[runAt[i]], happened[f[i]])
      BY <2>1 DEF AttrInv, Assigned, m
    <2> DEFINE h == [i \in DOMAIN runAt' |-> IF i \in DOMAIN runAt THEN f[i] ELSE m]
    <2>8. /\ h \in [DOMAIN runAt' -> DOMAIN happened']
          /\ \A i \in DOMAIN runAt : h[i] = f[i]
          /\ h[x] = m
      BY <2>5, <2>6, <2>7
    <2> HIDE DEF h
    <2>9. ASSUME NEW i \in DOMAIN runAt', NEW j \in DOMAIN runAt', i < j PROVE h[i] < h[j]
      <3>1. i \in DOMAIN runAt /\ (j \in DOMAIN runAt \/ j = x)
        BY <2>5, <2>9
      <3> QED BY <2>7, <2>8, <2>9, <3>1
    <2>10. ASSUME NEW i \in DOMAIN runAt'
           PROVE  Belongs(log', defAt', ctxAt', log'[runAt'[i]], happened'[h[i]])
      <3>1. CASE i \in DOMAIN runAt
        <4>1. Belongs(log, defAt, ctxAt, log[runAt[i]], happened[f[i]])
          BY <2>7, <3>1
        <4>2. log'[runAt'[i]] = log[runAt[i]]
          BY <1>1, <3>1, RunRecord DEF FileGrows, Kept
        <4> QED BY <1>1, <2>8, <3>1, <4>1, <4>2, RunRecord, BelongsKept
      <3>2. CASE i = x
        BY <2>2, <2>4, <2>5, <2>8, <3>2
      <3> QED BY <2>5, <3>1, <3>2
    <2> QED BY <2>8, <2>9, <2>10 DEF Assigned
  <1> QED BY <1>2, <1>3

\* An instruction: the first of a definition writes the run before it.
LEMMA AttrIMark ==
  ASSUME AttrInv, CodeInv', FileGrows, RunIMark
  PROVE  AttrInv'
  <1>1. /\ mode = "run" /\ stmt.kind = "imark" /\ CodeInv /\ RefInv /\ RefInv' /\ TypeOK
        /\ now' = [now EXCEPT !.n = @ + 1] /\ pc' = pc + 1
        /\ UNCHANGED <<happened>>
    BY DEF RunIMark, AttrInv, CodeInv, RefInv
  <1>2. now'.accs = now.accs
    BY <1>1, Running DEF Truth
  <1>3. /\ pc \in Nat /\ pc >= 1 /\ (pc = 1 => stmt.n = 1) /\ (pc > 1 => stmt.n > 1)
    BY <1>1, AtStatement
  <1>4. CASE pc > 1
    <2>1. UNCHANGED <<log, traceVars, mode>>
      BY <1>3, <1>4 DEF RunIMark
    <2>2. Inside /\ Inside'
      BY <1>1, <1>3, <1>4, <2>1 DEF Inside
    <2>3. Embeds(now'.accs, out_bbr'.accs)
      BY <1>2, <2>1, <2>2 DEF AttrInv
    <2>4. out_bbr'.n <= now'.n
      <3>1. /\ now.n \in Nat /\ out_bbr.n \in Nat /\ out_bbr.n <= now.n
            /\ now'.n = now.n + 1 /\ out_bbr' = out_bbr
        BY <1>1, <2>1, <2>2, Onward DEF AttrInv, Placed, Truth
      <3> QED BY <3>1
    <2>5. Placed'
      <3>1. UNCHANGED <<tt, cur, bbdefs, log, defAt>> /\ out_bbr'.accs = out_bbr.accs
        BY <1>3, <1>4, <2>1 DEF RunIMark
      <3> QED BY <1>1, <1>2, <2>2, <2>4, <3>1, PlacedPass DEF AttrInv
    <2> QED BY <1>1, <2>1, <2>2, <2>3, <2>5, AttrInside
  <1>5. CASE pc = 1 /\ FlushFails
    <2>1. UNCHANGED <<log, traceVars>> /\ mode' = "panic"
      BY <1>3, <1>5 DEF RunIMark
    <2> QED BY <1>1, <1>5, <2>1, AttrAside DEF Inside
  <1>6. CASE pc = 1 /\ ~FlushFails
    <2>1. trace_bb_start(stmt.bbd) /\ mode' = mode
      BY <1>3, <1>6 DEF RunIMark
    <2>2. out_bbr'.accs = <<>> /\ now.accs = <<>>
      BY <1>1, <1>6, <2>1, StartContext DEF CodeInv, Started
    <2>3. ~Inside /\ Inside' /\ ~Counted'
      BY <1>1, <1>6, <2>1 DEF Inside, Counted
    <2> DEFINE r == CONTEXT(bbdefs[stmt.bbd].index, now.stack)
    <2>4. runAt' = FlushedRunAt /\ (log' = FlushedLog \/ log' = Append(FlushedLog, r))
      BY <2>1 DEF trace_bb_start
    <2>5. Kept(FlushedLog, log')
      <3>1. Kept(FlushedLog, FlushedLog)
        BY DEF Kept
      <3> QED BY <1>1, <2>4, <3>1, FlushKeeps, KeptAppend
    <2>6. Assigned'
      BY <1>1, <2>3, <2>4, <2>5, AssignedFlush
    <2>7. Embeds(<<>>, <<>>)
      <3>1. [i \in {} |-> 0] \in [{} -> {}] /\ DOMAIN <<>> = {}
        OBVIOUS
      <3> QED BY <3>1 DEF Embeds
    <2>8. Embeds(now'.accs, out_bbr'.accs)
      BY <1>2, <2>2, <2>7
    <2>9. Placed'
      <3>1. out_bbr'.n = 0 /\ now.n = 0 /\ now'.n = now.n + 1
        BY <1>1, <1>6, <2>1, StartContext, Running DEF CodeInv, Started, Truth
      <3>2. Within(<<>>, Paired(<<>>, Written(tt[cur][1].bbd).accs)')
        <4>1. [i \in {} |-> 0] \in [{} -> {}] /\ DOMAIN <<>> = {}
          OBVIOUS
        <4>2. DOMAIN Paired(<<>>, Written(tt[cur][1].bbd).accs)' = {}
          BY DEF Paired
        <4> QED BY <4>1, <4>2 DEF Within
      <3>3. /\ now'.accs = <<>> /\ out_bbr'.accs = <<>>
        BY <1>2, <2>2
      <3>4. Within(now'.accs, Paired(out_bbr'.accs, Written(tt[cur][1].bbd).accs'))
        BY <3>2, <3>3 DEF Paired
      <3> QED BY <3>1, <3>4 DEF Placed
    <2> QED BY <2>3, <2>6, <2>8, <2>9 DEF AttrInv
  <1> QED BY <1>3, <1>4, <1>5, <1>6

\* The addresses and the accesses of the statement that is next.
LEMMA NextAccesses ==
  ASSUME RefInv, mode = "run", stmt.kind = "mem", NEW a \in Addrs
  PROVE  /\ pc > 1 /\ out_bbr.accs \in Seq(Addrs) /\ now.accs \in Seq(Touch)
         /\ Traced(stmt.dirs, a) \in Seq(Addrs) /\ Touched(stmt.dirs, a) \in Seq(Touch)
         /\ Len(Touched(stmt.dirs, a)) = Len(Traced(stmt.dirs, a))
         /\ Len(Traced(stmt.dirs, a)) = Len(stmt.dirs)
         /\ \A j \in 1..Len(Touched(stmt.dirs, a)) :
              Touched(stmt.dirs, a)[j].addr = Traced(stmt.dirs, a)[j]
  <1> DEFINE dirs == stmt.dirs
             t == Touched(dirs, a)
             u == Traced(dirs, a)
  <1>1. pc > 1 /\ now.n > 0 /\ now \in Truth /\ out_bbr \in Bbr /\ stmt \in Statement
    BY Running, TouchTypes
  <1>2. dirs \in Seq(Dirs) /\ Len(dirs) \in Nat
    BY <1>1, DirsAreSeq
  <1>3. now.n - 1 \in Nat /\ \A j \in 1..Len(dirs) : dirs[j] \in Dirs
    BY <1>1, <1>2 DEF Truth
  <1>4. \A j \in 1..Len(dirs) : [dir |-> dirs[j], iseq |-> now.n - 1, addr |-> a] \in Touch
    BY <1>3 DEF Touch
  <1>5. t \in [1..Len(dirs) -> Touch] /\ u \in [1..Len(dirs) -> Addrs]
        /\ \A j \in 1..Len(dirs) : t[j].addr = u[j]
    BY <1>4 DEF Touched, Traced
  <1>6. Len(t) = Len(dirs) /\ t \in Seq(Touch)
    BY <1>2, <1>5, FunctionIsSeq
  <1>7. Len(u) = Len(dirs) /\ u \in Seq(Addrs)
    BY <1>2, <1>5, FunctionIsSeq
  <1> QED BY <1>1, <1>5, <1>6, <1>7 DEF Truth, Bbr

\* A memory statement inside an execution, with or without its accesses.
LEMMA AttrAccess ==
  ASSUME AttrInv, CodeInv', FileGrows, NEW a \in Addrs, RunAccess(a) \/ RunUntouched(a)
  PROVE  AttrInv'
  <1>1. /\ mode = "run" /\ stmt.kind = "mem" /\ RefInv /\ pc \in Nat /\ pc' = pc + 1
        /\ UNCHANGED <<mode, runAt, happened>> /\ out_bbr \in Bbr /\ now \in Truth
    BY Running DEF RunAccess, RunUntouched, AttrInv, CodeInv
  <1> DEFINE t == Touched(stmt.dirs, a)
             u == Traced(stmt.dirs, a)
  <1>2. /\ pc > 1 /\ out_bbr.accs \in Seq(Addrs) /\ now.accs \in Seq(Touch)
        /\ u \in Seq(Addrs) /\ t \in Seq(Touch) /\ Len(t) = Len(u)
        /\ \A j \in 1..Len(t) : t[j].addr = u[j]
    BY <1>1, NextAccesses
  <1>3. Inside /\ Inside'
    BY <1>1, <1>2 DEF Inside
  <1>4. /\ out_bbr'.accs = out_bbr.accs \o u
        /\ now'.accs = now.accs \o t \/ now'.accs = now.accs
    BY <1>1 DEF RunAccess, RunUntouched, Bbr, Truth
  <1> HIDE DEF t, u
  <1>5. Embeds(now.accs, out_bbr.accs)
    BY <1>3 DEF AttrInv
  <1>6. Embeds(now.accs, out_bbr.accs \o u)
    BY <1>2, <1>5, EmbedsLonger
  <1>7. Embeds(now.accs \o t, out_bbr.accs \o u)
    BY <1>2, <1>5, EmbedsMore
  <1>8. Embeds(now'.accs, out_bbr'.accs)
    BY <1>4, <1>6, <1>7
  <1>9. Placed'
    <2> DEFINE s == tt[cur][pc - 1]
               d == Written(tt[cur][1].bbd).accs
               p == Paired(out_bbr.accs, d)
               x == Len(out_bbr.accs)
               e == Len(stmt.dirs)
    <2>1. /\ s.k \in Nat /\ stmt.k \in Nat /\ x \in Nat /\ e \in Nat /\ x <= s.k
          /\ stmt.k <= Len(d) /\ d \in Seq(Entry) /\ now.n = s.n /\ pc' - 1 = pc
          /\ Follows(s, stmt, d)
      BY <1>1, <1>3, Onward DEF AttrInv
    <2>2. /\ stmt.n = s.n /\ stmt.k = s.k + e
          /\ \A i \in 1..e : d[s.k + i] = [dir |-> stmt.dirs[i], iseq |-> stmt.n - 1]
      BY <1>1, <2>1 DEF Follows
    <2>3. tt'[cur'][pc' - 1].k = stmt.k /\ d' = d
      <3>1. UNCHANGED <<tt, cur, bbdefs, log, defAt>>
        BY DEF RunAccess, RunUntouched, instrVars
      <3>2. pc' - 1 = pc
        BY <2>1
      <3> QED BY ONLY <3>1, <3>2 DEF stmt, Written, d
    <2>4. Len(u) = e /\ Len(t) = e
          /\ \A j \in 1..e : t[j] = [dir |-> stmt.dirs[j], iseq |-> now.n - 1, addr |-> u[j]]
      BY <1>1, <1>2, NextAccesses DEF t, u, Touched, Traced
    <2>5. out_bbr'.n = out_bbr.n /\ now'.n = now.n /\ out_bbr.n <= now.n
      BY <1>1, <1>3 DEF RunAccess, RunUntouched, Bbr, Truth, AttrInv, Placed
    <2>6. x = s.k => Within(now.accs, p)
      BY <1>3 DEF AttrInv, Placed
    <2> HIDE DEF s, d, p, x, e
    <2>7. ASSUME x = s.k PROVE Within(now'.accs, Paired(out_bbr'.accs, d))
      <3>1. /\ Len(out_bbr.accs) + Len(u) <= Len(d)
            /\ \A j \in 1..Len(u) : t[j] = [dir |-> d[Len(out_bbr.accs) + j].dir,
                             iseq |-> d[Len(out_bbr.accs) + j].iseq, addr |-> u[j]]
        <4>1. x + e <= Len(d)
          BY <2>1, <2>2, <2>7
        <4>2. \A j \in 1..e : d[x + j] = [dir |-> stmt.dirs[j], iseq |-> now.n - 1]
          BY <2>1, <2>2, <2>7
        <4>3. \A j \in 1..e : t[j] = [dir |-> d[x + j].dir, iseq |-> d[x + j].iseq,
                                     addr |-> u[j]]
          <5> SUFFICES ASSUME NEW j \in 1..e
                       PROVE  t[j] = [dir |-> d[x + j].dir, iseq |-> d[x + j].iseq, addr |-> u[j]]
            OBVIOUS
          <5>1. d[x + j] = [dir |-> stmt.dirs[j], iseq |-> now.n - 1]
            BY <4>2
          <5>2. d[x + j].dir = stmt.dirs[j] /\ d[x + j].iseq = now.n - 1
            BY ONLY <5>1
          <5> QED BY <2>4, <5>2
        <4> QED BY <2>4, <4>1, <4>3 DEF x
      <3>2. p \in Seq(Touch) /\ Paired(out_bbr.accs \o u, d) = p \o t
        BY <1>2, <2>1, <3>1, PairedMore DEF p
      <3>3. Within(now.accs \o t, p \o t) /\ Within(now.accs, p \o t)
        BY <1>2, <2>6, <2>7, <3>2, WithinMore, WithinLonger
      <3> QED BY <1>4, <3>2, <3>3
    <2>8. Len(out_bbr'.accs) = x + e
      BY <1>2, <1>4, <2>4, ConcatIs DEF x
    <2>9. Len(out_bbr'.accs) = stmt.k => x = s.k
      BY <2>1, <2>2, <2>8
    <2>10. Len(out_bbr'.accs) = tt'[cur'][pc' - 1].k => Within(now'.accs, Paired(out_bbr'.accs, d'))
      BY <2>3, <2>7, <2>9
    <2> QED BY <2>5, <2>10 DEF Placed, d
  <1> QED BY <1>1, <1>3, <1>8, <1>9, AttrInside

\* A false guard, or a side exit that is not taken.
LEMMA AttrPass ==
  ASSUME AttrInv, CodeInv', FileGrows, RunSkipped \/ RunStay
  PROVE  AttrInv'
  <1>1. /\ mode = "run" /\ stmt.kind # "imark" /\ CodeInv /\ RefInv /\ pc' = pc + 1
        /\ UNCHANGED <<mode, runAt, happened, now>>
    BY DEF RunSkipped, RunStay, trace_update_instrs, AttrInv, CodeInv
  <1>2. pc \in Nat /\ pc > 1
    <2>1. pc \in Nat /\ pc >= 1 /\ (pc = 1 => stmt.kind = "imark")
      BY <1>1, AtStatement
    <2> QED BY <1>1, <2>1
  <1>3. Inside /\ Inside'
    BY <1>1, <1>2 DEF Inside
  <1>4. out_bbr'.accs = out_bbr.accs
    BY <1>1, Running DEF RunSkipped, RunStay, trace_update_instrs, Bbr
  <1>5. out_bbr'.n <= now'.n
    <2>1. CASE RunSkipped
      BY <1>3, <2>1 DEF RunSkipped, traceVars, ghostVars, AttrInv, Placed
    <2>2. CASE RunStay
      <3>1. out_bbr'.n = stmt.n /\ stmt.kind = "exit"
        BY <1>1, <2>2, Running DEF RunStay, trace_update_instrs, Bbr
      <3>2. stmt.n = now.n /\ now.n \in Nat /\ now' = now
        BY <1>1, <1>3, <3>1, Onward DEF Follows
      <3> QED BY <3>1, <3>2
    <2> QED BY <2>1, <2>2
  <1>6. Placed'
    <2>1. UNCHANGED <<tt, cur, bbdefs, log, defAt>>
      BY DEF RunSkipped, RunStay, trace_update_instrs, instrVars
    <2> QED BY <1>1, <1>3, <1>4, <1>5, <2>1, PlacedPass DEF AttrInv
  <1> QED BY <1>1, <1>3, <1>4, <1>6, AttrInside DEF AttrInv

\* An execution is over, by an exit, the end, a fault or a trap: if out_bbr is counted,
\* it waits with the addresses of this execution and no more than its definition has.
LEMMA AttrLeave ==
  ASSUME AttrInv, CodeInv', FileGrows, RunLeave \/ RunTrap \/ \E a \in Addrs : RunFault(a)
  PROVE  AttrInv'
  <1>1. /\ mode = "run" /\ CodeInv /\ RefInv /\ mode' = "sched"
        /\ happened' = Append(happened, now)
        /\ UNCHANGED <<tt, bbdefs, log, defAt, ctxAt, runAt>>
    BY DEF RunLeave, RunTrap, RunFault, trace_update_instrs, Leave, AttrInv, CodeInv
  <1>2. PICK b : b = tt[cur][1].bbd
    OBVIOUS
  <1> DEFINE s == tt[cur][pc - 1]
             d == Written(b)
  <1>3. /\ pc > 1 /\ stmt \in Statement /\ s \in Statement /\ Follows(s, stmt, d.accs)
        /\ stmt.k <= Len(d.accs) /\ d.at = cur /\ d.accs \in Seq(Entry)
    <2>1. /\ pc \in Nat /\ pc >= 1 /\ (pc = 1 => stmt.kind = "imark")
      BY <1>1, <1>2, AtStatement
    <2>2. pc > 1
      <3>1. stmt.kind # "imark" \/ pc > 1
        BY DEF RunLeave, RunTrap, RunFault, trace_update_instrs
      <3> QED BY <2>1, <3>1
    <2> QED BY <1>1, <1>2, <2>1, <2>2, AtStatement
  <1>4. /\ now.at = cur /\ Len(out_bbr.accs) <= s.k
        /\ log[ctxAt[out_bbr.ctx + 1]] = CONTEXT(bbdefs[b].index, now.stack)
    BY <1>1, <1>2, <1>3 DEF CodeInv, Started
  <1>5. Inside /\ ~Inside' /\ Embeds(now.accs, out_bbr.accs)
    BY <1>1, <1>3 DEF Inside, AttrInv
  <1>6. /\ now \in Truth /\ out_bbr \in Bbr /\ happened \in Seq(Truth)
        /\ out_bbr.accs \in Seq(Addrs)
    BY <1>1, Running DEF RefInv, TypeOK, Bbr
  <1>7. /\ Len(happened) \in Nat /\ Len(happened') = Len(happened) + 1
        /\ happened'[Len(happened')] = now /\ happened' # <<>>
    BY <1>1, <1>6
  <1>8. /\ s.k \in Nat /\ stmt.k \in Nat /\ Len(d.accs) \in Nat /\ Len(stmt.dirs) \in Nat
        /\ Len(out_bbr.accs) \in Nat
    <2>1. Len(stmt.dirs) \in Nat
      BY <1>3, DirsAreSeq
    <2>2. Len(out_bbr.accs) \in Nat /\ Len(d.accs) \in Nat
      BY <1>3, <1>6
    <2> QED BY <1>3, <2>1, <2>2 DEF Statement
  <1>9. s.k <= stmt.k /\ (stmt.kind = "mem" => stmt.k = s.k + Len(stmt.dirs))
    <2>1. stmt.kind \in {"imark", "mem", "exit", "end"}
      BY <1>3 DEF Statement
    <2>2. stmt.k = s.k \/ (stmt.kind = "mem" /\ stmt.k = s.k + Len(stmt.dirs))
      BY <1>3, <2>1 DEF Follows
    <2>3. stmt.kind = "mem" => stmt.k = s.k + Len(stmt.dirs)
      BY <1>3 DEF Follows
    <2> QED BY <1>8, <2>2, <2>3
  <1> DEFINE all == Len(out_bbr'.accs) = Len(d.accs)
  <1>10. /\ out_bbr'.ctx = out_bbr.ctx /\ out_bbr'.n <= now.n
         /\ Embeds(now.accs, out_bbr'.accs)
         /\ Len(out_bbr'.accs) <= Len(d.accs)
         /\ all => Within(now.accs, Paired(out_bbr'.accs, d.accs))
    <2> DEFINE x == Len(out_bbr.accs)
               y == Len(d.accs)
    <2>3. /\ x = s.k => Within(now.accs, Paired(out_bbr.accs, d.accs))
          /\ out_bbr.n <= now.n /\ now.n = s.n /\ now.n \in Nat
      BY <1>1, <1>2, <1>5, Onward DEF AttrInv, Placed
    <2>1. CASE RunLeave \/ RunTrap
      <3>1. out_bbr'.ctx = out_bbr.ctx /\ out_bbr'.accs = out_bbr.accs
        BY <1>6, <2>1 DEF RunLeave, RunTrap, trace_update_instrs, Bbr
      <3>2. /\ x <= s.k /\ s.k <= stmt.k /\ stmt.k <= y
            /\ x \in Nat /\ y \in Nat /\ s.k \in Nat /\ stmt.k \in Nat
        BY <1>3, <1>4, <1>8, <1>9
      <3> HIDE DEF x, y
      <3>3. x <= y /\ (x = y => x = s.k)
        BY <3>2
      <3>4. out_bbr'.n <= now.n
        <4>1. CASE RunLeave
          <5>1. out_bbr'.n = stmt.n /\ stmt.kind \in {"exit", "end"}
            BY <1>6, <4>1 DEF RunLeave, trace_update_instrs, Bbr
          <5>2. stmt.n = s.n
            BY <1>3, <5>1 DEF Follows
          <5> QED BY <2>3, <5>1, <5>2
        <4>2. CASE RunTrap
          BY <2>3, <4>2 DEF RunTrap, traceVars
        <4> QED BY <2>1, <4>1, <4>2
      <3>5. all => Within(now.accs, Paired(out_bbr'.accs, d.accs))
        BY <2>3, <3>1, <3>3 DEF x, y
      <3> QED BY <1>5, <3>1, <3>3, <3>4, <3>5 DEF x, y
    <2>2. CASE \E a \in Addrs : RunFault(a)
      <3>1. PICK a \in Addrs : RunFault(a)
        BY <2>2
      <3> DEFINE u == Traced(stmt.dirs, a)
      <3>2. stmt.kind = "mem" /\ u \in Seq(Addrs) /\ Len(u) = Len(stmt.dirs)
        BY <1>1, <3>1, NextAccesses DEF RunFault
      <3>3. /\ out_bbr'.ctx = out_bbr.ctx /\ out_bbr'.n = out_bbr.n
            /\ out_bbr'.accs = out_bbr.accs \o u
        BY <1>6, <3>1 DEF RunFault, Bbr
      <3> HIDE DEF u
      <3>4. Embeds(now.accs, out_bbr.accs \o u)
        BY <1>5, <1>6, <3>2, EmbedsLonger
      <3>5. Len(out_bbr.accs \o u) = Len(out_bbr.accs) + Len(u)
        BY <1>6, <3>2, ConcatIs
      <3> DEFINE z == Len(out_bbr.accs \o u)
                 e == Len(stmt.dirs)
      <3>6. /\ z = x + e /\ x <= s.k /\ stmt.k = s.k + e /\ stmt.k <= y
            /\ x \in Nat /\ y \in Nat /\ e \in Nat /\ s.k \in Nat /\ stmt.k \in Nat
        BY <1>3, <1>4, <1>8, <1>9, <3>2, <3>5
      <3> HIDE DEF x, y, z, e
      <3>7. z <= y /\ (z = y => x = s.k)
        BY <3>6
      <3>8. ASSUME all PROVE Within(now.accs, Paired(out_bbr'.accs, d.accs))
        <4> DEFINE t == Touched(stmt.dirs, a)
                   p == Paired(out_bbr.accs, d.accs)
        <4>1. x = s.k
          BY <3>3, <3>7, <3>8 DEF y, z
        <4>2. /\ t \in Seq(Touch) /\ Len(t) = e /\ Len(u) = e
              /\ \A j \in 1..e : t[j] = [dir |-> stmt.dirs[j], iseq |-> now.n - 1,
                                         addr |-> u[j]]
          BY <1>1, <3>2, NextAccesses DEF u, Touched, Traced, e
        <4>3. \A j \in 1..e : d.accs[x + j] = [dir |-> stmt.dirs[j], iseq |-> now.n - 1]
          <5>1. /\ stmt.n = s.n
                /\ \A i \in 1..e : d.accs[s.k + i] = [dir |-> stmt.dirs[i], iseq |-> stmt.n - 1]
            BY <1>3, <3>2 DEF Follows, e
          <5> QED BY <2>3, <4>1, <5>1
        <4> HIDE DEF t
        <4>4. \A j \in 1..e : t[j] = [dir |-> d.accs[x + j].dir, iseq |-> d.accs[x + j].iseq,
                                      addr |-> u[j]]
          <5> SUFFICES ASSUME NEW j \in 1..e
                       PROVE  t[j] = [dir |-> d.accs[x + j].dir, iseq |-> d.accs[x + j].iseq,
                                      addr |-> u[j]]
            OBVIOUS
          <5>1. d.accs[x + j] = [dir |-> stmt.dirs[j], iseq |-> now.n - 1]
            BY <4>3
          <5>2. d.accs[x + j].dir = stmt.dirs[j] /\ d.accs[x + j].iseq = now.n - 1
            BY ONLY <5>1
          <5> QED BY <4>2, <5>2
        <4>5. x + e <= y
          BY <3>6, <3>7
        <4>6. p \in Seq(Touch) /\ Paired(out_bbr.accs \o u, d.accs) = p \o t
          <5>1. /\ out_bbr.accs \in Seq(Addrs) /\ u \in Seq(Addrs) /\ d.accs \in Seq(Entry)
                /\ t \in Seq(Touch) /\ Len(t) = Len(u)
                /\ Len(out_bbr.accs) + Len(u) <= Len(d.accs)
                /\ \A j \in 1..Len(u) : t[j] = [dir |-> d.accs[Len(out_bbr.accs) + j].dir,
                       iseq |-> d.accs[Len(out_bbr.accs) + j].iseq, addr |-> u[j]]
            BY <1>3, <1>6, <3>2, <4>2, <4>4, <4>5 DEF x, y
          <5> QED BY ONLY <5>1, PairedMore DEF p
        <4>7. Within(now.accs, p)
          BY <2>3, <4>1
        <4> HIDE DEF p
        <4>8. Within(now.accs, p \o t)
          BY <4>2, <4>6, <4>7, WithinLonger
        <4> QED BY <3>3, <4>6, <4>8
      <3> QED BY <2>3, <3>3, <3>4, <3>7, <3>8 DEF y, z
    <2> QED BY <2>1, <2>2
  <1> DEFINE r == BBRUN(out_bbr)'
             c == log[ctxAt[out_bbr.ctx + 1]]
  <1>11. r.ctx = out_bbr.ctx /\ r.addrs = out_bbr'.accs /\ r.n = out_bbr'.n
    BY <1>10 DEF BBRUN
  <1>12. /\ c.bbdef = bbdefs[b].index /\ c.stack = now.stack
         /\ log[defAt[c.bbdef + 1]] = d
    BY <1>4 DEF CONTEXT, Written
  <1> HIDE DEF r, c, s, d
  <1>13. Belongs(log', defAt', ctxAt', r, now)
    <2>1. Belongs(log, defAt, ctxAt, r, now)
      BY <1>3, <1>4, <1>10, <1>11, <1>12 DEF Belongs, c
    <2> QED BY <1>1, <2>1
  <1>14. Assigned'
    BY <1>1, <1>7, AssignedKept
  <1> QED BY <1>5, <1>7, <1>13, <1>14 DEF AttrInv, r

\* dg_fini writes the waiting run, or its assertion fails.
LEMMA AttrFini ==
  ASSUME AttrInv, CodeInv', FileGrows, dg_fini
  PROVE  AttrInv'
  <1>1. mode = "sched" /\ mode' \in {"panic", "done"} /\ happened' = happened
        /\ out_bbr \in Bbr
    BY DEF dg_fini, AttrInv, CodeInv, RefInv, TypeOK
  <1>2. ~Inside /\ ~Inside'
    BY <1>1 DEF Inside
  <1>3. CASE FlushFails
    BY <1>1, <1>2, <1>3, AttrAside DEF dg_fini
  <1>4. CASE ~FlushFails
    <2>1. /\ log' = FlushedLog /\ runAt' = FlushedRunAt
          /\ out_bbr' = [out_bbr EXCEPT !.n = 0, !.accs = <<>>]
      BY <1>4 DEF dg_fini
    <2>2. ~Counted'
      <3>1. out_bbr'.n = 0
        BY <1>1, <2>1 DEF Bbr
      <3> QED BY <3>1 DEF Counted
    <2>3. Kept(FlushedLog, log')
      BY <2>1 DEF Kept
    <2>4. Assigned'
      BY <1>1, <1>2, <2>1, <2>2, <2>3, AssignedFlush
    <2> QED BY <1>2, <2>2, <2>4 DEF AttrInv
  <1> QED BY <1>3, <1>4

\* Every step keeps the attribution.
LEMMA AttrStep ==
  ASSUME AttrInv, [Next]_vars
  PROVE  AttrInv'
  <1>1. CodeInv /\ CodeInv' /\ FileGrows
    BY CodeStep DEF AttrInv
  <1>2. CASE Instrument
    <2>1. UNCHANGED <<out_bbr, runAt, happened>> /\ mode \in {"sched", "instr"}
      BY <1>2 DEF Instrument, InstrumentBegin, AddInstr, AddAccess, AddExit,
         AddUnsupported, InstrumentEnd
    <2>2. mode' # "run"
      BY <1>2, <2>1 DEF Instrument, InstrumentBegin, AddInstr, AddAccess, AddExit,
         AddUnsupported, InstrumentEnd
    <2> QED BY <1>1, <2>1, <2>2, AttrAside DEF Inside
  <1>3. CASE Run
    <2>1. CASE \E k \in Keys, ec \in Stacks : Execute(k, ec)
      <3>1. UNCHANGED <<out_bbr, runAt, happened>> /\ mode = "sched" /\ pc' = 1
        BY <2>1 DEF Execute
      <3> QED BY <1>1, <3>1, AttrAside DEF Inside
    <2> QED BY <1>1, <1>3, <2>1, AttrIMark, AttrAccess, AttrPass, AttrLeave DEF Run
  <1>4. CASE (\E k \in Keys : dg_discard_superblock_info(k)) \/ dg_handle_client_request
    <2>1. UNCHANGED <<out_bbr, runAt, happened, mode>> /\ mode = "sched"
      <3>1. CASE \E k \in Keys : dg_discard_superblock_info(k)
        <4>1. PICK k \in Keys : dg_discard_superblock_info(k)
          BY <3>1
        <4>2. UNCHANGED traceVars /\ UNCHANGED ghostVars /\ mode = "sched" /\ mode' = mode
          BY <4>1, Zenon DEF dg_discard_superblock_info
        <4> QED BY ONLY <4>2 DEF traceVars, ghostVars
      <3>2. CASE dg_handle_client_request
        BY <3>2 DEF dg_handle_client_request, traceVars, ghostVars
      <3> QED BY <1>4, <3>1, <3>2
    <2> QED BY <1>1, <2>1, AttrAside DEF Inside
  <1>5. CASE dg_fini
    BY <1>1, <1>5, AttrFini
  <1>6. CASE UNCHANGED vars
    <2>1. UNCHANGED <<out_bbr, runAt, happened, mode, pc, now>>
      BY <1>6 DEF vars
    <2>2. CASE Inside
      <3>1. Placed'
        BY <1>6, <2>2 DEF vars, instrVars, AttrInv, Placed, Written
      <3> QED BY <1>1, <2>1, <2>2, <3>1, AttrInside DEF Inside, AttrInv
    <2>3. CASE ~Inside
      BY <1>1, <2>1, <2>3, AttrAside DEF Inside
    <2> QED BY <2>2, <2>3
  <1> QED BY <1>2, <1>3, <1>4, <1>5, <1>6 DEF Next, Terminating

\* The invariant for attribution holds in every reachable state.
LEMMA AttrInvariant == Spec => []AttrInv
  <1>1. AttrInv /\ [Next]_vars => AttrInv'
    BY AttrStep
  <1> QED BY <1>1, AttrInit, PTL DEF Spec

\* With faults, false guards, unsupported statements and discards, every BBRUN belongs
\* to one execution of its block from its stack, in order, with all addresses of that
\* execution in order among the ones written and no more of them than the definition
\* has accesses; no access is ever attributed to a run of another block.
THEOREM AccessesAttributed == Spec => []Attribution
  <1>1. ASSUME NEW r, NEW h, Belongs(log, defAt, ctxAt, r, h)
        PROVE  /\ DefOf(r).at = h.at /\ ContextOf(r).stack = h.stack
               /\ Embeds(h.accs, r.addrs) /\ Len(r.addrs) <= Len(DefOf(r).accs)
    BY <1>1 DEF Belongs, DefOf, ContextOf
  <1>2. AttrInv => Attribution
    <2> SUFFICES ASSUME AttrInv PROVE Attribution
      OBVIOUS
    <2>1. PICK f \in [DOMAIN runAt -> DOMAIN happened] :
            /\ \A i, j \in DOMAIN runAt : i < j => f[i] < f[j]
            /\ \A i \in DOMAIN runAt :
                 Belongs(log, defAt, ctxAt, log[runAt[i]], happened[f[i]])
      BY DEF AttrInv, Assigned
    <2> QED BY <1>1, <2>1 DEF Attribution, Embeds
  <1> QED BY <1>2, AttrInvariant, PTL

\* With faults, false guards, unsupported statements and discards, no BBRUN counts
\* more instructions than its execution entered, and one with as many addresses as its
\* BBDEF has accesses decodes to every access of its execution at the right place.
THEOREM RunsReadable == Spec => []ReadableRuns
  <1>1. ASSUME NEW r, NEW h, Belongs(log, defAt, ctxAt, r, h)
        PROVE  /\ Decode(r).at = h.at /\ Decode(r).stack = h.stack /\ Decode(r).n <= h.n
               /\ Len(r.addrs) = Len(DefOf(r).accs) => Within(h.accs, Decode(r).accs)
    <2> DEFINE d == DefOf(r)
               c == ContextOf(r)
    <2>1. /\ d.at = h.at /\ c.stack = h.stack /\ r.n <= h.n
          /\ Len(r.addrs) <= Len(d.accs)
          /\ Len(r.addrs) = Len(d.accs) => Within(h.accs, Paired(r.addrs, d.accs))
      BY <1>1 DEF Belongs, DefOf, ContextOf
    <2>2. /\ Decode(r).at = d.at /\ Decode(r).stack = c.stack /\ Decode(r).n = r.n
          /\ Decode(r).accs = Paired(r.addrs, d.accs)
      BY <2>1 DEF Decode, Paired
    <2> QED BY <2>1, <2>2
  <1>2. AttrInv => ReadableRuns
    <2> SUFFICES ASSUME AttrInv PROVE ReadableRuns
      OBVIOUS
    <2>1. PICK f \in [DOMAIN runAt -> DOMAIN happened] :
            /\ \A i, j \in DOMAIN runAt : i < j => f[i] < f[j]
            /\ \A i \in DOMAIN runAt :
                 Belongs(log, defAt, ctxAt, log[runAt[i]], happened[f[i]])
      BY DEF AttrInv, Assigned
    <2> QED BY <1>1, <2>1 DEF ReadableRuns
  <1> QED BY <1>2, AttrInvariant, PTL
=============================================================================
