--------------------------- MODULE DgOutputProofs ---------------------------
(***************************************************************************)
(* out_buf never overflows, whatever records are written.  While writes    *)
(* succeed no field is lost, repeated or reordered; when they fail, what a *)
(* process put into the file has gaps only.  One process with a working    *)
(* file is a Recorder, and every record in its file can be skipped.  All   *)
(* of it for any word and buffer size, the first three with any number of  *)
(* forked processes.                                                       *)
(***************************************************************************)
EXTENDS DgOutput, SequenceTheorems, WellFoundedInduction, TLAPS

-----------------------------------------------------------------------------
(* Every record is a sequence of fields that fit into an empty buffer.     *)

\* The sizes that the fields have.
LEMMA Widths ==
  /\ {W, LenW, MagicLen, LabelMax} \subseteq 1..BufSize /\ BufSize \in Nat
  /\ 1 \in 1..BufSize /\ {Esc, StackDepth, MaxIps, MaxRecords} \subseteq Nat
  BY OutputAssumption

\* A single field, as a sequence.
LEMMA OneField ==
  ASSUME NEW what \in {"type", "len", "ext", "raw"}, NEW n \in 1..BufSize, NEW val \in Nat
  PROVE  Field(what, n, val) \in FieldType /\ <<Field(what, n, val)>> \in Seq(FieldType)
  BY DEF Field, FieldType

\* The pieces that records are put together from.
LEMMA Pieces ==
  /\ \A n \in 1..BufSize : Raw(n) \in FieldType /\ <<Raw(n)>> \in Seq(FieldType)
  /\ out_word \in Seq(FieldType)
  /\ \A n \in Nat : Length1(n) \in Seq(FieldType) /\ out_length(n) \in Seq(FieldType)
  /\ \A n \in 0..BufSize : Text(n) \in Seq(FieldType)
<1> USE Widths
<1>1. \A n \in 1..BufSize : Raw(n) \in FieldType /\ <<Raw(n)>> \in Seq(FieldType)
  BY OneField DEF Raw
<1>2. out_word \in Seq(FieldType)
  BY <1>1 DEF out_word
<1>3. \A n \in Nat : Length1(n) \in Seq(FieldType)
  <2>1. \A n \in Nat : n % (Esc + 1) \in Nat
    OBVIOUS
  <2> QED BY <2>1, OneField DEF Length1
<1>4. \A n \in Nat : out_length(n) \in Seq(FieldType)
  <2>1. \A n \in Nat : <<Field("ext", LenW, n)>> \in Seq(FieldType)
    BY OneField
  <2> QED BY <1>3, <2>1 DEF out_length
<1>5. \A n \in 0..BufSize : Text(n) \in Seq(FieldType)
  BY <1>1 DEF Text
<1> QED BY <1>1, <1>2, <1>3, <1>4, <1>5

\* The type byte of any kind of record.
LEMMA TypeField == ASSUME NEW kind \in Kinds PROVE Type(kind) \in Seq(FieldType)
<1>1. DG_R[kind] \in Nat
  BY DEF DG_R, Kinds
<1> QED BY <1>1, OneField, Widths DEF Type

\* A group of fields written k times.
LEMMA Repeated ==
  ASSUME NEW k \in Nat, NEW fields \in Seq(FieldType), fields # <<>>
  PROVE  Repeat(k, fields) \in Seq(FieldType)
<1> DEFINE L == Len(fields)
<1>1. L \in Nat /\ L > 0 /\ k * L \in Nat
  BY EmptySeq
<1>2. \A i \in 1 .. k * L : ((i - 1) % L) + 1 \in 1..L
  BY <1>1
<1>3. \A j \in 1..L : fields[j] \in FieldType
  OBVIOUS
<1>4. \A i \in 1 .. k * L : fields[((i - 1) % L) + 1] \in FieldType
  BY <1>2, <1>3
<1> HIDE DEF L
<1>5. [i \in 1 .. k * L |-> fields[((i - 1) % L) + 1]] \in Seq(FieldType)
  BY <1>1, <1>4
<1> QED BY <1>5 DEF Repeat, L

\* A record is a sequence of fields.
LEMMA RecordFields ==
  ASSUME NEW r \in Records
  PROVE  Fields(r) \in Seq(FieldType)
<1>1. r.kind \in Kinds /\ r.n \in Nat /\ r.m \in Nat
  BY OutputAssumption
<1>2. r.kind = "TEXT_AVMA" => r.n \in 0..BufSize
  BY <1>1, OutputAssumption, Widths
<1> DEFINE S == Seq(FieldType)
<1>3. \A a, b \in S : a \o b \in S
  OBVIOUS
<1>4. out_word \in S /\ <<Raw(1)>> \in S
  BY Pieces, Widths
<1>5. \A n \in Nat : Length1(n) \in S /\ out_length(n) \in S
  BY Pieces
<1>6. \A kind \in Kinds : Type(kind) \in S
  BY TypeField
<1>7. /\ "BBRUN" \in Kinds /\ "CONTEXT" \in Kinds /\ "BBDEF" \in Kinds
      /\ "TEXT_AVMA" \in Kinds /\ "MALLOC_BLOCK" \in Kinds /\ "FREE_BLOCK" \in Kinds
      /\ "TRACK_RANGE" \in Kinds /\ "UNTRACK_RANGE" \in Kinds
  BY DEF Kinds, DG_R
<1>8. \A k \in Nat : /\ Repeat(k, out_word) \in S
                     /\ Repeat(k, out_word \o <<Raw(1)>>) \in S
                     /\ Repeat(k, <<Raw(1), Raw(1), Raw(1)>>) \in S
  <2>1. out_word # <<>> /\ out_word \o <<Raw(1)>> # <<>> /\ <<Raw(1), Raw(1), Raw(1)>> # <<>>
    BY DEF out_word
  <2>2. Raw(1) \in FieldType
    BY Pieces, Widths
  <2>3. out_word \o <<Raw(1)>> \in S /\ <<Raw(1), Raw(1), Raw(1)>> \in S
    BY <1>4, <2>2
  <2> QED BY <1>4, <2>1, <2>3, Repeated
<1>9. W \in Nat /\ LabelMax \in 0..BufSize /\ BufSize \in Nat
  BY Widths
<1>10. \A n \in Nat : \A top \in Nat : Clamp(n, top) \in 0..top
  BY DEF Clamp
<1>11. \A n \in Nat : /\ Clamp(n, MaxIps) \in Nat /\ Clamp(n, StackDepth) \in Nat
                      /\ Clamp(n, LabelMax) \in Nat /\ Clamp(n, LabelMax) \in 0..BufSize
  <2>1. MaxIps \in Nat /\ StackDepth \in Nat /\ LabelMax \in Nat
    BY <1>9, Widths
  <2>2. \A n \in Nat : /\ Clamp(n, MaxIps) \in 0..MaxIps
                       /\ Clamp(n, StackDepth) \in 0..StackDepth
                       /\ Clamp(n, LabelMax) \in 0..LabelMax
    BY <1>10, <2>1
  <2> HIDE DEF Clamp
  <2> QED BY <1>9, <2>1, <2>2
<1>12. \A n \in 0..BufSize : Text(n) \in S
  BY Pieces
<1> HIDE DEF S
<1>13. \A n \in Nat : BBRun(n) \in S
  <2> SUFFICES ASSUME NEW n \in Nat PROVE BBRun(n) \in S
    OBVIOUS
  <2>1. 1 + (1 + n) * W \in Nat
    BY <1>9
  <2>2. Type("BBRUN") \o out_length(1 + (1 + n) * W) \in S
    BY <1>3, <1>5, <1>6, <1>7, <2>1
  <2> QED BY <1>3, <1>4, <1>8, <2>2 DEF BBRun
<1>14. \A n \in Nat : Context(n) \in S
  <2> SUFFICES ASSUME NEW n \in Nat PROVE Context(n) \in S
    OBVIOUS
  <2> DEFINE c == Clamp(n, MaxIps)
  <2>1. c \in Nat
    BY <1>11
  <2> HIDE DEF c
  <2>2. 1 + (1 + c) * W \in Nat
    BY <1>9, <2>1
  <2>3. Type("CONTEXT") \o out_length(1 + (1 + c) * W) \in S
    BY <1>3, <1>5, <1>6, <1>7, <2>2
  <2> QED BY <1>3, <1>4, <1>8, <2>1, <2>3 DEF Context, c
<1>15. \A n, m \in Nat : BBDef(n, m) \in S
  <2> SUFFICES ASSUME NEW n \in Nat, NEW m \in Nat PROVE BBDef(n, m) \in S
    OBVIOUS
  <2> DEFINE len == 1 + W + (1 + W) * n + 3 * m
  <2>1. len \in Nat
    BY <1>9
  <2> HIDE DEF len
  <2>2. Type("BBDEF") \o out_length(len) \in S
    BY <1>3, <1>5, <1>6, <1>7, <2>1
  <2> QED BY <1>3, <1>4, <1>8, <2>2 DEF BBDef, len
<1>16. \A n \in 0..BufSize : TextAvma(n) \in S
  <2> SUFFICES ASSUME NEW n \in 0..BufSize PROVE TextAvma(n) \in S
    OBVIOUS
  <2>1. n + W + 1 \in Nat
    BY <1>9
  <2>2. Type("TEXT_AVMA") \o out_length(n + W + 1) \in S
    BY <1>3, <1>5, <1>6, <1>7, <2>1
  <2> QED BY <1>3, <1>4, <1>12, <2>2 DEF TextAvma
<1>17. \A n \in Nat : MallocBlock(n) \in S
  <2> SUFFICES ASSUME NEW n \in Nat PROVE MallocBlock(n) \in S
    OBVIOUS
  <2> DEFINE c == Clamp(n, StackDepth)
  <2>1. c \in Nat
    BY <1>11
  <2> HIDE DEF c
  <2>2. c + 3 \in Nat /\ (c + 3) * W \in Nat
    BY <1>9, <2>1
  <2>3. Type("MALLOC_BLOCK") \o Length1((c + 3) * W) \in S
    BY <1>3, <1>5, <1>6, <1>7, <2>2
  <2> QED BY <1>3, <1>8, <2>2, <2>3 DEF MallocBlock, c
<1>18. FreeBlock \in S /\ UntrackRange \in S
  <2>1. 2 * W \in Nat /\ W \in Nat
    BY <1>9
  <2>2. Type("FREE_BLOCK") \o Length1(W) \in S /\ Type("UNTRACK_RANGE") \o Length1(2 * W) \in S
    BY <1>3, <1>5, <1>6, <1>7, <2>1
  <2> QED BY <1>3, <1>4, <2>2 DEF FreeBlock, UntrackRange
<1>19. \A n, m \in Nat : TrackRange(n, m) \in S
  <2> SUFFICES ASSUME NEW n \in Nat, NEW m \in Nat PROVE TrackRange(n, m) \in S
    OBVIOUS
  <2> DEFINE t == Clamp(n, LabelMax)
             l == Clamp(m, LabelMax)
  <2>1. t \in Nat /\ l \in Nat /\ Text(t) \in S /\ Text(l) \in S
    BY <1>11, <1>12
  <2> HIDE DEF t, l
  <2>2. 2 * W + t + l + 2 \in Nat
    BY <1>9, <2>1
  <2>3. Type("TRACK_RANGE") \o Length1(2 * W + t + l + 2) \in S
    BY <1>3, <1>5, <1>6, <1>7, <2>2
  <2> QED BY <1>3, <1>4, <2>1, <2>3 DEF TrackRange, t, l
<1>20. \A n \in Nat : Event(r.kind, n) \in S
  <2> SUFFICES ASSUME NEW n \in Nat PROVE Event(r.kind, n) \in S
    OBVIOUS
  <2> DEFINE l == Clamp(n, LabelMax)
  <2>1. l \in Nat /\ Text(l) \in S
    BY <1>11, <1>12
  <2> HIDE DEF l
  <2>2. Type(r.kind) \o Length1(l + 1) \in S
    BY <1>1, <1>3, <1>5, <1>6, <2>1
  <2> QED BY <1>3, <2>1, <2>2 DEF Event, l
<1>21. Fields(r) \in S
  BY <1>1, <1>2, <1>13, <1>14, <1>15, <1>16, <1>17, <1>18, <1>19, <1>20 DEF Fields
<1> QED BY <1>21 DEF S

\* The header is one, too.
LEMMA HeaderFields == Header \in Seq(FieldType)
<1>1. Type("HEADER") \in Seq(FieldType)
  BY TypeField DEF Kinds, DG_R
<1>2. Raw(MagicLen) \in FieldType /\ Raw(1) \in FieldType
  BY Pieces, Widths
<1>3. <<Raw(MagicLen), Raw(1), Raw(1), Raw(1)>> \in Seq(FieldType)
  BY <1>2
<1>4. MagicLen + 3 \in Nat
  BY Widths
<1>5. Length1(MagicLen + 3) \in Seq(FieldType)
  BY <1>4, Pieces
<1> QED BY <1>1, <1>3, <1>5 DEF Header
-----------------------------------------------------------------------------
(* The buffer.                                                             *)

\* The buffer of a process that has not begun is empty.
Untouched ==
  \A p \in Procs : status[p] \in {"none", "init"} =>
    /\ out_buf[p] = <<>> /\ out_buf_used[p] = 0 /\ todo[p] = <<>>
    /\ emitted[p] = <<>> /\ wrote[p] = <<>>

\* What a process has emitted is what it has written and what its buffer holds.
Conserved ==
  /\ \A p \in Procs : wrote[p] \o out_buf[p] = emitted[p]
  /\ \A p \in Procs : status[p] = "closed" => out_buf[p] = <<>>

\* Only one process writes until there is a fork.
SoleWriter ==
  (\A q \in Procs \ {Root} : status[q] = "none") => file = wrote[Root]

BufferInv == TypeOK /\ Untouched /\ Conserved /\ SoleWriter

\* out_flush, when writes work, moves the whole buffer to the file.
LEMMA FlushAll ==
  ASSUME TypeOK, ~MayFail, NEW p \in Procs, out_flush(p)
  PROVE  /\ file' = file \o out_buf[p]
         /\ wrote' = [wrote EXCEPT ![p] = @ \o out_buf[p]]
  BY DEF out_flush, Written

\* What out_flush writes is a sequence of fields in any case.
LEMMA WrittenType ==
  ASSUME TypeOK, NEW p \in Procs, NEW w \in Written(p)
  PROVE  w \in Seq(FieldType)
<1>1. out_buf[p] \in Seq(FieldType)
  BY DEF TypeOK
<1>2. \A i \in 0..Len(out_buf[p]) : SubSeq(out_buf[p], 1, i) \in Seq(FieldType)
  BY <1>1
<1> QED BY <1>1, <1>2 DEF Written

\* Emitting a field never passes the end of the buffer.
LEMMA EmitType ==
  ASSUME TypeOK, NEW p \in Procs, Emit(p)
  PROVE  TypeOK'
<1> DEFINE f == Head(todo[p])
<1>1. f \in FieldType /\ Tail(todo[p]) \in Seq(FieldType)
  BY DEF TypeOK, Emit
<1>2. f.n \in 1..BufSize /\ out_buf_used[p] \in 0..BufSize /\ BufSize \in Nat
  BY <1>1, Widths DEF TypeOK, FieldType
<1> HIDE DEF f
<1>3. /\ emitted' = [emitted EXCEPT ![p] = Append(@, f)]
      /\ todo' = [todo EXCEPT ![p] = Tail(@)]
      /\ UNCHANGED <<status, nrec>>
  BY DEF Emit, f
<1>4. /\ emitted' \in [Procs -> Seq(FieldType)] /\ todo' \in [Procs -> Seq(FieldType)]
  BY <1>1, <1>3 DEF TypeOK
<1>5. CASE Full(p, f.n)
  <2>1. /\ out_flush(p) /\ out_buf' = [out_buf EXCEPT ![p] = <<f>>]
        /\ out_buf_used' = [out_buf_used EXCEPT ![p] = f.n]
    BY <1>5 DEF Emit, Restart, f
  <2>2. PICK w \in Written(p) : /\ file' = file \o w
                               /\ wrote' = [wrote EXCEPT ![p] = @ \o w]
    BY <2>1 DEF out_flush
  <2>3. w \in Seq(FieldType)
    BY WrittenType
  <2>4. file' \in Seq(FieldType) /\ wrote' \in [Procs -> Seq(FieldType)]
    BY <2>2, <2>3 DEF TypeOK
  <2>5. /\ out_buf' \in [Procs -> Seq(FieldType)]
        /\ out_buf_used' \in [Procs -> 0..BufSize]
    BY <1>1, <1>2, <2>1 DEF TypeOK
  <2> QED BY <1>3, <1>4, <2>4, <2>5 DEF TypeOK
<1>6. CASE ~Full(p, f.n)
  <2>1. /\ out_buf' = [out_buf EXCEPT ![p] = Append(@, f)]
        /\ out_buf_used' = [out_buf_used EXCEPT ![p] = @ + f.n]
        /\ UNCHANGED <<file, wrote>>
    BY <1>6 DEF Emit, f
  <2>2. out_buf_used[p] + f.n \in 0..BufSize
    BY <1>2, <1>6 DEF Full
  <2>3. /\ out_buf' \in [Procs -> Seq(FieldType)]
        /\ out_buf_used' \in [Procs -> 0..BufSize]
    BY <1>1, <2>1, <2>2 DEF TypeOK
  <2> QED BY <1>3, <1>4, <2>1, <2>3 DEF TypeOK
<1> QED BY <1>5, <1>6

\* The end of a process, or its beginning, keeps the types.
LEMMA OtherTypes ==
  ASSUME TypeOK,
         \/ prepare_out_file
         \/ \E p \in Procs : \/ \E r \in Records : BeginRecord(p, r)
                             \/ dg_fini(p) \/ Die(p)
                             \/ \E q \in Procs : Fork(p, q)
  PROVE  TypeOK'
<1>1. CASE prepare_out_file
  BY <1>1, HeaderFields, OutputAssumption DEF TypeOK, prepare_out_file
<1>2. ASSUME NEW p \in Procs, NEW r \in Records, BeginRecord(p, r) PROVE TypeOK'
  <2>1. Fields(r) \in Seq(FieldType) /\ MaxRecords \in Nat
    BY RecordFields, Widths
  <2> QED BY <1>2, <2>1 DEF TypeOK, BeginRecord
<1>3. ASSUME NEW p \in Procs, dg_fini(p) PROVE TypeOK'
  <2>1. PICK w \in Written(p) : /\ file' = file \o w
                               /\ wrote' = [wrote EXCEPT ![p] = @ \o w]
    BY <1>3 DEF dg_fini, out_flush
  <2>2. w \in Seq(FieldType)
    BY WrittenType
  <2>3. file' \in Seq(FieldType) /\ wrote' \in [Procs -> Seq(FieldType)]
    BY <2>1, <2>2 DEF TypeOK
  <2>4. BufSize \in Nat
    BY Widths
  <2>5. /\ out_buf' \in [Procs -> Seq(FieldType)]
        /\ out_buf_used' \in [Procs -> 0..BufSize]
    BY <1>3, <2>4 DEF TypeOK, dg_fini
  <2>6. status' \in [Procs -> {"none", "init", "open", "closed", "dead"}]
    BY <1>3 DEF TypeOK, dg_fini
  <2> QED BY <1>3, <2>3, <2>5, <2>6 DEF TypeOK, dg_fini
<1>4. ASSUME NEW p \in Procs, Die(p) PROVE TypeOK'
  BY <1>4 DEF TypeOK, Die
<1>5. ASSUME NEW p \in Procs, NEW q \in Procs, Fork(p, q) PROVE TypeOK'
  BY <1>5 DEF TypeOK, Fork
<1> QED BY <1>1, <1>2, <1>3, <1>4, <1>5

\* out_buf_used stays inside out_buf and every variable in its type, even when
\* writes fail and processes fork or die.
THEOREM BufferNeverOverflows == Spec => []TypeOK
<1>1. Init => TypeOK
  BY Widths DEF Init, TypeOK
<1>2. TypeOK /\ [Next]_vars => TypeOK'
  <2> SUFFICES ASSUME TypeOK, [Next]_vars PROVE TypeOK'
    OBVIOUS
  <2>1. CASE \E p \in Procs : Emit(p)
    BY <2>1, EmitType
  <2>2. CASE \/ prepare_out_file
             \/ \E p \in Procs : \/ \E r \in Records : BeginRecord(p, r)
                                 \/ dg_fini(p) \/ Die(p)
                                 \/ \E q \in Procs : Fork(p, q)
    BY <2>2, OtherTypes
  <2>3. CASE UNCHANGED vars
    BY <2>3 DEF vars, TypeOK
  <2> QED BY <2>1, <2>2, <2>3 DEF Next, Terminating
<1> QED BY <1>1, <1>2, PTL DEF Spec

-----------------------------------------------------------------------------
(* Conservation.                                                           *)

\* Appending at the end of a concatenation is appending to its second part.
LEMMA ConcatAppend ==
  ASSUME NEW S, NEW a \in Seq(S), NEW b \in Seq(S), NEW e \in S
  PROVE  /\ a \o Append(b, e) = Append(a \o b, e)
         /\ a \o <<e>> = Append(a, e)
<1>1. <<e>> \in Seq(S) /\ a \o b \in Seq(S)
  OBVIOUS
<1>2. Append(b, e) = b \o <<e>>
  BY AppendIsConcat
<1>3. Append(a \o b, e) = (a \o b) \o <<e>>
  BY <1>1, AppendIsConcat
<1>4. a \o (b \o <<e>>) = (a \o b) \o <<e>>
  BY <1>1, ConcatAssociative
<1>5. a \o <<e>> = Append(a, e)
  BY AppendIsConcat
<1> QED BY <1>2, <1>3, <1>4, <1>5

\* Emitting a field, with a flush or without.
LEMMA EmitConserves ==
  ASSUME BufferInv, TypeOK', ~MayFail, NEW p \in Procs, Emit(p)
  PROVE  BufferInv'
<1> DEFINE f == Head(todo[p])
<1>1. f \in FieldType /\ status[p] = "open" /\ status' = status
  BY DEF BufferInv, TypeOK, Emit
<1>2. /\ out_buf[p] \in Seq(FieldType) /\ wrote[p] \in Seq(FieldType)
      /\ emitted[p] \in Seq(FieldType) /\ file \in Seq(FieldType)
      /\ wrote[p] \o out_buf[p] = emitted[p]
      /\ SoleWriter
  BY DEF BufferInv, TypeOK, Conserved
<1>3. \A q \in Procs \ {p} : /\ out_buf'[q] = out_buf[q] /\ emitted'[q] = emitted[q]
                             /\ wrote'[q] = wrote[q] /\ todo'[q] = todo[q]
                             /\ out_buf_used'[q] = out_buf_used[q]
  <2>1. \A q \in Procs \ {p} : wrote'[q] = wrote[q]
    <3>1. CASE Full(p, f.n)
      BY <3>1 DEF Emit, out_flush, BufferInv, TypeOK
    <3>2. CASE ~Full(p, f.n)
      BY <3>2 DEF Emit
    <3> QED BY <3>1, <3>2
  <2>2. \A q \in Procs \ {p} :
          out_buf'[q] = out_buf[q] /\ out_buf_used'[q] = out_buf_used[q]
    <3>1. CASE Full(p, f.n)
      BY <3>1 DEF Emit, Restart, BufferInv, TypeOK
    <3>2. CASE ~Full(p, f.n)
      BY <3>2 DEF Emit, BufferInv, TypeOK
    <3> QED BY <3>1, <3>2
  <2> QED BY <2>1, <2>2 DEF Emit, BufferInv, TypeOK
<1>4. emitted'[p] = Append(emitted[p], f)
  BY DEF Emit, BufferInv, TypeOK
<1>5. /\ wrote'[p] \o out_buf'[p] = emitted'[p]
      /\ SoleWriter'
  <2>1. CASE Full(p, f.n)
    <3>1. out_flush(p) /\ out_buf'[p] = <<f>>
      BY <2>1 DEF Emit, Restart, BufferInv, TypeOK
    <3>2. /\ file' = file \o out_buf[p]
          /\ wrote' = [wrote EXCEPT ![p] = @ \o out_buf[p]]
      BY <3>1, FlushAll DEF BufferInv
    <3>3. wrote'[p] = wrote[p] \o out_buf[p]
      BY <3>2 DEF BufferInv, TypeOK
    <3>4. wrote'[p] = emitted[p]
      BY <1>2, <3>3
    <3>5. wrote'[p] \o out_buf'[p] = emitted'[p]
      <4>1. emitted[p] \o <<f>> = Append(emitted[p], f)
        BY <1>1, <1>2, ConcatAppend
      <4> QED BY <1>4, <3>1, <3>4, <4>1
    <3>6. ASSUME \A q \in Procs \ {Root} : status'[q] = "none" PROVE file' = wrote'[Root]
      <4>1. p = Root /\ file = wrote[Root]
        BY <1>1, <1>2, <3>6 DEF SoleWriter
      <4> QED BY <3>2, <3>3, <4>1
    <3> QED BY <3>5, <3>6 DEF SoleWriter
  <2>2. CASE ~Full(p, f.n)
    <3>1. out_buf'[p] = Append(out_buf[p], f) /\ UNCHANGED <<file, wrote>>
      BY <2>2 DEF Emit, BufferInv, TypeOK
    <3>2. wrote[p] \o Append(out_buf[p], f) = Append(wrote[p] \o out_buf[p], f)
      <4> HIDE DEF f
      <4> DEFINE w == wrote[p]
                 b == out_buf[p]
      <4>1. w \in Seq(FieldType) /\ b \in Seq(FieldType) /\ f \in FieldType
        BY <1>1, <1>2
      <4> HIDE DEF w, b
      <4>2. w \o Append(b, f) = Append(w \o b, f)
        BY ONLY <4>1, ConcatAppend
      <4> QED BY <4>2 DEF w, b
    <3> QED BY <1>1, <1>2, <1>4, <3>1, <3>2 DEF SoleWriter
  <2> QED BY <2>1, <2>2
<1>6. Untouched'
  BY <1>1, <1>3 DEF BufferInv, Untouched
<1>7. Conserved'
  BY <1>1, <1>3, <1>5 DEF BufferInv, Conserved
<1> QED BY <1>5, <1>6, <1>7 DEF BufferInv

\* dg_fini writes what is left.
LEMMA FiniConserves ==
  ASSUME BufferInv, TypeOK', ~MayFail, NEW p \in Procs, dg_fini(p)
  PROVE  BufferInv'
<1>1. /\ file' = file \o out_buf[p]
      /\ wrote' = [wrote EXCEPT ![p] = @ \o out_buf[p]]
  BY FlushAll DEF BufferInv, dg_fini
<1>2. /\ status[p] = "open" /\ status' = [status EXCEPT ![p] = "closed"]
      /\ out_buf' = [out_buf EXCEPT ![p] = <<>>]
      /\ out_buf_used' = [out_buf_used EXCEPT ![p] = 0]
      /\ UNCHANGED <<todo, emitted>>
  BY DEF dg_fini
<1>3. /\ out_buf[p] \in Seq(FieldType) /\ wrote[p] \in Seq(FieldType)
      /\ file \in Seq(FieldType) /\ wrote[p] \o out_buf[p] = emitted[p]
      /\ status'[p] = "closed" /\ out_buf'[p] = <<>>
      /\ wrote'[p] = wrote[p] \o out_buf[p]
  BY <1>1, <1>2 DEF BufferInv, TypeOK, Conserved
<1>4. wrote'[p] \o <<>> = emitted'[p]
  BY <1>2, <1>3
<1>5. \A q \in Procs \ {p} : /\ out_buf'[q] = out_buf[q] /\ wrote'[q] = wrote[q]
                             /\ status'[q] = status[q]
                             /\ out_buf_used'[q] = out_buf_used[q]
  BY <1>1, <1>2 DEF BufferInv, TypeOK
<1>6. Untouched'
  BY <1>2, <1>3, <1>5 DEF BufferInv, Untouched
<1>7. Conserved'
  BY <1>2, <1>3, <1>4, <1>5 DEF BufferInv, Conserved
<1>8. SoleWriter'
  <2> SUFFICES ASSUME \A q \in Procs \ {Root} : status'[q] = "none"
               PROVE  file' = wrote'[Root]
    BY DEF SoleWriter
  <2>1. p = Root
    BY <1>3
  <2>2. file = wrote[Root]
    BY <1>5, <2>1 DEF BufferInv, SoleWriter
  <2> QED BY <1>1, <1>3, <2>1, <2>2
<1> QED BY <1>6, <1>7, <1>8 DEF BufferInv

\* A forked child starts with a copy of the buffer and nothing written.
LEMMA ForkConserves ==
  ASSUME BufferInv, TypeOK', NEW p \in Procs, NEW q \in Procs, Fork(p, q)
  PROVE  BufferInv'
<1>1. /\ status[p] = "open" /\ status[q] = "none" /\ todo[p] = <<>>
      /\ status' = [status EXCEPT ![q] = "open"]
      /\ out_buf' = [out_buf EXCEPT ![q] = out_buf[p]]
      /\ out_buf_used' = [out_buf_used EXCEPT ![q] = out_buf_used[p]]
      /\ emitted' = [emitted EXCEPT ![q] = out_buf[p]]
      /\ UNCHANGED <<file, todo, wrote>>
  BY DEF Fork
<1>2. /\ wrote[q] = <<>> /\ out_buf[p] \in Seq(FieldType) /\ status'[q] = "open"
      /\ out_buf'[q] = out_buf[p] /\ emitted'[q] = out_buf[p]
  BY <1>1 DEF BufferInv, TypeOK, Untouched
<1>3. wrote'[q] \o out_buf'[q] = emitted'[q]
  BY <1>1, <1>2
<1>4. \A r \in Procs \ {q} : /\ out_buf'[r] = out_buf[r] /\ emitted'[r] = emitted[r]
                             /\ status'[r] = status[r]
                             /\ out_buf_used'[r] = out_buf_used[r]
  BY <1>1 DEF BufferInv, TypeOK
<1>5. Untouched'
  BY <1>1, <1>2, <1>4 DEF BufferInv, Untouched
<1>6. Conserved'
  BY <1>1, <1>2, <1>3, <1>4 DEF BufferInv, Conserved
<1>7. SoleWriter'
  <2> SUFFICES ASSUME \A r \in Procs \ {Root} : status'[r] = "none"
               PROVE  file' = wrote'[Root]
    BY DEF SoleWriter
  <2>1. q = Root
    BY <1>2
  <2>2. p # q
    BY <1>1
  <2>3. status'[p] = "open"
    BY <1>1, <1>4, <2>2
  <2> QED BY <2>1, <2>2, <2>3
<1> QED BY <1>5, <1>6, <1>7 DEF BufferInv

\* Steps that touch neither a buffer nor the file.
LEMMA QuietStatus ==
  ASSUME TypeOK,
         \/ prepare_out_file
         \/ \E p \in Procs : (\E r \in Records : BeginRecord(p, r)) \/ Die(p)
  PROVE  /\ UNCHANGED <<file, out_buf, out_buf_used, emitted, wrote>>
         /\ \A p \in Procs : /\ status'[p] = "none" <=> status[p] = "none"
                             /\ status'[p] = "closed" => status[p] = "closed"
                             /\ status'[p] = "init" => status[p] = "init"
                             /\ status'[p] \in {"none", "init"} => todo'[p] = todo[p]
<1>1. CASE prepare_out_file
  BY <1>1, OutputAssumption DEF prepare_out_file, TypeOK
<1>2. ASSUME NEW p \in Procs, NEW r \in Records, BeginRecord(p, r)
      PROVE  /\ UNCHANGED <<file, out_buf, out_buf_used, emitted, wrote>>
             /\ \A q \in Procs : /\ status'[q] = status[q]
                                 /\ status[q] # "open" => todo'[q] = todo[q]
  BY <1>2 DEF BeginRecord, TypeOK
<1>3. ASSUME NEW p \in Procs, Die(p)
      PROVE  /\ UNCHANGED <<file, out_buf, out_buf_used, emitted, wrote>>
             /\ \A q \in Procs : /\ todo'[q] = todo[q]
                                 /\ status'[q] = status[q] \/
                                      (status[q] = "open" /\ status'[q] = "dead")
  BY <1>3 DEF Die, TypeOK
<1> QED BY <1>1, <1>2, <1>3

LEMMA QuietConserves ==
  ASSUME BufferInv, TypeOK',
         \/ prepare_out_file
         \/ \E p \in Procs : (\E r \in Records : BeginRecord(p, r)) \/ Die(p)
  PROVE  BufferInv'
<1>1. /\ UNCHANGED <<file, out_buf, out_buf_used, emitted, wrote>>
      /\ \A p \in Procs : /\ status'[p] = "none" <=> status[p] = "none"
                          /\ status'[p] = "closed" => status[p] = "closed"
                          /\ status'[p] = "init" => status[p] = "init"
                          /\ status'[p] \in {"none", "init"} => todo'[p] = todo[p]
  BY QuietStatus DEF BufferInv
<1>2. Untouched'
  BY <1>1 DEF BufferInv, Untouched
<1>3. Conserved' /\ SoleWriter'
  BY <1>1 DEF BufferInv, Conserved, SoleWriter
<1> QED BY <1>2, <1>3 DEF BufferInv

\* The inductive invariant holds while writes succeed.
THEOREM BufferInvariant == ASSUME ~MayFail PROVE Spec => []BufferInv
<1>1. Init => BufferInv
  <2> SUFFICES ASSUME Init PROVE BufferInv
    OBVIOUS
  <2>1. TypeOK /\ Untouched
    BY Widths DEF Init, TypeOK, Untouched
  <2>2. Conserved /\ SoleWriter
    BY OutputAssumption DEF Init, Conserved, SoleWriter
  <2> QED BY <2>1, <2>2 DEF BufferInv
<1>2. BufferInv /\ TypeOK' /\ [Next]_vars => BufferInv'
  <2> SUFFICES ASSUME BufferInv, TypeOK', [Next]_vars PROVE BufferInv'
    OBVIOUS
  <2>1. CASE \E p \in Procs : Emit(p)
    BY <2>1, EmitConserves
  <2>2. CASE \E p \in Procs : dg_fini(p)
    BY <2>2, FiniConserves
  <2>3. CASE \E p, q \in Procs : Fork(p, q)
    BY <2>3, ForkConserves
  <2>4. CASE \/ prepare_out_file
             \/ \E p \in Procs : (\E r \in Records : BeginRecord(p, r)) \/ Die(p)
    BY <2>4, QuietConserves
  <2>5. CASE UNCHANGED vars
    BY <2>5 DEF vars, BufferInv, Untouched, Conserved, SoleWriter
  <2> QED BY <2>1, <2>2, <2>3, <2>4, <2>5 DEF Next, Terminating
<1> QED BY <1>1, <1>2, BufferNeverOverflows, PTL DEF Spec

\* While writes succeed nothing emitted is lost, repeated or reordered, and after
\* dg_fini all of it is in the file.
THEOREM NothingIsLost == ASSUME ~MayFail PROVE Spec => []NothingLost
<1>1. BufferInv => NothingLost
  <2> SUFFICES ASSUME BufferInv PROVE NothingLost
    OBVIOUS
  <2>1. \A p \in Procs : status[p] = "closed" => wrote[p] = emitted[p]
    <3> SUFFICES ASSUME NEW p \in Procs, status[p] = "closed" PROVE wrote[p] = emitted[p]
      OBVIOUS
    <3>1. wrote[p] \in Seq(FieldType) /\ out_buf[p] = <<>>
      BY DEF BufferInv, TypeOK, Conserved
    <3>2. wrote[p] \o <<>> = wrote[p]
      BY <3>1
    <3> QED BY <3>1, <3>2 DEF BufferInv, Conserved
  <2> QED BY <2>1 DEF BufferInv, Conserved, SoleWriter, NothingLost
<1> QED BY <1>1, BufferInvariant, PTL
-----------------------------------------------------------------------------
(* Induction, and functions defined by it.                                 *)

\* A set of natural numbers that is not empty has a least element.
LEMMA LeastNat ==
  ASSUME NEW T, T \subseteq Nat, T # {}
  PROVE  \E x \in T : \A y \in T : x <= y
<1> DEFINE R == OpToRel(<, Nat)
<1>1. IsWellFoundedOn(R, Nat)
  BY NatLessThanWellFounded
<1>2. \E x \in T : \A y \in T : ~ (<<y, x>> \in R)
  <2> HIDE DEF R
  <2> QED BY <1>1, WFMin
<1>3. \A x, y \in Nat : <<y, x>> \in R <=> y < x
  BY DEF OpToRel
<1> HIDE DEF R
<1>4. PICK x \in T : \A y \in T : ~ (<<y, x>> \in R)
  BY <1>2
<1>5. ASSUME NEW y \in T PROVE x <= y
  <2>1. x \in Nat /\ y \in Nat
    OBVIOUS
  <2>2. ~ (<<y, x>> \in R)
    BY <1>4
  <2>3. ~ (y < x)
    BY <1>3, <2>1, <2>2, Zenon
  <2> QED BY <2>1, <2>3
<1> QED BY <1>5

\* Induction up to n over a set.
LEMMA UpTo ==
  ASSUME NEW n \in Nat, NEW S, 0 \in S, \A k \in 0..n : k \in S /\ k < n => k + 1 \in S
  PROVE  0..n \subseteq S
<1> SUFFICES ASSUME ~ (0..n \subseteq S) PROVE FALSE
  OBVIOUS
<1> DEFINE T == {k \in 0..n : k \notin S}
<1>1. T \subseteq Nat /\ T # {}
  OBVIOUS
<1>2. PICK x \in T : \A y \in T : x <= y
  BY <1>1, LeastNat
<1>3. x # 0 /\ x - 1 \in 0..n /\ x - 1 \notin T /\ x - 1 < n
  BY <1>2
<1> QED BY <1>2, <1>3

\* G[k] is the step from the value at k - 1 to the value at k, and f takes these steps.
StepsUpTo(n, G) == \A k \in 1..n : \A v \in Nat : G[k][v] \in Nat
Takes(f, n, G) == /\ f \in [0..n -> Nat] /\ f[0] = 0
                  /\ \A k \in 1..n : f[k] = G[k][f[k - 1]]

\* A function that is 0 at 0 can be defined on 0..n by its steps.
LEMMA StepwiseFunction ==
  ASSUME NEW n \in Nat, NEW G, StepsUpTo(n, G)
  PROVE  \E f : Takes(f, n, G)
<1> USE DEF StepsUpTo
<1> DEFINE Good(f, m) == f[0] = 0 /\ \A k \in 1..m : f[k] = G[k][f[k - 1]]
           S == {m \in 0..n : \E f \in [0..m -> Nat] : Good(f, m)}
<1>1. 0 \in S
  <2> DEFINE z == [k \in 0..0 |-> 0]
  <2>1. z \in [0..0 -> Nat] /\ Good(z, 0) /\ 0 \in 0..n
    OBVIOUS
  <2> HIDE DEF z
  <2> QED BY <2>1
<1>2. ASSUME NEW m \in 0..n, m \in S, m < n PROVE m + 1 \in S
  <2>1. PICK f \in [0..m -> Nat] : Good(f, m)
    BY <1>2
  <2> DEFINE g == [k \in 0..(m + 1) |-> IF k = m + 1 THEN G[m + 1][f[m]] ELSE f[k]]
  <2>2. f[m] \in Nat /\ m + 1 \in 1..n /\ G[m + 1][f[m]] \in Nat
    <3>1. f[m] \in Nat /\ m + 1 \in 1..n
      BY <1>2
    <3> QED BY <3>1
  <2>3. g \in [0..(m + 1) -> Nat]
    <3>1. \A k \in 0..(m + 1) : k # m + 1 => k \in 0..m
      BY <1>2
    <3> QED BY <2>2, <3>1
  <2>4. \A k \in 0..m : g[k] = f[k]
    BY <1>2
  <2>5. g[m + 1] = G[m + 1][f[m]]
    BY <1>2
  <2> HIDE DEF g
  <2>6. g[0] = 0
    BY <1>2, <2>1, <2>4
  <2>7. ASSUME NEW k \in 1..(m + 1) PROVE g[k] = G[k][g[k - 1]]
    <3>1. CASE k = m + 1
      <4>1. k - 1 = m /\ m \in 0..m
        BY <1>2, <3>1
      <4> QED BY <2>4, <2>5, <3>1, <4>1
    <3>2. CASE k \in 1..m
      <4>1. k \in 0..m /\ k - 1 \in 0..m
        BY <1>2, <3>2
      <4> QED BY <2>1, <2>4, <3>2, <4>1
    <3> QED BY <1>2, <3>1, <3>2
  <2>8. m + 1 \in 0..n
    BY <1>2
  <2> QED BY <2>3, <2>6, <2>7, <2>8
<1> HIDE DEF S
<1>3. 0..n \subseteq S
  BY <1>1, <1>2, UpTo
<1>4. n \in S
  BY <1>3
<1> QED BY <1>4 DEF S, Takes

\* What Bytes computes.
LEMMA BytesIs ==
  ASSUME NEW s \in Seq(FieldType)
  PROVE  /\ Bytes(s) \in [0..Len(s) -> Nat]
         /\ Bytes(s)[0] = 0
         /\ \A k \in 1..Len(s) : Bytes(s)[k] = Bytes(s)[k - 1] + s[k].n
<1> DEFINE n == Len(s)
           G == [k \in 1..n |-> [v \in Nat |-> v + s[k].n]]
<1>1. n \in Nat /\ \A k \in 1..n : s[k].n \in Nat
  <2>1. n \in Nat /\ \A k \in 1..n : s[k] \in FieldType
    OBVIOUS
  <2>2. \A f \in FieldType : f.n \in Nat
    BY Widths DEF FieldType
  <2> QED BY <2>1, <2>2
<1> HIDE DEF n
<1>2. \A k \in 1..n : \A v \in Nat : G[k][v] \in Nat
  BY <1>1
<1>3. \A k \in 1..n : \A v \in Nat : G[k][v] = v + s[k].n
  OBVIOUS
<1> HIDE DEF G
<1>4. PICK f : Takes(f, n, G)
  <2>1. n \in Nat /\ StepsUpTo(n, G)
    BY <1>1, <1>2 DEF StepsUpTo
  <2> QED BY <2>1, StepwiseFunction
<1>5. \A k \in 1..n : k - 1 \in 0..n /\ f[k - 1] \in Nat
  BY <1>1, <1>4 DEF Takes
<1>6. \A k \in 1..n : f[k] = f[k - 1] + s[k].n
  BY <1>3, <1>4, <1>5 DEF Takes
<1>7. f = [k \in 0..n |-> IF k = 0 THEN 0 ELSE f[k - 1] + s[k].n]
  <2>1. \A k \in 0..n : f[k] = IF k = 0 THEN 0 ELSE f[k - 1] + s[k].n
    BY <1>1, <1>4, <1>6 DEF Takes
  <2> QED BY <1>4, <2>1 DEF Takes
<1> DEFINE b == CHOOSE g : g = [k \in 0..n |-> IF k = 0 THEN 0 ELSE g[k - 1] + s[k].n]
<1>8. b = [k \in 0..n |-> IF k = 0 THEN 0 ELSE b[k - 1] + s[k].n]
  BY <1>7
<1>9. Bytes(s) = b
  BY DEF Bytes, n
<1> HIDE DEF b
<1>10. b[0] = 0 /\ \A k \in 1..n : b[k] = b[k - 1] + s[k].n
  BY <1>1, <1>8
<1>11. 0..n \subseteq {k \in 0..n : b[k] \in Nat}
  <2> DEFINE S == {k \in 0..n : b[k] \in Nat}
  <2>1. 0 \in S
    BY <1>1, <1>10
  <2>2. ASSUME NEW k \in 0..n, k \in S, k < n PROVE k + 1 \in S
    <3>1. k + 1 \in 1..n /\ (k + 1) - 1 = k /\ k + 1 \in 0..n
      BY <1>1, <2>2
    <3>2. b[k + 1] = b[k] + s[k + 1].n /\ s[k + 1].n \in Nat
      BY <1>1, <1>10, <3>1
    <3> QED BY <2>2, <3>1, <3>2
  <2> HIDE DEF S
  <2>3. 0..n \subseteq S
    BY <1>1, <2>1, <2>2, UpTo
  <2> QED BY <2>3 DEF S
<1>12. b \in [0..n -> Nat]
  BY <1>8, <1>11
<1> QED BY <1>9, <1>10, <1>12 DEF n

\* What Met computes.
LEMMA MetIs ==
  ASSUME NEW w \in Seq(FieldType), NEW e \in Seq(FieldType)
  PROVE  /\ Met(w, e) \in [0..Len(e) -> Nat]
         /\ Met(w, e)[0] = 0
         /\ \A k \in 1..Len(e) :
              LET m == Met(w, e)[k - 1]
              IN Met(w, e)[k] = IF m + 1 \in DOMAIN w /\ w[m + 1] = e[k] THEN m + 1 ELSE m
<1> DEFINE n == Len(e)
           Step(k, m) == IF m + 1 \in DOMAIN w /\ w[m + 1] = e[k] THEN m + 1 ELSE m
           G == [k \in 1..n |-> [v \in Nat |-> Step(k, v)]]
<1>1. n \in Nat
  OBVIOUS
<1>s. \A k \in 1..n : \A v \in Nat : Step(k, v) \in Nat
  OBVIOUS
<1> HIDE DEF n, Step
<1>2. \A k \in 1..n : \A v \in Nat : G[k][v] \in Nat
  BY <1>s
<1>3. \A k \in 1..n : \A v \in Nat : G[k][v] = Step(k, v)
  OBVIOUS
<1> HIDE DEF G
<1>4. PICK f : Takes(f, n, G)
  <2>1. n \in Nat /\ StepsUpTo(n, G)
    BY <1>1, <1>2 DEF StepsUpTo
  <2> QED BY <2>1, StepwiseFunction
<1>5. \A k \in 1..n : k - 1 \in 0..n /\ f[k - 1] \in Nat
  BY <1>1, <1>4 DEF Takes
<1>6. \A k \in 1..n : f[k] = Step(k, f[k - 1])
  BY <1>3, <1>4, <1>5 DEF Takes
<1>7. f = [k \in 0..n |-> IF k = 0 THEN 0 ELSE Step(k, f[k - 1])]
  <2>1. \A k \in 0..n : f[k] = IF k = 0 THEN 0 ELSE Step(k, f[k - 1])
    BY <1>1, <1>4, <1>6 DEF Takes
  <2> QED BY <1>4, <2>1 DEF Takes
<1> DEFINE b == CHOOSE g : g = [k \in 0..n |-> IF k = 0 THEN 0 ELSE Step(k, g[k - 1])]
<1>8. b = [k \in 0..n |-> IF k = 0 THEN 0 ELSE Step(k, b[k - 1])]
  BY <1>7
<1>9. Met(w, e) = b
  BY DEF Met, n, Step
<1> HIDE DEF b
<1>10. b[0] = 0 /\ \A k \in 1..n : b[k] = Step(k, b[k - 1])
  BY <1>1, <1>8
<1>11. 0..n \subseteq {k \in 0..n : b[k] \in Nat}
  <2> DEFINE S == {k \in 0..n : b[k] \in Nat}
  <2>1. 0 \in S
    BY <1>1, <1>10
  <2>2. ASSUME NEW k \in 0..n, k \in S, k < n PROVE k + 1 \in S
    <3>1. k + 1 \in 1..n /\ (k + 1) - 1 = k /\ k + 1 \in 0..n
      BY <1>1, <2>2
    <3>2. b[k + 1] = Step(k + 1, b[k]) /\ b[k] \in Nat
      BY <1>10, <2>2, <3>1
    <3> QED BY <1>s, <3>1, <3>2
  <2> HIDE DEF S
  <2>3. 0..n \subseteq S
    BY <1>1, <2>1, <2>2, UpTo
  <2> QED BY <2>3 DEF S
<1>12. b \in [0..n -> Nat]
  BY <1>8, <1>11
<1> QED BY <1>9, <1>10, <1>12 DEF n, Step

-----------------------------------------------------------------------------
(* Gaps.                                                                   *)

\* The fields of w are fields of e at the places that g gives, in order.
Threads(g, w, e) ==
  /\ g \in [1..Len(w) -> 1..Len(e)]
  /\ \A j \in 1..Len(w) : w[j] = e[g[j]]
  /\ \A j, l \in 1..Len(w) : j < l => g[j] < g[l]

\* Met finds all fields of a subsequence: it is never behind.
LEMMA SubsequenceMet ==
  ASSUME NEW w \in Seq(FieldType), NEW e \in Seq(FieldType), NEW g,
         Threads(g, w, e)
  PROVE  Met(w, e)[Len(e)] = Len(w)
<1> DEFINE n == Len(e)
           l == Len(w)
           M == Met(w, e)
<1>1. n \in Nat /\ l \in Nat /\ DOMAIN w = 1..l
  OBVIOUS
<1>2. /\ M \in [0..n -> Nat] /\ M[0] = 0
      /\ \A k \in 1..n : M[k] = IF M[k - 1] + 1 \in 1..l /\ w[M[k - 1] + 1] = e[k]
                                THEN M[k - 1] + 1 ELSE M[k - 1]
  BY <1>1, MetIs
<1>3. /\ g \in [1..l -> 1..n] /\ \A j \in 1..l : w[j] = e[g[j]]
      /\ \A i, j \in 1..l : i < j => g[i] < g[j]
  BY DEF Threads
<1> HIDE DEF n, l, M
<1> DEFINE S == {k \in 0..n : M[k] <= l /\ \A j \in 1..l : g[j] <= k => j <= M[k]}
<1>4. 0 \in S
  <2>1. \A j \in 1..l : g[j] >= 1 /\ g[j] \in Nat
    BY <1>1, <1>3
  <2>2. \A j \in 1..l : ~ (g[j] <= 0)
    BY <2>1
  <2>3. 0 \in 0..n /\ M[0] <= l
    BY <1>1, <1>2
  <2> QED BY <2>2, <2>3
<1>5. ASSUME NEW k \in 0..n, k \in S, k < n PROVE k + 1 \in S
  <2> DEFINE m == M[k]
             t == M[k + 1]
  <2>1. k + 1 \in 1..n /\ (k + 1) - 1 = k /\ k + 1 \in 0..n /\ k \in Nat
    BY <1>1, <1>5
  <2>2. m \in Nat /\ m <= l /\ \A j \in 1..l : g[j] <= k => j <= m
    BY <1>2, <1>5
  <2>3. t = IF m + 1 \in 1..l /\ w[m + 1] = e[k + 1] THEN m + 1 ELSE m
    BY <1>2, <2>1
  <2> HIDE DEF m, t
  <2>4. t \in Nat /\ t <= l /\ m <= t
    BY <1>1, <2>2, <2>3
  <2>5. ASSUME NEW j \in 1..l, g[j] <= k + 1 PROVE j <= t
    <3>0. g[j] \in 1..n /\ j \in Nat
      BY <1>1, <1>3
    <3>1. CASE g[j] <= k
      <4>1. j <= m
        BY <2>2, <3>1
      <4> QED BY <2>2, <2>4, <3>0, <4>1
    <3>2. CASE g[j] = k + 1
      <4>1. j = 1 \/ j - 1 <= m
        <5>1. CASE j > 1
          <6>1. j - 1 \in 1..l /\ j - 1 < j
            BY <1>1, <5>1
          <6>2. g[j - 1] < k + 1 /\ g[j - 1] \in 1..n
            BY <1>3, <3>2, <6>1
          <6>3. g[j - 1] <= k
            BY <1>1, <2>1, <6>2
          <6> QED BY <2>2, <6>1, <6>3
        <5> QED BY <3>0, <5>1
      <4>2. j <= m \/ j = m + 1
        BY <2>2, <3>0, <4>1
      <4>3. CASE j = m + 1
        <5>1. w[m + 1] = e[k + 1] /\ m + 1 \in 1..l
          BY <1>3, <3>2, <4>3
        <5> QED BY <2>3, <4>3, <5>1
      <4> QED BY <2>2, <2>4, <3>0, <4>2, <4>3
    <3> QED BY <2>1, <2>5, <3>0, <3>1, <3>2
  <2> QED BY <2>1, <2>4, <2>5 DEF t
<1> HIDE DEF S
<1>6. n \in S
  <2>1. 0..n \subseteq S
    BY <1>1, <1>4, <1>5, UpTo
  <2> QED BY <1>1, <2>1
<1>7. M[n] <= l /\ M[n] \in Nat /\ \A j \in 1..l : g[j] <= n => j <= M[n]
  BY <1>1, <1>2, <1>6 DEF S
<1>8. CASE l = 0
  BY <1>1, <1>7, <1>8 DEF M, n, l
<1>9. CASE l > 0
  <2>1. l \in 1..l /\ g[l] <= n
    BY <1>1, <1>3, <1>9
  <2> QED BY <1>1, <1>7, <2>1 DEF M, n, l
<1> QED BY <1>1, <1>8, <1>9

\* A beginning of b is put behind w and all of b behind e.
LEMMA ThreadsMore ==
  ASSUME NEW w \in Seq(FieldType), NEW e \in Seq(FieldType), NEW b \in Seq(FieldType),
         NEW a \in Seq(FieldType), Len(a) <= Len(b), \A i \in 1..Len(a) : a[i] = b[i],
         NEW g, Threads(g, w, e)
  PROVE  \E h : Threads(h, w \o a, e \o b)
<1> DEFINE l == Len(w)
           m == Len(e)
           d == Len(a)
           c == Len(b)
           wa == w \o a
           eb == e \o b
<1>1. /\ l \in Nat /\ d \in Nat /\ Len(wa) = l + d
      /\ \A j \in 1..l : wa[j] = w[j]
      /\ \A j \in 1..d : wa[l + j] = a[j]
  BY ONLY w \in Seq(FieldType), a \in Seq(FieldType)
<1>2. /\ m \in Nat /\ c \in Nat /\ Len(eb) = m + c
      /\ \A j \in 1..m : eb[j] = e[j]
      /\ \A j \in 1..c : eb[m + j] = b[j]
  BY ONLY e \in Seq(FieldType), b \in Seq(FieldType)
<1>3. /\ g \in [1..l -> 1..m] /\ \A j \in 1..l : w[j] = e[g[j]]
      /\ \A i, j \in 1..l : i < j => g[i] < g[j]
  BY DEF Threads
<1>4. d <= c /\ \A i \in 1..d : a[i] = b[i]
  OBVIOUS
<1> HIDE DEF l, m, d, c, wa, eb
<1> DEFINE h == [j \in 1..(l + d) |-> IF j <= l THEN g[j] ELSE m + (j - l)]
<1>5. \A j \in 1..(l + d) : \/ j \in 1..l /\ h[j] = g[j]
                            \/ j > l /\ j - l \in 1..d /\ j = l + (j - l) /\ h[j] = m + (j - l)
  BY <1>1
<1>6. h = [j \in 1..(l + d) |-> h[j]]
  OBVIOUS
<1> HIDE DEF h
<1>7. ASSUME NEW j \in 1..(l + d) PROVE h[j] \in 1..(m + c) /\ wa[j] = eb[h[j]]
  <2>1. CASE j \in 1..l /\ h[j] = g[j]
    <3>1. g[j] \in 1..m
      BY <1>3, <2>1
    <3>2. g[j] \in 1..(m + c)
      BY <1>2, <3>1
    <3> QED BY <1>1, <1>2, <1>3, <2>1, <3>1, <3>2
  <2>2. CASE j > l /\ j - l \in 1..d /\ j = l + (j - l) /\ h[j] = m + (j - l)
    <3> DEFINE i == j - l
    <3>1. i \in 1..d /\ j = l + i /\ h[j] = m + i
      BY <2>2
    <3> HIDE DEF i
    <3>2. i \in 1..c /\ m + i \in 1..(m + c)
      BY <1>1, <1>2, <1>4, <3>1
    <3>3. wa[l + i] = a[i] /\ eb[m + i] = b[i] /\ a[i] = b[i]
      BY <1>1, <1>2, <1>4, <3>1, <3>2
    <3> QED BY <3>1, <3>2, <3>3
  <2> QED BY <1>5, <2>1, <2>2
<1>8. ASSUME NEW i \in 1..(l + d), NEW j \in 1..(l + d), i < j PROVE h[i] < h[j]
  <2>1. CASE i \in 1..l /\ h[i] = g[i]
    <3>1. g[i] \in 1..m
      BY <1>3, <2>1
    <3>2. CASE j \in 1..l /\ h[j] = g[j]
      BY <1>3, <1>8, <2>1, <3>2
    <3>3. CASE j > l /\ j - l \in 1..d /\ h[j] = m + (j - l)
      BY <1>1, <1>2, <2>1, <3>1, <3>3
    <3> QED BY <1>5, <3>2, <3>3
  <2>2. CASE i > l /\ i - l \in 1..d /\ h[i] = m + (i - l)
    <3>1. j > l
      BY <1>1, <1>8, <2>2
    <3>2. h[j] = m + (j - l)
      BY <1>1, <1>5, <3>1
    <3> QED BY <1>1, <1>2, <1>8, <2>2, <3>2
  <2> QED BY <1>5, <2>1, <2>2
<1>9. h \in [1..Len(wa) -> 1..Len(eb)]
  BY <1>1, <1>2, <1>6, <1>7
<1>10. Threads(h, wa, eb)
  BY <1>1, <1>7, <1>8, <1>9 DEF Threads
<1> QED BY <1>10 DEF wa, eb

\* What a process has emitted is an older part, of which it has written a subsequence,
\* and its buffer.
Gapped ==
  \A p \in Procs : \E old \in Seq(FieldType) :
    /\ emitted[p] = old \o out_buf[p]
    /\ \E g : Threads(g, wrote[p], old)

GapInv == TypeOK /\ Untouched /\ Gapped

\* Nothing is a subsequence of anything.
LEMMA NoThreads == ASSUME NEW e \in Seq(FieldType) PROVE \E g : Threads(g, <<>>, e)
<1> DEFINE g == [j \in 1..0 |-> 1]
<1>1. Threads(g, <<>>, e)
  BY DEF Threads
<1> QED BY <1>1

\* out_flush writes a beginning of the buffer.
LEMMA WrittenPrefix ==
  ASSUME TypeOK, NEW p \in Procs, NEW w \in Written(p)
  PROVE  /\ w \in Seq(FieldType) /\ Len(w) <= Len(out_buf[p])
         /\ \A i \in 1..Len(w) : w[i] = out_buf[p][i]
<1> DEFINE b == out_buf[p]
<1>1. b \in Seq(FieldType)
  BY DEF TypeOK
<1>2. w = b \/ \E i \in 0..Len(b) : w = SubSeq(b, 1, i)
  BY DEF Written
<1> HIDE DEF b
<1>3. \A i \in 0..Len(b) : /\ SubSeq(b, 1, i) \in Seq(FieldType) /\ Len(SubSeq(b, 1, i)) = i
                           /\ \A j \in 1..i : SubSeq(b, 1, i)[j] = b[j]
  BY <1>1
<1>4. CASE w = b
  BY <1>1, <1>4 DEF b
<1>5. CASE \E i \in 0..Len(b) : w = SubSeq(b, 1, i)
  <2>1. PICK i \in 0..Len(b) : w = SubSeq(b, 1, i)
    BY <1>5
  <2>2. Len(b) \in Nat
    BY <1>1
  <2> QED BY <1>3, <2>1, <2>2 DEF b
<1> QED BY <1>2, <1>4, <1>5

\* After a flush, everything emitted before is the older part.
LEMMA FlushGapped ==
  ASSUME GapInv, NEW p \in Procs, out_flush(p)
  PROVE  \E g : Threads(g, wrote'[p], emitted[p])
<1>1. PICK w \in Written(p) : wrote' = [wrote EXCEPT ![p] = @ \o w]
  BY DEF out_flush
<1>2. wrote'[p] = wrote[p] \o w /\ wrote[p] \in Seq(FieldType) /\ out_buf[p] \in Seq(FieldType)
  BY <1>1 DEF GapInv, TypeOK
<1>3. PICK old \in Seq(FieldType) : /\ emitted[p] = old \o out_buf[p]
                                    /\ \E g : Threads(g, wrote[p], old)
  BY DEF GapInv, Gapped
<1>4. PICK g : Threads(g, wrote[p], old)
  BY <1>3
<1>5. /\ w \in Seq(FieldType) /\ Len(w) <= Len(out_buf[p])
      /\ \A i \in 1..Len(w) : w[i] = out_buf[p][i]
  BY WrittenPrefix DEF GapInv
<1>6. \E h : Threads(h, wrote[p] \o w, old \o out_buf[p])
  <2> DEFINE a == wrote[p]
             b == out_buf[p]
  <2>1. /\ a \in Seq(FieldType) /\ b \in Seq(FieldType) /\ w \in Seq(FieldType)
        /\ Len(w) <= Len(b) /\ \A i \in 1..Len(w) : w[i] = b[i]
        /\ Threads(g, a, old)
    BY <1>2, <1>4, <1>5
  <2> HIDE DEF a, b
  <2>2. \E h : Threads(h, a \o w, old \o b)
    BY <2>1, ThreadsMore
  <2> QED BY <2>2 DEF a, b
<1> QED BY <1>2, <1>3, <1>6

\* Emitting a field, with a flush that may write too little or without.
LEMMA EmitGapped ==
  ASSUME GapInv, TypeOK', NEW p \in Procs, Emit(p)
  PROVE  GapInv'
<1> DEFINE f == Head(todo[p])
<1>1. f \in FieldType /\ status[p] = "open" /\ status' = status
  BY DEF GapInv, TypeOK, Emit
<1>2. \A q \in Procs \ {p} : /\ out_buf'[q] = out_buf[q] /\ emitted'[q] = emitted[q]
                             /\ wrote'[q] = wrote[q] /\ todo'[q] = todo[q]
                             /\ out_buf_used'[q] = out_buf_used[q]
  <2>1. CASE Full(p, f.n)
    BY <2>1 DEF Emit, out_flush, Restart, GapInv, TypeOK
  <2>2. CASE ~Full(p, f.n)
    BY <2>2 DEF Emit, GapInv, TypeOK
  <2> QED BY <2>1, <2>2
<1>3. emitted'[p] = Append(emitted[p], f)
  BY DEF Emit, GapInv, TypeOK
<1>4. emitted[p] \in Seq(FieldType) /\ out_buf[p] \in Seq(FieldType)
  BY DEF GapInv, TypeOK
<1> HIDE DEF f
<1>5. \E old \in Seq(FieldType) : /\ emitted'[p] = old \o out_buf'[p]
                                  /\ \E g : Threads(g, wrote'[p], old)
  <2>1. CASE Full(p, f.n)
    <3>1. out_flush(p) /\ out_buf'[p] = <<f>>
      BY <2>1 DEF Emit, Restart, GapInv, TypeOK, f
    <3>2. \E g : Threads(g, wrote'[p], emitted[p])
      BY <3>1, FlushGapped
    <3>3. emitted[p] \o <<f>> = Append(emitted[p], f)
      BY <1>1, <1>4, ConcatAppend
    <3> QED BY <1>3, <1>4, <3>1, <3>2, <3>3
  <2>2. CASE ~Full(p, f.n)
    <3>1. out_buf'[p] = Append(out_buf[p], f) /\ wrote' = wrote
      BY <2>2 DEF Emit, GapInv, TypeOK, f
    <3>2. PICK old \in Seq(FieldType) : /\ emitted[p] = old \o out_buf[p]
                                        /\ \E g : Threads(g, wrote[p], old)
      BY DEF GapInv, Gapped
    <3>3. old \o Append(out_buf[p], f) = Append(old \o out_buf[p], f)
      <4> DEFINE b == out_buf[p]
      <4>1. old \in Seq(FieldType) /\ b \in Seq(FieldType) /\ f \in FieldType
        BY <1>1, <1>4
      <4> HIDE DEF b
      <4>2. old \o Append(b, f) = Append(old \o b, f)
        BY ONLY <4>1, ConcatAppend
      <4> QED BY <4>2 DEF b
    <3>4. emitted'[p] = old \o out_buf'[p]
      BY <1>3, <3>1, <3>2, <3>3
    <3> QED BY <3>1, <3>2, <3>4
  <2> QED BY <2>1, <2>2
<1>6. Untouched'
  BY <1>1, <1>2 DEF GapInv, Untouched
<1>7. Gapped'
  BY <1>2, <1>5 DEF GapInv, Gapped
<1> QED BY <1>6, <1>7 DEF GapInv

\* The last flush.
LEMMA FiniGapped ==
  ASSUME GapInv, TypeOK', NEW p \in Procs, dg_fini(p)
  PROVE  GapInv'
<1>1. /\ out_flush(p) /\ status' = [status EXCEPT ![p] = "closed"]
      /\ out_buf' = [out_buf EXCEPT ![p] = <<>>]
      /\ out_buf_used' = [out_buf_used EXCEPT ![p] = 0]
      /\ UNCHANGED <<todo, emitted>>
  BY DEF dg_fini
<1>2. PICK w \in Written(p) : wrote' = [wrote EXCEPT ![p] = @ \o w]
  BY <1>1 DEF out_flush
<1>3. /\ status'[p] = "closed" /\ out_buf'[p] = <<>> /\ emitted[p] \in Seq(FieldType)
      /\ \A q \in Procs \ {p} : /\ out_buf'[q] = out_buf[q] /\ wrote'[q] = wrote[q]
                                /\ status'[q] = status[q]
                                /\ out_buf_used'[q] = out_buf_used[q]
  BY <1>1, <1>2 DEF GapInv, TypeOK
<1>4. \E g : Threads(g, wrote'[p], emitted[p])
  BY <1>1, FlushGapped
<1>5. emitted[p] \o <<>> = emitted[p]
  BY <1>3
<1>6. Untouched'
  BY <1>1, <1>3 DEF GapInv, Untouched
<1>7. Gapped'
  BY <1>1, <1>3, <1>4, <1>5 DEF GapInv, Gapped
<1> QED BY <1>6, <1>7 DEF GapInv

\* A forked child has written nothing.
LEMMA ForkGapped ==
  ASSUME GapInv, TypeOK', NEW p \in Procs, NEW q \in Procs, Fork(p, q)
  PROVE  GapInv'
<1>1. /\ status[q] = "none" /\ status' = [status EXCEPT ![q] = "open"]
      /\ out_buf' = [out_buf EXCEPT ![q] = out_buf[p]]
      /\ out_buf_used' = [out_buf_used EXCEPT ![q] = out_buf_used[p]]
      /\ emitted' = [emitted EXCEPT ![q] = out_buf[p]]
      /\ UNCHANGED <<todo, wrote>>
  BY DEF Fork
<1>2. /\ wrote[q] = <<>> /\ out_buf[p] \in Seq(FieldType) /\ status'[q] = "open"
      /\ out_buf'[q] = out_buf[p] /\ emitted'[q] = out_buf[p]
      /\ \A r \in Procs \ {q} : /\ out_buf'[r] = out_buf[r] /\ emitted'[r] = emitted[r]
                                /\ status'[r] = status[r]
                                /\ out_buf_used'[r] = out_buf_used[r]
  BY <1>1 DEF GapInv, TypeOK, Untouched
<1>3. <<>> \in Seq(FieldType) /\ <<>> \o out_buf[p] = out_buf[p]
  BY <1>2
<1>4. \E g : Threads(g, wrote'[q], <<>>)
  BY <1>1, <1>2, <1>3, NoThreads
<1>5. Untouched'
  BY <1>1, <1>2 DEF GapInv, Untouched
<1>6. Gapped'
  BY <1>1, <1>2, <1>3, <1>4 DEF GapInv, Gapped
<1> QED BY <1>5, <1>6 DEF GapInv

\* The inductive invariant of a file with gaps.
THEOREM GapInvariant == Spec => []GapInv
<1>1. Init => GapInv
  <2> SUFFICES ASSUME Init PROVE GapInv
    OBVIOUS
  <2>1. TypeOK /\ Untouched
    BY Widths DEF Init, TypeOK, Untouched
  <2>2. <<>> \in Seq(FieldType) /\ <<>> \o <<>> = <<>>
    OBVIOUS
  <2>3. \E g : Threads(g, <<>>, <<>>)
    BY <2>2, NoThreads
  <2>4. Gapped
    BY <2>2, <2>3 DEF Init, Gapped
  <2> QED BY <2>1, <2>4 DEF GapInv
<1>2. GapInv /\ TypeOK' /\ [Next]_vars => GapInv'
  <2> SUFFICES ASSUME GapInv, TypeOK', [Next]_vars PROVE GapInv'
    OBVIOUS
  <2>1. CASE \E p \in Procs : Emit(p)
    BY <2>1, EmitGapped
  <2>2. CASE \E p \in Procs : dg_fini(p)
    BY <2>2, FiniGapped
  <2>3. CASE \E p, q \in Procs : Fork(p, q)
    BY <2>3, ForkGapped
  <2>4. CASE \/ prepare_out_file
             \/ \E p \in Procs : (\E r \in Records : BeginRecord(p, r)) \/ Die(p)
    <3>1. /\ UNCHANGED <<file, out_buf, out_buf_used, emitted, wrote>>
          /\ \A p \in Procs : /\ status'[p] = "none" <=> status[p] = "none"
                              /\ status'[p] = "init" => status[p] = "init"
                              /\ status'[p] \in {"none", "init"} => todo'[p] = todo[p]
      BY <2>4, QuietStatus DEF GapInv
    <3> QED BY <3>1 DEF GapInv, Untouched, Gapped
  <2>5. CASE UNCHANGED vars
    BY <2>5 DEF vars, GapInv, Untouched, Gapped
  <2> QED BY <2>1, <2>2, <2>3, <2>4, <2>5 DEF Next, Terminating
<1> QED BY <1>1, <1>2, BufferNeverOverflows, PTL DEF Spec

\* Whatever part of its buffer each write puts into the file, what a process has
\* written is a subsequence of what it emitted: out_flush repeats and reorders
\* nothing, in any number of forked processes.
THEOREM GapsOnly == Spec => []OnlyGaps
<1>1. GapInv => OnlyGaps
  <2> SUFFICES ASSUME GapInv, NEW p \in Procs
               PROVE  Met(wrote[p], emitted[p])[Len(emitted[p])] = Len(wrote[p])
    BY DEF OnlyGaps
  <2>1. /\ wrote[p] \in Seq(FieldType) /\ emitted[p] \in Seq(FieldType)
        /\ out_buf[p] \in Seq(FieldType)
    BY DEF GapInv, TypeOK
  <2>2. PICK old \in Seq(FieldType) : /\ emitted[p] = old \o out_buf[p]
                                      /\ \E g : Threads(g, wrote[p], old)
    BY DEF GapInv, Gapped
  <2>3. PICK g : Threads(g, wrote[p], old)
    BY <2>2
  <2> DEFINE w == wrote[p]
             e == emitted[p]
             b == out_buf[p]
  <2>4. /\ w \in Seq(FieldType) /\ e \in Seq(FieldType) /\ b \in Seq(FieldType)
        /\ old \in Seq(FieldType) /\ e = old \o b /\ Threads(g, w, old)
    BY <2>1, <2>2, <2>3
  <2> HIDE DEF w, e, b
  <2>5. <<>> \in Seq(FieldType) /\ Len(<<>>) = 0 /\ w \o <<>> = w
    BY <2>4
  <2>6. Len(<<>>) <= Len(b) /\ \A i \in 1..Len(<<>>) : <<>>[i] = b[i]
    BY <2>4
  <2>7. \E h : Threads(h, w \o <<>>, old \o b)
    BY <2>4, <2>5, <2>6, ThreadsMore
  <2>8. PICK h : Threads(h, w, e)
    BY <2>4, <2>5, <2>7
  <2>9. Met(w, e)[Len(e)] = Len(w)
    BY <2>4, <2>8, SubsequenceMet
  <2> QED BY <2>9 DEF w, e
<1> QED BY <1>1, GapInvariant, PTL


-----------------------------------------------------------------------------
(* The buffer as a Recorder.                                               *)

\* There is one process, and its buffer holds no more fields than bytes.
Alone == \A q \in Procs \ {Root} : status[q] = "none"
Fits == Len(out_buf[Root]) <= out_buf_used[Root]

StageInv == BufferInv /\ Alone /\ Fits

\* Only the first process does anything.
LEMMA RootActs ==
  ASSUME TypeOK, Alone, ~MayFork, Next
  PROVE  \/ prepare_out_file
         \/ \E r \in Records : BeginRecord(Root, r)
         \/ Emit(Root) \/ dg_fini(Root) \/ Die(Root)
         \/ UNCHANGED vars
<1>1. \A p \in Procs : status[p] = "open" => p = Root
  BY DEF Alone
<1> QED BY <1>1 DEF Next, BeginRecord, Emit, dg_fini, Die, Fork, Terminating

\* Emitting a field to a buffer of one process.
LEMMA EmitFits == ASSUME TypeOK, TypeOK', Fits, Emit(Root) PROVE Fits'
<1> DEFINE f == Head(todo[Root])
           b == out_buf[Root]
           u == out_buf_used[Root]
<1>1. f \in FieldType /\ b \in Seq(FieldType) /\ u \in Nat /\ Len(b) <= u
  BY OutputAssumption, Widths DEF TypeOK, Emit, Fits
<1>2. f.n \in Nat /\ 1 <= f.n
  BY <1>1, Widths DEF FieldType
<1>3. CASE Full(Root, f.n)
  <2>1. out_buf'[Root] = <<f>> /\ out_buf_used'[Root] = f.n
    BY <1>3, OutputAssumption DEF Emit, Restart, TypeOK
  <2> QED BY <1>2, <2>1 DEF Fits
<1>4. CASE ~Full(Root, f.n)
  <2>1. out_buf'[Root] = Append(b, f) /\ out_buf_used'[Root] = u + f.n
    BY <1>4, OutputAssumption DEF Emit, TypeOK
  <2>2. Len(Append(b, f)) = Len(b) + 1 /\ Len(b) \in Nat
    BY <1>1
  <2> HIDE DEF f, b, u
  <2> QED BY <1>1, <1>2, <2>1, <2>2 DEF Fits
<1> QED BY <1>3, <1>4

\* One process stays one, and its fields fit.
LEMMA StageKept ==
  ASSUME StageInv, TypeOK', BufferInv', ~MayFork, [Next]_vars
  PROVE  StageInv'
<1> USE OutputAssumption
<1>0. TypeOK
  BY DEF StageInv, BufferInv
<1>1. CASE prepare_out_file
  BY <1>0, <1>1 DEF prepare_out_file, StageInv, Alone, Fits, TypeOK
<1>2. CASE \E r \in Records : BeginRecord(Root, r)
  BY <1>2 DEF BeginRecord, StageInv, Alone, Fits
<1>3. CASE Emit(Root)
  BY <1>0, <1>3, EmitFits DEF Emit, StageInv, Alone
<1>4. CASE dg_fini(Root)
  BY <1>0, <1>4 DEF dg_fini, StageInv, Alone, Fits, TypeOK
<1>5. CASE Die(Root)
  BY <1>0, <1>5 DEF Die, StageInv, Alone, Fits, TypeOK
<1>6. CASE UNCHANGED vars
  BY <1>6 DEF vars, StageInv, Alone, Fits
<1> QED BY <1>0, <1>1, <1>2, <1>3, <1>4, <1>5, <1>6, RootActs DEF StageInv

\* The invariant holds if writes work and the client does not fork.
LEMMA StageInvariant == ASSUME ~MayFail, ~MayFork PROVE Spec => []StageInv
<1>1. Init => StageInv
  <2> SUFFICES ASSUME Init PROVE StageInv
    OBVIOUS
  <2>1. BufferInv
    <3>1. TypeOK /\ Untouched
      BY Widths DEF Init, TypeOK, Untouched
    <3>2. Conserved /\ SoleWriter
      BY OutputAssumption DEF Init, Conserved, SoleWriter
    <3> QED BY <3>1, <3>2 DEF BufferInv
  <2>2. Alone /\ Fits
    BY OutputAssumption DEF Init, Alone, Fits
  <2> QED BY <2>1, <2>2 DEF StageInv
<1>2. StageInv /\ TypeOK' /\ BufferInv' /\ [Next]_vars => StageInv'
  BY StageKept
<1> QED BY <1>1, <1>2, BufferNeverOverflows, BufferInvariant, PTL DEF Spec

\* A prefix is a prefix of what it is continued to.
LEMMA ConcatPrefix ==
  ASSUME NEW s \in Seq(FieldType), NEW t \in Seq(FieldType)
  PROVE  IsPrefix(s, s \o t)
<1>1. Len(s) \in Nat /\ Len(t) \in Nat /\ s \o t \in Seq(FieldType) /\ Len(s \o t) = Len(s) + Len(t)
  OBVIOUS
<1>2. \A i \in 1..Len(s) : (s \o t)[i] = s[i]
  OBVIOUS
<1> DEFINE st == s \o t
<1> HIDE DEF st
<1>3. Len(s) <= Len(st)
  BY <1>1 DEF st
<1>4. SubSeq(s, 1, Len(s)) = [i \in 1..Len(s) |-> s[i]]
  BY <1>1
<1>5. SubSeq(st, 1, Len(s)) = [i \in 1..Len(s) |-> st[i]]
  BY <1>1, <1>3 DEF st
<1> QED BY <1>2, <1>3, <1>4, <1>5 DEF IsPrefix, st

\* What the first process has emitted is in the file or in its buffer.
RootLaw ==
  /\ emitted[Root] = file \o out_buf[Root]
  /\ file \in Seq(FieldType) /\ out_buf[Root] \in Seq(FieldType)
  /\ emitted[Root] \in Seq(FieldType)
  /\ Len(out_buf[Root]) <= BufSize /\ BufSize \in Nat

LEMMA RootView == StageInv => RootLaw
<1> SUFFICES ASSUME StageInv PROVE RootLaw
  OBVIOUS
<1> USE OutputAssumption, Widths
<1>1. /\ file \in Seq(FieldType) /\ out_buf[Root] \in Seq(FieldType)
      /\ emitted[Root] \in Seq(FieldType) /\ out_buf_used[Root] \in 0..BufSize
  BY DEF StageInv, BufferInv, TypeOK
<1>2. file = wrote[Root]
  BY DEF StageInv, BufferInv, Alone, SoleWriter
<1>3. emitted[Root] = file \o out_buf[Root]
  BY <1>2 DEF StageInv, BufferInv, Conserved
<1>4. Len(out_buf[Root]) \in Nat
  BY <1>1
<1>5. Len(out_buf[Root]) <= BufSize
  BY <1>1, <1>4 DEF StageInv, Fits
<1> QED BY <1>1, <1>3, <1>5 DEF RootLaw

LEMMA RootViewNext == StageInv' => RootLaw'
  BY RootView, PTL

\* Every step is one of the Recorder's or leaves it alone.
LEMMA OutputStageStep ==
  ASSUME StageInv, StageInv', ~MayFail, ~MayFork, [Next]_vars
  PROVE  [Stage!Next]_(Stage!vars)
<1> USE OutputAssumption
<1>0. TypeOK
  BY DEF StageInv, BufferInv
<1>1. CASE UNCHANGED vars \/ \E r \in Records : BeginRecord(Root, r)
  <2>1. UNCHANGED <<emitted, file, status>>
    BY <1>1 DEF vars, BeginRecord
  <2> QED BY <2>1 DEF Stage!vars
<1>2. CASE prepare_out_file
  <2>1. UNCHANGED <<emitted, file>> /\ status[Root] = "init" /\ status'[Root] \in {"open", "dead"}
    BY <1>0, <1>2 DEF prepare_out_file, TypeOK
  <2>2. CASE status'[Root] = "open"
    BY <2>1, <2>2 DEF Stage!vars
  <2>3. CASE status'[Root] = "dead"
    BY <2>1, <2>3 DEF Stage!Next, Stage!Die
  <2> QED BY <2>1, <2>2, <2>3
<1>3. CASE Emit(Root)
  <2>1. status[Root] = "open" /\ status'[Root] = "open"
    BY <1>3 DEF Emit
  <2>2. /\ emitted'[Root] = Append(emitted[Root], Head(todo[Root]))
        /\ Head(todo[Root]) \in FieldType
    <3>1. todo[Root] \in Seq(FieldType) /\ todo[Root] # <<>>
      BY <1>0, <1>3 DEF Emit, TypeOK
    <3>2. emitted' = [emitted EXCEPT ![Root] = Append(@, Head(todo[Root]))]
      BY <1>3 DEF Emit
    <3>3. emitted'[Root] = Append(emitted[Root], Head(todo[Root]))
      BY <1>0, <3>2 DEF TypeOK
    <3> QED BY <3>1, <3>3
  <2>3. file' = file \o out_buf[Root] \/ file' = file
    BY <1>0, <1>3, FlushAll DEF Emit
  <2> DEFINE e == emitted[Root]
             f == Head(todo[Root])
             b == out_buf[Root]
             c == out_buf'[Root]
             x == emitted'[Root]
             y == file'
  <2>4. e \in Seq(FieldType) /\ file \in Seq(FieldType) /\ b \in Seq(FieldType)
    BY RootView DEF RootLaw
  <2>5. /\ x = y \o c /\ y \in Seq(FieldType) /\ c \in Seq(FieldType)
        /\ Len(c) <= BufSize /\ x \in Seq(FieldType)
    BY RootViewNext DEF RootLaw
  <2>6. x = Append(e, f) /\ f \in FieldType /\ (y = file \o b \/ y = file)
    BY <2>2, <2>3
  <2>7. BufSize \in Nat
    BY Widths
  <2> HIDE DEF e, f, b, c, x, y
  <2>8. IsPrefix(e, x)
    <3>1. <<f>> \in Seq(FieldType) /\ x = e \o <<f>>
      BY <2>4, <2>6, AppendIsConcat
    <3> QED BY <2>4, <3>1, ConcatPrefix
  <2>9. IsPrefix(file, y)
    <3>1. <<>> \in Seq(FieldType) /\ file \o <<>> = file
      BY <2>4
    <3> QED BY <2>4, <2>6, <3>1, ConcatPrefix
  <2>10. IsPrefix(y, x)
    BY <2>5, ConcatPrefix
  <2>11. Len(x) - Len(y) <= BufSize
    <3>1. Len(y \o c) = Len(y) + Len(c) /\ Len(y) \in Nat /\ Len(c) \in Nat
      BY <2>5
    <3> QED BY <2>5, <2>7, <3>1
  <2>12. Stage!Grow
    BY <2>1, <2>8, <2>9, <2>10, <2>11 DEF Stage!Grow, Stage!IsPrefix, IsPrefix, e, x, y
  <2> QED BY <2>12 DEF Stage!Next
<1>4. CASE dg_fini(Root)
  <2>1. /\ status[Root] = "open" /\ status'[Root] = "closed" /\ emitted' = emitted
        /\ out_buf'[Root] = <<>>
    BY <1>0, <1>4 DEF dg_fini, TypeOK
  <2>2. emitted'[Root] = file' \o <<>> /\ file' \in Seq(FieldType)
    BY <2>1, RootViewNext DEF RootLaw
  <2>3. file' \o <<>> = file'
    BY <2>2
  <2>4. Stage!Close
    BY <2>1, <2>2, <2>3 DEF Stage!Close
  <2> QED BY <2>4 DEF Stage!Next
<1>5. CASE Die(Root)
  <2>1. status[Root] = "open" /\ status'[Root] = "dead" /\ UNCHANGED <<emitted, file>>
    BY <1>0, <1>5 DEF Die, TypeOK
  <2>2. Stage!Die
    BY <2>1 DEF Stage!Die
  <2> QED BY <2>2 DEF Stage!Next
<1>6. Alone
  BY DEF StageInv
<1> QED BY <1>0, <1>1, <1>2, <1>3, <1>4, <1>5, <1>6, RootActs

\* One process with a working file is a Recorder of fields: the file is always a
\* prefix of what was emitted, no more fields late than the buffer has bytes; dg_fini
\* leaves nothing behind, and a process that is killed loses the buffer only.
THEOREM OutputRecords ==
  ASSUME ~MayFail, ~MayFork
  PROVE  Spec => RecorderSpec
<1>1. Init => Stage!Init
  BY OutputAssumption DEF Init, Stage!Init
<1>2. StageInv /\ StageInv' /\ [Next]_vars => [Stage!Next]_(Stage!vars)
  BY OutputStageStep
<1>3. Spec => Stage!Init /\ [][Stage!Next]_(Stage!vars)
  BY <1>1, <1>2, StageInvariant, PTL DEF Spec
<1> QED BY <1>3 DEF RecorderSpec, Stage!Spec


-----------------------------------------------------------------------------
(* Bytes of sequences of fields.                                           *)

\* All bytes of s.
Width(s) == Bytes(s)[Len(s)]

\* Bytes are counted through a concatenation.
LEMMA BytesConcat ==
  ASSUME NEW s \in Seq(FieldType), NEW r \in Seq(FieldType)
  PROVE  /\ \A k \in 0..Len(s) : Bytes(s \o r)[k] = Bytes(s)[k]
         /\ \A k \in 0..Len(r) : Bytes(s \o r)[Len(s) + k] = Width(s) + Bytes(r)[k]
<1> DEFINE sr == s \o r
           l == Len(s)
           m == Len(r)
           B == Bytes(sr)
           C == Bytes(s)
           D == Bytes(r)
<1>1. /\ l \in Nat /\ m \in Nat /\ Len(sr) = l + m /\ sr \in Seq(FieldType)
      /\ \A k \in 1..l : sr[k] = s[k]
      /\ \A k \in 1..m : sr[l + k] = r[k]
  OBVIOUS
<1>2. /\ B \in [0..(l + m) -> Nat] /\ B[0] = 0
      /\ \A k \in 1..(l + m) : B[k] = B[k - 1] + sr[k].n
  <2>1. sr \in Seq(FieldType) /\ Len(sr) = l + m
    BY <1>1
  <2> HIDE DEF sr, l, m
  <2> QED BY ONLY <2>1, BytesIs DEF B
<1>3. C \in [0..l -> Nat] /\ C[0] = 0 /\ \A k \in 1..l : C[k] = C[k - 1] + s[k].n
  BY ONLY s \in Seq(FieldType), BytesIs DEF C, l
<1>4. D \in [0..m -> Nat] /\ D[0] = 0 /\ \A k \in 1..m : D[k] = D[k - 1] + r[k].n
  BY ONLY r \in Seq(FieldType), BytesIs DEF D, m
<1>5. \A k \in 1..m : r[k].n \in Nat
  <2>1. \A k \in 1..m : r[k] \in FieldType
    OBVIOUS
  <2>2. \A f \in FieldType : f.n \in Nat
    BY Widths DEF FieldType
  <2> QED BY <2>1, <2>2
<1> HIDE DEF sr, l, m, B, C, D
<1>6. 0..l \subseteq {k \in 0..l : B[k] = C[k]}
  <2> DEFINE S == {k \in 0..l : B[k] = C[k]}
  <2>1. 0 \in S
    BY <1>1, <1>2, <1>3
  <2>2. ASSUME NEW k \in 0..l, k \in S, k < l PROVE k + 1 \in S
    <3>1. k + 1 \in 1..l /\ k + 1 \in 1..(l + m) /\ (k + 1) - 1 = k /\ k + 1 \in 0..l
      BY <1>1, <2>2
    <3>2. B[k + 1] = B[k] + sr[k + 1].n
      BY <1>2, <3>1
    <3>3. C[k + 1] = C[k] + s[k + 1].n
      BY <1>3, <3>1
    <3>4. sr[k + 1] = s[k + 1]
      BY <1>1, <3>1
    <3> QED BY <2>2, <3>1, <3>2, <3>3, <3>4
  <2> HIDE DEF S
  <2>3. 0..l \subseteq S
    BY <1>1, <2>1, <2>2, UpTo
  <2> QED BY <2>3 DEF S
<1>7. B[l] = C[l] /\ C[l] \in Nat
  BY <1>1, <1>3, <1>6
<1>8. 0..m \subseteq {k \in 0..m : B[l + k] = C[l] + D[k]}
  <2> DEFINE S == {k \in 0..m : B[l + k] = C[l] + D[k]}
  <2>1. 0 \in S
    <3>1. l + 0 = l /\ C[l] + 0 = C[l] /\ 0 \in 0..m
      BY <1>1, <1>7
    <3> QED BY <1>4, <1>7, <3>1
  <2>2. ASSUME NEW k \in 0..m, k \in S, k < m PROVE k + 1 \in S
    <3>1. k + 1 \in 1..m /\ (k + 1) - 1 = k /\ k + 1 \in 0..m /\ k \in 0..m
      BY <1>1, <2>2
    <3>2. l + (k + 1) \in 1..(l + m) /\ (l + (k + 1)) - 1 = l + k
      BY <1>1, <3>1
    <3>3. B[l + (k + 1)] = B[l + k] + sr[l + (k + 1)].n
      BY <1>2, <3>2
    <3>4. D[k + 1] = D[k] + r[k + 1].n /\ D[k] \in Nat /\ r[k + 1].n \in Nat
      BY <1>4, <1>5, <3>1
    <3>5. sr[l + (k + 1)] = r[k + 1]
      BY <1>1, <3>1
    <3>6. B[l + k] = C[l] + D[k]
      BY <2>2
    <3>7. B[l + (k + 1)] = C[l] + D[k + 1]
      BY <1>7, <3>3, <3>4, <3>5, <3>6
    <3> QED BY <3>1, <3>7
  <2> HIDE DEF S
  <2>3. 0..m \subseteq S
    BY <1>1, <2>1, <2>2, UpTo
  <2> QED BY <2>3 DEF S
<1> QED BY <1>6, <1>8 DEF sr, l, m, B, C, D, Width

\* Widths add up.
LEMMA WidthConcat ==
  ASSUME NEW s \in Seq(FieldType), NEW r \in Seq(FieldType)
  PROVE  Width(s \o r) = Width(s) + Width(r) /\ Width(s) \in Nat /\ s \o r \in Seq(FieldType)
<1>1. /\ Len(s) \in Nat /\ Len(r) \in Nat /\ Len(s \o r) = Len(s) + Len(r)
      /\ s \o r \in Seq(FieldType)
  OBVIOUS
<1>2. Len(r) \in 0..Len(r) /\ Len(s) \in 0..Len(s)
  BY <1>1
<1>3. Bytes(s \o r)[Len(s) + Len(r)] = Width(s) + Bytes(r)[Len(r)]
  BY <1>2, BytesConcat
<1>4. Bytes(s) \in [0..Len(s) -> Nat]
  BY BytesIs
<1>5. Width(s) \in Nat
  BY <1>2, <1>4 DEF Width
<1> QED BY <1>1, <1>3, <1>5 DEF Width

\* The width of one field, and of none.
LEMMA WidthOne ==
  ASSUME NEW f \in FieldType
  PROVE  Width(<<f>>) = f.n /\ Width(<<>>) = 0
<1>1. <<f>> \in Seq(FieldType) /\ Len(<<f>>) = 1 /\ <<f>>[1] = f
  OBVIOUS
<1>2. <<>> \in Seq(FieldType) /\ Len(<<>>) = 0
  OBVIOUS
<1>3. Bytes(<<>>)[0] = 0
  BY <1>2, BytesIs
<1>4. f.n \in Nat
  BY Widths DEF FieldType
<1> DEFINE s == <<f>>
<1>5. s \in Seq(FieldType) /\ Len(s) = 1 /\ s[1] = f
  BY <1>1
<1> HIDE DEF s
<1>6. /\ Bytes(s)[0] = 0 /\ \A k \in 1..Len(s) : Bytes(s)[k] = Bytes(s)[k - 1] + s[k].n
  BY <1>5, BytesIs
<1>7. 1 \in 1..Len(s) /\ 1 - 1 = 0
  BY <1>5
<1>8. Bytes(s)[1] = Bytes(s)[1 - 1] + s[1].n
  BY <1>6, <1>7
<1>9. Bytes(s)[1] = f.n
  BY <1>4, <1>5, <1>6, <1>7, <1>8
<1> QED BY <1>2, <1>3, <1>5, <1>9 DEF Width, s

\* Remainders start again with every group.
LEMMA ModRepeat ==
  ASSUME NEW L \in Nat, L > 0, NEW k \in Nat, NEW j \in 0..(L - 1)
  PROVE  (k * L + j) % L = j
<1> DEFINE x == k * L + j
           q == x \div L
           m == x % L
<1>1. x \in Nat /\ k * L \in Nat
  OBVIOUS
<1>2. x = k * L + j
  OBVIOUS
<1> HIDE DEF x
<1>3. q \in Nat /\ x = L * q + m /\ m \in 0..(L - 1)
  BY <1>1
<1> HIDE DEF q, m
<1>4. k <= q
  <2> SUFFICES ASSUME k >= q + 1 PROVE FALSE
    BY <1>3
  <2>1. k * L >= (q + 1) * L
    BY <1>3
  <2>2. (q + 1) * L = L * q + L /\ L * q \in Nat
    BY <1>3
  <2> QED BY <1>1, <1>2, <1>3, <2>1, <2>2
<1>5. q <= k
  <2> SUFFICES ASSUME q >= k + 1 PROVE FALSE
    BY <1>3
  <2>1. L * q >= L * (k + 1)
    BY <1>3
  <2>2. L * (k + 1) = k * L + L /\ L * q \in Nat
    BY <1>3
  <2> QED BY <1>1, <1>2, <1>3, <2>1, <2>2
<1>6. q = k
  BY <1>3, <1>4, <1>5
<1>7. L * q = k * L
  BY <1>6
<1>8. m = j
  BY <1>1, <1>2, <1>3, <1>7
<1> QED BY <1>8 DEF m, x

\* One more group.
LEMMA RepeatMore ==
  ASSUME NEW k \in Nat, NEW fields \in Seq(FieldType), fields # <<>>
  PROVE  Repeat(k + 1, fields) = Repeat(k, fields) \o fields
<1> DEFINE L == Len(fields)
           a == Repeat(k, fields)
           b == Repeat(k + 1, fields)
           c == k * L
<1>1. L \in Nat /\ L > 0 /\ k + 1 \in Nat
  BY EmptySeq
<1>2. c \in Nat /\ (k + 1) * L = c + L
  BY <1>1
<1>3. a = [i \in 1..c |-> fields[((i - 1) % L) + 1]]
  BY DEF Repeat
<1>4. b = [i \in 1..(c + L) |-> fields[((i - 1) % L) + 1]]
  BY <1>2 DEF Repeat
<1>5. a \in Seq(FieldType) /\ b \in Seq(FieldType)
  BY <1>1, Repeated
<1>6. \A i \in 1..L : ((c + i) - 1) % L = i - 1
  <2> SUFFICES ASSUME NEW i \in 1..L PROVE ((c + i) - 1) % L = i - 1
    OBVIOUS
  <2>1. i - 1 \in 0..(L - 1)
    BY <1>1
  <2>2. (k * L + (i - 1)) % L = i - 1
    BY <1>1, <2>1, ModRepeat
  <2>3. (c + i) - 1 = k * L + (i - 1)
    BY <1>2
  <2> QED BY <2>2, <2>3
<1> HIDE DEF L, a, b, c
<1>7. Len(a) = c /\ Len(b) = c + L
  <2>1. DOMAIN a = 1..c /\ DOMAIN b = 1..(c + L)
    BY <1>3, <1>4
  <2> QED BY <1>1, <1>2, <1>5, <2>1
<1> DEFINE d == a \o fields
<1>8. /\ d \in Seq(FieldType) /\ Len(d) = c + L
      /\ \A i \in 1..c : d[i] = a[i]
      /\ \A i \in 1..L : d[c + i] = fields[i]
  <2>1. a \in Seq(FieldType)
    BY <1>5
  <2>2. /\ a \o fields \in Seq(FieldType) /\ Len(a \o fields) = Len(a) + Len(fields)
        /\ \A i \in 1..Len(a) : (a \o fields)[i] = a[i]
        /\ \A i \in 1..Len(fields) : (a \o fields)[Len(a) + i] = fields[i]
    BY ONLY <2>1, fields \in Seq(FieldType)
  <2> QED BY <1>7, <2>2 DEF L
<1> HIDE DEF d
<1>9. ASSUME NEW i \in 1..(c + L) PROVE b[i] = d[i]
  <2>1. CASE i \in 1..c
    <3>1. b[i] = fields[((i - 1) % L) + 1] /\ a[i] = fields[((i - 1) % L) + 1]
      BY <1>3, <1>4, <2>1
    <3> QED BY <1>8, <2>1, <3>1
  <2>2. CASE i > c
    <3> DEFINE j == i - c
    <3>1. j \in 1..L /\ i = c + j
      BY <1>1, <1>2, <2>2
    <3> HIDE DEF j
    <3>2. b[c + j] = fields[(((c + j) - 1) % L) + 1]
      BY <1>4, <3>1
    <3>3. (j - 1) + 1 = j
      BY <3>1
    <3> QED BY <1>6, <1>8, <3>1, <3>2, <3>3
  <2> QED BY <1>1, <1>2, <2>1, <2>2
<1>10. b = d
  BY <1>5, <1>7, <1>8, <1>9, SeqEqual
<1> QED BY <1>10 DEF a, b, d

\* A group written k times takes k times its width.
LEMMA WidthRepeat ==
  ASSUME NEW k \in Nat, NEW fields \in Seq(FieldType), fields # <<>>
  PROVE  Width(Repeat(k, fields)) = k * Width(fields)
<1> DEFINE w == Width(fields)
           S == {i \in 0..k : Width(Repeat(i, fields)) = i * w}
<1>1. w \in Nat
  BY WidthConcat
<1>2. 0 \in S
  <2>1. Repeat(0, fields) \in Seq(FieldType)
    BY Repeated
  <2>2. DOMAIN Repeat(0, fields) = {}
    <3>1. Len(fields) \in Nat
      OBVIOUS
    <3>2. 1 .. 0 * Len(fields) = {}
      BY <3>1
    <3> QED BY <3>2 DEF Repeat
  <2>3. Repeat(0, fields) = <<>>
    BY <2>1, <2>2
  <2>4. Width(<<>>) = 0
    BY Pieces, Widths, WidthOne
  <2> HIDE DEF w
  <2>5. 0 * w = 0 /\ 0 \in 0..k
    BY <1>1
  <2> QED BY <2>3, <2>4, <2>5
<1>3. ASSUME NEW i \in 0..k, i \in S, i < k PROVE i + 1 \in S
  <2>1. Repeat(i, fields) \in Seq(FieldType) /\ i \in Nat
    BY Repeated
  <2>2. Repeat(i + 1, fields) = Repeat(i, fields) \o fields
    BY <2>1, RepeatMore
  <2>3. Width(Repeat(i + 1, fields)) = Width(Repeat(i, fields)) + w
    BY <2>1, <2>2, WidthConcat
  <2> HIDE DEF w
  <2>4. (i + 1) * w = i * w + w
    BY <1>1, <2>1
  <2>5. i + 1 \in 0..k
    BY <1>3
  <2> QED BY <1>3, <2>3, <2>4, <2>5
<1> HIDE DEF S
<1>4. 0..k \subseteq S
  BY <1>2, <1>3, UpTo
<1>5. k \in S
  BY <1>4
<1> QED BY <1>5 DEF S

-----------------------------------------------------------------------------
(* Records and their lengths.                                              *)

\* Fields that are not the type of a record.
Plain(t) == t \in Seq(FieldType) /\ \A i \in 1..Len(t) : t[i].what # "type"

\* s is the beginning of a record, and by its length field there are left more bytes
\* to come.
Framed(s, left) ==
  /\ s \in Seq(FieldType) /\ Len(s) >= 2
  /\ s[1].what = "type" /\ \A i \in 2..Len(s) : s[i].what # "type"
  /\ s[2].val = Esc => Len(s) >= 3
  /\ EndOf(s, 1) = Width(s) + left

\* The end of a record that begins at i does not depend on what comes later.
LEMMA EndOfConcat ==
  ASSUME NEW s \in Seq(FieldType), NEW r \in Seq(FieldType), NEW i \in 1..Len(s),
         i + 1 \in 1..Len(s), s[i + 1].val = Esc => i + 2 \in 1..Len(s)
  PROVE  EndOf(s \o r, i) = EndOf(s, i)
<1>1. /\ DOMAIN s = 1..Len(s) /\ DOMAIN (s \o r) = 1..Len(s \o r) /\ Len(s) \in Nat
      /\ Len(r) \in Nat /\ Len(s \o r) = Len(s) + Len(r)
      /\ \A k \in 1..Len(s) : (s \o r)[k] = s[k]
  OBVIOUS
<1>2. i + 2 \in DOMAIN s => i + 2 \in DOMAIN (s \o r)
  BY <1>1
<1> QED BY <1>1, <1>2 DEF EndOf

\* Plain fields use up what is left.
LEMMA FramedMore ==
  ASSUME NEW s, NEW left \in Nat, Framed(s, left), NEW t, Plain(t), Width(t) <= left
  PROVE  Framed(s \o t, left - Width(t)) /\ left - Width(t) \in Nat
<1>1. /\ s \in Seq(FieldType) /\ t \in Seq(FieldType) /\ Len(s) >= 2
      /\ s[2].val = Esc => Len(s) >= 3
      /\ EndOf(s, 1) = Width(s) + left
  BY DEF Framed, Plain
<1> DEFINE st == s \o t
<1>2. /\ Len(s) \in Nat /\ Len(t) \in Nat /\ Len(st) = Len(s) + Len(t)
      /\ st \in Seq(FieldType) /\ \A k \in 1..Len(s) : st[k] = s[k]
      /\ \A k \in 1..Len(t) : st[Len(s) + k] = t[k]
  BY ONLY <1>1
<1>3. Width(st) = Width(s) + Width(t) /\ Width(s) \in Nat /\ Width(t) \in Nat
  BY <1>1, WidthConcat
<1>4. EndOf(st, 1) = EndOf(s, 1)
  <2>1. 1 \in 1..Len(s) /\ 1 + 1 \in 1..Len(s)
    BY <1>1, <1>2
  <2>2. s[1 + 1].val = Esc => 1 + 2 \in 1..Len(s)
    BY <1>1, <1>2
  <2> QED BY <1>1, <2>1, <2>2, EndOfConcat
<1>5. \A i \in 2..Len(st) : st[i].what # "type"
  <2> SUFFICES ASSUME NEW i \in 2..Len(st) PROVE st[i].what # "type"
    OBVIOUS
  <2>1. CASE i <= Len(s)
    <3>1. i \in 1..Len(s) /\ i \in 2..Len(s)
      BY <1>2, <2>1
    <3> QED BY <1>2, <3>1 DEF Framed
  <2>2. CASE i > Len(s)
    <3> DEFINE j == i - Len(s)
    <3>1. j \in 1..Len(t) /\ i = Len(s) + j
      BY <1>2, <2>2
    <3> HIDE DEF j
    <3> QED BY <1>2, <3>1 DEF Plain
  <2> QED BY <1>2, <2>1, <2>2
<1>6. st[1] = s[1] /\ st[2] = s[2] /\ Len(st) >= Len(s)
  BY <1>1, <1>2
<1> HIDE DEF st
<1>7. EndOf(st, 1) = Width(st) + (left - Width(t)) /\ left - Width(t) \in Nat
  BY <1>1, <1>3, <1>4
<1>8. Len(st) >= 2 /\ (st[2].val = Esc => Len(st) >= 3) /\ st[1].what = "type"
  BY <1>1, <1>2, <1>6 DEF Framed
<1> QED BY <1>2, <1>5, <1>7, <1>8 DEF Framed, st

\* A type and a length frame a record.
LEMMA FramedShort ==
  ASSUME NEW kind \in Kinds, NEW n \in Nat, n < Esc
  PROVE  Framed(Type(kind) \o Length1(n), n)
<1> DEFINE f == Field("type", 1, DG_R[kind])
           g == Field("len", 1, n)
           s == <<f>> \o <<g>>
<1>1. Esc \in Nat /\ n % (Esc + 1) = n
  BY Widths
<1>2. Type(kind) \o Length1(n) = s
  BY <1>1 DEF Type, Length1
<1>3. DG_R[kind] \in Nat
  BY DEF DG_R, Kinds
<1>4. f \in FieldType /\ g \in FieldType
  BY <1>3, Widths, OneField
<1>5. /\ f.what = "type" /\ f.n = 1 /\ g.what = "len" /\ g.n = 1 /\ g.val = n
  BY DEF Field
<1> HIDE DEF f, g
<1>6. s \in Seq(FieldType) /\ Len(s) = 2 /\ s[1] = f /\ s[2] = g
  BY <1>4
<1>7. Width(s) = 2
  <2>1. Width(<<f>>) = 1 /\ Width(<<g>>) = 1
    BY <1>4, <1>5, WidthOne
  <2>2. <<f>> \in Seq(FieldType) /\ <<g>> \in Seq(FieldType)
    BY <1>4
  <2>3. Width(s) = Width(<<f>>) + Width(<<g>>)
    BY <2>2, WidthConcat
  <2> QED BY <2>1, <2>3
<1> HIDE DEF s
<1>8. EndOf(s, 1) = 2 + n
  <2>1. s[1 + 1].val = n /\ n # Esc
    BY <1>1, <1>5, <1>6
  <2> QED BY <2>1 DEF EndOf
<1>9. \A i \in 2..Len(s) : s[i].what # "type"
  BY <1>5, <1>6
<1>10. s[2].val # Esc
  BY <1>1, <1>5, <1>6
<1> QED BY <1>2, <1>5, <1>6, <1>7, <1>8, <1>9, <1>10 DEF Framed

\* out_length frames a record of any length.
LEMMA FramedLong ==
  ASSUME NEW kind \in Kinds, NEW n \in Nat
  PROVE  Framed(Type(kind) \o out_length(n), n)
<1>0. Esc \in Nat
  BY Widths
<1>1. CASE n < Esc
  BY <1>1, FramedShort DEF out_length
<1>2. CASE ~ (n < Esc)
  <2> DEFINE f == Field("type", 1, DG_R[kind])
             g == Field("len", 1, Esc)
             h == Field("ext", LenW, n)
             s == <<f>> \o (<<g>> \o <<h>>)
  <2>1. Esc % (Esc + 1) = Esc
    BY <1>0
  <2>2. Type(kind) \o out_length(n) = s
    BY <1>2, <2>1 DEF Type, Length1, out_length
  <2>3. DG_R[kind] \in Nat
    BY DEF DG_R, Kinds
  <2>4. f \in FieldType /\ g \in FieldType /\ h \in FieldType
    BY <1>0, <2>3, Widths, OneField
  <2>5. /\ f.what = "type" /\ f.n = 1 /\ g.what = "len" /\ g.n = 1 /\ g.val = Esc
        /\ h.what = "ext" /\ h.n = LenW /\ h.val = n
    BY DEF Field
  <2> HIDE DEF f, g, h
  <2>6. s \in Seq(FieldType) /\ Len(s) = 3 /\ s[1] = f /\ s[2] = g /\ s[3] = h
    BY <2>4
  <2>7. Width(s) = 2 + LenW /\ LenW \in Nat
    <3>1. Width(<<f>>) = 1 /\ Width(<<g>>) = 1 /\ Width(<<h>>) = LenW
      BY <2>4, <2>5, WidthOne
    <3>2. <<f>> \in Seq(FieldType) /\ <<g>> \in Seq(FieldType) /\ <<h>> \in Seq(FieldType)
      BY <2>4
    <3>3. Width(<<g>> \o <<h>>) = Width(<<g>>) + Width(<<h>>) /\ <<g>> \o <<h>> \in Seq(FieldType)
      BY <3>2, WidthConcat
    <3>4. Width(s) = Width(<<f>>) + Width(<<g>> \o <<h>>)
      BY <3>2, <3>3, WidthConcat
    <3> QED BY <3>1, <3>3, <3>4, Widths
  <2> HIDE DEF s
  <2>8. EndOf(s, 1) = 2 + LenW + n
    <3>1. s[1 + 1].val = Esc /\ 1 + 2 \in DOMAIN s /\ s[1 + 2].val = n
      BY <2>5, <2>6
    <3> QED BY <3>1 DEF EndOf
  <2>9. \A i \in 2..Len(s) : s[i].what # "type"
    <3>1. \A i \in 2..Len(s) : i = 2 \/ i = 3
      BY <2>6
    <3> QED BY <2>5, <2>6, <3>1
  <2> QED BY <2>2, <2>5, <2>6, <2>7, <2>8, <2>9 DEF Framed
<1> QED BY <1>0, <1>1, <1>2

\* w plain bytes.
Body(t, w) == Plain(t) /\ Width(t) = w /\ w \in Nat

\* They use up w of the bytes that are left, to the last one.
LEMMA Filled ==
  ASSUME NEW s, NEW left \in Nat, Framed(s, left), NEW t, NEW w, Body(t, w), w <= left
  PROVE  Framed(s \o t, left - w) /\ left - w \in Nat
  BY FramedMore DEF Body

LEMMA BodyConcat ==
  ASSUME NEW s, NEW t, NEW v, NEW w, Body(s, v), Body(t, w)
  PROVE  Body(s \o t, v + w)
<1>1. s \in Seq(FieldType) /\ t \in Seq(FieldType)
  BY DEF Body, Plain
<1> DEFINE st == s \o t
<1>2. /\ Len(s) \in Nat /\ Len(t) \in Nat /\ Len(st) = Len(s) + Len(t)
      /\ st \in Seq(FieldType) /\ \A k \in 1..Len(s) : st[k] = s[k]
      /\ \A k \in 1..Len(t) : st[Len(s) + k] = t[k]
  BY ONLY <1>1
<1>3. Width(st) = v + w /\ v + w \in Nat
  BY <1>1, WidthConcat DEF Body
<1>4. \A i \in 1..Len(st) : st[i].what # "type"
  <2> SUFFICES ASSUME NEW i \in 1..Len(st) PROVE st[i].what # "type"
    OBVIOUS
  <2>1. CASE i \in 1..Len(s)
    BY <1>2, <2>1 DEF Body, Plain
  <2>2. CASE i > Len(s)
    <3> DEFINE j == i - Len(s)
    <3>1. j \in 1..Len(t) /\ i = Len(s) + j
      BY <1>2, <2>2
    <3> HIDE DEF j
    <3> QED BY <1>2, <3>1 DEF Body, Plain
  <2> QED BY <1>2, <2>1, <2>2
<1> QED BY <1>2, <1>3, <1>4 DEF Body, Plain

\* Short tuples as concatenations.
LEMMA Tuples ==
  ASSUME NEW a \in FieldType, NEW b \in FieldType, NEW c \in FieldType, NEW d \in FieldType
  PROVE  /\ <<a>> \o <<b>> = <<a, b>>
         /\ <<a, b>> \o <<c>> = <<a, b, c>>
         /\ <<a>> \o <<b, c, d>> = <<a, b, c, d>>
<1>1. <<a>> \o <<b>> = <<a, b>>
  <2> DEFINE s == <<a>> \o <<b>>
             t == <<a, b>>
  <2>1. s \in Seq(FieldType) /\ Len(s) = 2 /\ s[1] = a /\ s[2] = b
    OBVIOUS
  <2>2. t \in Seq(FieldType) /\ Len(t) = 2 /\ t[1] = a /\ t[2] = b
    OBVIOUS
  <2> HIDE DEF s, t
  <2>3. Len(s) = Len(t) /\ \A i \in 1..Len(s) : s[i] = t[i]
    BY <2>1, <2>2
  <2>4. s = t
    BY <2>1, <2>2, <2>3, SeqEqual
  <2> QED BY <2>4 DEF s, t
<1>2. <<a, b>> \o <<c>> = <<a, b, c>>
  <2> DEFINE s == <<a, b>> \o <<c>>
             t == <<a, b, c>>
  <2>1. s \in Seq(FieldType) /\ Len(s) = 3 /\ s[1] = a /\ s[2] = b /\ s[3] = c
    OBVIOUS
  <2>2. t \in Seq(FieldType) /\ Len(t) = 3 /\ t[1] = a /\ t[2] = b /\ t[3] = c
    OBVIOUS
  <2> HIDE DEF s, t
  <2>3. Len(s) = Len(t) /\ \A i \in 1..Len(s) : s[i] = t[i]
    BY <2>1, <2>2
  <2>4. s = t
    BY <2>1, <2>2, <2>3, SeqEqual
  <2> QED BY <2>4 DEF s, t
<1>3. <<a>> \o <<b, c, d>> = <<a, b, c, d>>
  <2> DEFINE s == <<a>> \o <<b, c, d>>
             t == <<a, b, c, d>>
  <2>1. s \in Seq(FieldType) /\ Len(s) = 4 /\ s[1] = a /\ s[2] = b /\ s[3] = c /\ s[4] = d
    OBVIOUS
  <2>2. t \in Seq(FieldType) /\ Len(t) = 4 /\ t[1] = a /\ t[2] = b /\ t[3] = c /\ t[4] = d
    OBVIOUS
  <2> HIDE DEF s, t
  <2>3. Len(s) = Len(t) /\ \A i \in 1..Len(s) : s[i] = t[i]
    BY <2>1, <2>2
  <2>4. s = t
    BY <2>1, <2>2, <2>3, SeqEqual
  <2> QED BY <2>4 DEF s, t
<1> QED BY <1>1, <1>2, <1>3

\* The pieces that the bodies of records are put together from.
LEMMA BodyPieces ==
  /\ \A n \in 1..BufSize : Body(<<Raw(n)>>, n)
  /\ Body(out_word, W)
  /\ \A n \in 0..BufSize : Body(Text(n), n + 1)
  /\ Body(out_word \o <<Raw(1)>>, W + 1)
  /\ Body(<<Raw(1), Raw(1), Raw(1)>>, 3)
  /\ Body(<<Raw(MagicLen), Raw(1), Raw(1), Raw(1)>>, MagicLen + 3)
<1>0. Raw(1) \in FieldType /\ Raw(MagicLen) \in FieldType
  BY Pieces, Widths
<1>1. ASSUME NEW n \in 1..BufSize PROVE Body(<<Raw(n)>>, n)
  <2>1. Raw(n) \in FieldType /\ <<Raw(n)>> \in Seq(FieldType)
    BY Pieces
  <2>2. Raw(n).what = "raw" /\ Raw(n).n = n
    BY DEF Raw, Field
  <2>3. Width(<<Raw(n)>>) = n /\ n \in Nat
    BY <2>1, <2>2, WidthOne, Widths
  <2>4. \A i \in 1..Len(<<Raw(n)>>) : <<Raw(n)>>[i].what # "type"
    BY <2>2
  <2> QED BY <2>1, <2>3, <2>4 DEF Body, Plain
<1>2. Body(out_word, W)
  BY <1>1, Widths DEF out_word
<1>3. Body(<<Raw(1)>>, 1) /\ Body(<<Raw(MagicLen)>>, MagicLen)
  BY <1>1, Widths
<1>4. ASSUME NEW n \in 0..BufSize PROVE Body(Text(n), n + 1)
  <2>1. CASE n = 0
    BY <1>3, <2>1 DEF Text
  <2>2. CASE n # 0
    <3>1. n \in 1..BufSize
      BY <2>2, Widths
    <3>2. Body(<<Raw(n)>> \o <<Raw(1)>>, n + 1)
      BY <1>1, <1>3, <3>1, BodyConcat
    <3>3. <<Raw(n)>> \o <<Raw(1)>> = <<Raw(n), Raw(1)>>
      BY <1>0, <3>1, Pieces, Tuples
    <3> QED BY <2>2, <3>2, <3>3 DEF Text
  <2> QED BY <2>1, <2>2
<1>5. Body(out_word \o <<Raw(1)>>, W + 1)
  BY <1>2, <1>3, BodyConcat
<1>6. Body((<<Raw(1)>> \o <<Raw(1)>>) \o <<Raw(1)>>, 3)
  <2>1. Body(<<Raw(1)>> \o <<Raw(1)>>, 1 + 1)
    BY <1>3, BodyConcat
  <2>2. Body((<<Raw(1)>> \o <<Raw(1)>>) \o <<Raw(1)>>, (1 + 1) + 1)
    BY <1>3, <2>1, BodyConcat
  <2> QED BY <2>2
<1>7. (<<Raw(1)>> \o <<Raw(1)>>) \o <<Raw(1)>> = <<Raw(1), Raw(1), Raw(1)>>
  <2>1. <<Raw(1)>> \o <<Raw(1)>> = <<Raw(1), Raw(1)>>
    BY <1>0, Tuples
  <2>2. <<Raw(1), Raw(1)>> \o <<Raw(1)>> = <<Raw(1), Raw(1), Raw(1)>>
    BY <1>0, Tuples
  <2> QED BY <2>1, <2>2
<1>8. Body(<<Raw(MagicLen), Raw(1), Raw(1), Raw(1)>>, MagicLen + 3)
  <2>1. Body(<<Raw(MagicLen)>> \o <<Raw(1), Raw(1), Raw(1)>>, MagicLen + 3)
    BY <1>3, <1>6, <1>7, BodyConcat
  <2>2. <<Raw(MagicLen)>> \o <<Raw(1), Raw(1), Raw(1)>> = <<Raw(MagicLen), Raw(1), Raw(1), Raw(1)>>
    BY <1>0, Tuples
  <2> QED BY <2>1, <2>2
<1> QED BY <1>1, <1>2, <1>4, <1>5, <1>6, <1>7, <1>8

\* A group of plain fields, written k times.
LEMMA BodyRepeat ==
  ASSUME NEW k \in Nat, NEW fields, NEW w, Body(fields, w), fields # <<>>
  PROVE  Body(Repeat(k, fields), k * w)
<1>1. fields \in Seq(FieldType) /\ w \in Nat /\ w = Width(fields)
  BY DEF Body, Plain
<1>2. Repeat(k, fields) \in Seq(FieldType)
  BY <1>1, Repeated
<1>3. Width(Repeat(k, fields)) = k * w
  BY <1>1, WidthRepeat
<1>4. k * w \in Nat
  BY <1>1
<1> DEFINE L == Len(fields)
           s == Repeat(k, fields)
<1>5. L \in Nat /\ L > 0 /\ k * L \in Nat
  BY <1>1, EmptySeq
<1>6. s = [i \in 1 .. k * L |-> fields[((i - 1) % L) + 1]]
  BY DEF Repeat
<1>7. \A i \in 1 .. k * L : ((i - 1) % L) + 1 \in 1..L
  BY <1>5
<1>8. \A j \in 1..L : fields[j].what # "type"
  BY DEF Body, Plain
<1> HIDE DEF L, s
<1>9. \A i \in 1..Len(s) : i \in 1 .. k * L
  <2>1. s \in Seq(FieldType)
    BY <1>2 DEF s
  <2>2. DOMAIN s = 1 .. k * L
    BY <1>6
  <2> DEFINE c == k * L
  <2>3. c \in Nat /\ DOMAIN s = 1..c
    BY <1>5, <2>2
  <2> HIDE DEF c
  <2>4. Len(s) = c
    BY <2>1, <2>3
  <2> QED BY <2>4 DEF c
<1>10. \A i \in 1..Len(s) : s[i].what # "type"
  BY <1>6, <1>7, <1>8, <1>9
<1> QED BY <1>2, <1>3, <1>4, <1>10 DEF Body, Plain, s

\* The instances of it that records use.
LEMMA BodyGroups ==
  ASSUME NEW k \in Nat
  PROVE  /\ Body(Repeat(k, out_word), k * W)
         /\ Body(Repeat(k, out_word \o <<Raw(1)>>), k * (W + 1))
         /\ Body(Repeat(k, <<Raw(1), Raw(1), Raw(1)>>), k * 3)
<1>1. out_word # <<>> /\ out_word \o <<Raw(1)>> # <<>> /\ <<Raw(1), Raw(1), Raw(1)>> # <<>>
  BY DEF out_word
<1>2. /\ Body(out_word, W) /\ Body(out_word \o <<Raw(1)>>, W + 1)
      /\ Body(<<Raw(1), Raw(1), Raw(1)>>, 3)
  BY BodyPieces
<1> QED BY <1>1, <1>2, BodyRepeat

\* A record whose length field says where it ends.
Complete(s) == Framed(s, 0)


\* Every record that the code writes is complete: the length computed in front agrees
\* with the fields that follow.  First the ones with one byte and 1 + n words.
LEMMA WordsComplete ==
  ASSUME NEW kind \in Kinds, NEW n \in Nat
  PROVE  Complete(Type(kind) \o out_length(1 + (1 + n) * W)
                    \o out_word \o <<Raw(1)>> \o Repeat(n, out_word))
<1> DEFINE l == 1 + (1 + n) * W
           m == n * W
           a == Type(kind) \o out_length(l)
           b == a \o out_word
           c == b \o <<Raw(1)>>
           d == c \o Repeat(n, out_word)
<1>1. W \in Nat
  BY Widths
<1>2. l \in Nat /\ m \in Nat /\ l = 1 + W + m
  BY <1>1
<1>3. Body(out_word, W) /\ Body(<<Raw(1)>>, 1) /\ Body(Repeat(n, out_word), m)
  BY BodyPieces, BodyGroups, Widths
<1>4. Framed(a, l)
  BY <1>2, FramedLong
<1> SUFFICES Complete(d)
  OBVIOUS
<1> HIDE DEF l, m, a
<1>5. Framed(b, l - W) /\ l - W = 1 + m
  BY <1>1, <1>2, <1>3, <1>4, Filled
<1> HIDE DEF b
<1>6. Framed(c, (1 + m) - 1) /\ (1 + m) - 1 = m
  BY <1>2, <1>3, <1>5, Filled
<1> HIDE DEF c
<1>7. Framed(d, m - m) /\ m - m = 0
  BY <1>2, <1>3, <1>6, Filled
<1> QED BY <1>7 DEF Complete

\* trace_bb_flush and trace_bb_start.
LEMMA RunComplete == ASSUME NEW n \in Nat PROVE Complete(BBRun(n)) /\ Complete(Context(n))
<1>1. "BBRUN" \in Kinds /\ "CONTEXT" \in Kinds
  BY DEF Kinds, DG_R
<1>2. Complete(BBRun(n))
  BY <1>1, WordsComplete DEF BBRun
<1> DEFINE c == Clamp(n, MaxIps)
<1>3. c \in Nat
  BY Widths DEF Clamp
<1>4. Context(n) = Type("CONTEXT") \o out_length(1 + (1 + c) * W)
                     \o out_word \o <<Raw(1)>> \o Repeat(c, out_word)
  BY DEF Context
<1> HIDE DEF c
<1>5. Complete(Context(n))
  BY <1>1, <1>3, <1>4, WordsComplete
<1> QED BY <1>2, <1>5

\* dg_bbdef_flush.
LEMMA BBDefComplete == ASSUME NEW n \in Nat, NEW m \in Nat PROVE Complete(BBDef(n, m))
<1> DEFINE l == 1 + W + (1 + W) * n + 3 * m
           i == n * (W + 1)
           x == m * 3
           a == Type("BBDEF") \o out_length(l)
           b == a \o <<Raw(1)>>
           c == b \o out_word
           d == c \o Repeat(n, out_word \o <<Raw(1)>>)
           e == d \o Repeat(m, <<Raw(1), Raw(1), Raw(1)>>)
<1>1. W \in Nat /\ "BBDEF" \in Kinds
  BY Widths DEF Kinds, DG_R
<1>2. l \in Nat /\ i \in Nat /\ x \in Nat /\ l = 1 + W + i + x
  BY <1>1
<1>3. /\ Body(out_word, W) /\ Body(<<Raw(1)>>, 1)
      /\ Body(Repeat(n, out_word \o <<Raw(1)>>), i)
      /\ Body(Repeat(m, <<Raw(1), Raw(1), Raw(1)>>), x)
  BY BodyPieces, BodyGroups, Widths
<1>4. BBDef(n, m) = e
  BY DEF BBDef
<1>5. Framed(a, l)
  BY <1>1, <1>2, FramedLong
<1> HIDE DEF l, i, x, a
<1>6. Framed(b, l - 1) /\ l - 1 = W + (i + x)
  BY <1>1, <1>2, <1>3, <1>5, Filled
<1> HIDE DEF b
<1>7. Framed(c, (W + (i + x)) - W) /\ (W + (i + x)) - W = i + x
  BY <1>1, <1>2, <1>3, <1>6, Filled
<1> HIDE DEF c
<1>8. Framed(d, (i + x) - i) /\ (i + x) - i = x
  BY <1>2, <1>3, <1>7, Filled
<1> HIDE DEF d
<1>9. Framed(e, x - x) /\ x - x = 0
  BY <1>2, <1>3, <1>8, Filled
<1> QED BY <1>4, <1>9 DEF Complete

\* clean_debuginfo.
LEMMA TextAvmaComplete == ASSUME NEW n \in 0..BufSize PROVE Complete(TextAvma(n))
<1> DEFINE l == n + W + 1
           a == Type("TEXT_AVMA") \o out_length(l)
           b == a \o out_word
           c == b \o Text(n)
<1>1. W \in Nat /\ "TEXT_AVMA" \in Kinds /\ n \in Nat
  BY Widths DEF Kinds, DG_R
<1>2. l \in Nat /\ l = n + W + 1
  BY <1>1
<1>3. Body(out_word, W) /\ Body(Text(n), n + 1)
  BY BodyPieces
<1>4. TextAvma(n) = c
  BY DEF TextAvma
<1>5. Framed(a, l)
  BY <1>1, <1>2, FramedLong
<1> HIDE DEF l, a
<1>6. Framed(b, l - W) /\ l - W = n + 1
  BY <1>1, <1>2, <1>3, <1>5, Filled
<1> HIDE DEF b
<1>7. Framed(c, (n + 1) - (n + 1)) /\ (n + 1) - (n + 1) = 0
  BY <1>1, <1>3, <1>6, Filled
<1> QED BY <1>4, <1>7 DEF Complete

\* The lengths that have to fit into a byte do.
LEMMA ShortLengths ==
  /\ W \in Nat /\ LabelMax \in Nat /\ Esc \in Nat /\ MagicLen \in Nat
  /\ W < Esc /\ 2 * W < Esc /\ LabelMax + 1 < Esc /\ MagicLen + 3 < Esc
  /\ \A t, l \in 0..LabelMax : 2 * W + t + l + 2 < Esc
  /\ LabelMax <= BufSize /\ BufSize \in Nat
<1>1. W \in Nat /\ LabelMax \in Nat /\ Esc \in Nat /\ MagicLen \in Nat
  BY Widths
<1>2. 2 * W + 2 * LabelMax + 2 < Esc /\ MagicLen + 3 < Esc
  BY OneByteAssumption
<1>3. LabelMax <= BufSize /\ BufSize \in Nat
  BY Widths
<1> QED BY <1>1, <1>2, <1>3

\* out_add_block.
LEMMA MallocBlockComplete == ASSUME NEW ips \in Nat PROVE Complete(MallocBlock(ips))
<1> DEFINE n == Clamp(ips, StackDepth)
           k == n + 3
           l == k * W
           a == Type("MALLOC_BLOCK") \o Length1(l)
           b == a \o Repeat(k, out_word)
<1>1. W \in Nat /\ "MALLOC_BLOCK" \in Kinds /\ n \in 0..StackDepth /\ StackDepth \in Nat
  BY Widths DEF Kinds, DG_R, Clamp
<1>2. MallocBlock(ips) = b
  BY DEF MallocBlock
<1> HIDE DEF n
<1>3. k \in Nat /\ k <= StackDepth + 3
  BY <1>1
<1>4. l \in Nat /\ l < Esc /\ Body(Repeat(k, out_word), l)
  <2>1. Body(Repeat(k, out_word), l)
    BY <1>3, BodyGroups
  <2> HIDE DEF k
  <2>2. l \in Nat /\ l <= (StackDepth + 3) * W
    BY <1>1, <1>3
  <2>3. (StackDepth + 3) * W < Esc /\ (StackDepth + 3) * W \in Nat /\ Esc \in Nat
    BY <1>1, OneByteAssumption, Widths
  <2> HIDE DEF l
  <2>4. l < Esc
    BY <2>2, <2>3
  <2> QED BY <2>1, <2>2, <2>4
<1> HIDE DEF l, k
<1>5. Framed(a, l)
  BY <1>1, <1>4, FramedShort
<1> HIDE DEF a
<1>6. Framed(b, l - l) /\ l - l = 0
  BY <1>4, <1>5, Filled
<1> QED BY <1>2, <1>6 DEF Complete

\* out_remove_block and UNTRACK_RANGE.
LEMMA FixedComplete == Complete(FreeBlock) /\ Complete(UntrackRange)
<1>1. "FREE_BLOCK" \in Kinds /\ "UNTRACK_RANGE" \in Kinds /\ 2 * W \in Nat /\ W \in Nat
  BY ShortLengths DEF Kinds, DG_R
<1>2. Body(out_word, W)
  BY BodyPieces
<1>3. Complete(FreeBlock)
  <2> DEFINE a == Type("FREE_BLOCK") \o Length1(W)
             b == a \o out_word
  <2>1. Framed(a, W)
    BY <1>1, ShortLengths, FramedShort
  <2>2. FreeBlock = b
    BY DEF FreeBlock
  <2> HIDE DEF a
  <2>3. Framed(b, W - W) /\ W - W = 0
    BY <1>1, <1>2, <2>1, Filled
  <2> QED BY <2>2, <2>3 DEF Complete
<1>4. Complete(UntrackRange)
  <2> DEFINE a == Type("UNTRACK_RANGE") \o Length1(2 * W)
             b == a \o out_word
             c == b \o out_word
  <2>1. Framed(a, 2 * W)
    BY <1>1, ShortLengths, FramedShort
  <2>2. UntrackRange = c
    BY DEF UntrackRange
  <2> HIDE DEF a
  <2>3. Framed(b, 2 * W - W) /\ 2 * W - W = W
    BY <1>1, <1>2, <2>1, Filled
  <2> HIDE DEF b
  <2>4. Framed(c, W - W) /\ W - W = 0
    BY <1>1, <1>2, <2>3, Filled
  <2> QED BY <2>2, <2>4 DEF Complete
<1> QED BY <1>3, <1>4

\* TRACK_RANGE.
LEMMA TrackRangeComplete ==
  ASSUME NEW n \in Nat, NEW m \in Nat
  PROVE  Complete(TrackRange(n, m))
<1> DEFINE t == Clamp(n, LabelMax)
           b == Clamp(m, LabelMax)
           k == (t + 1) + (b + 1)
           l == 2 * W + t + b + 2
           r1 == Type("TRACK_RANGE") \o Length1(l)
           r2 == r1 \o out_word
           r3 == r2 \o out_word
           r4 == r3 \o Text(t)
           r5 == r4 \o Text(b)
<1>1. TrackRange(n, m) = r5
  BY DEF TrackRange
<1>2. t \in 0..LabelMax /\ b \in 0..LabelMax /\ "TRACK_RANGE" \in Kinds
  BY ShortLengths DEF Clamp, Kinds, DG_R
<1> HIDE DEF t, b
<1>3. /\ l \in Nat /\ l < Esc /\ l = W + (W + k) /\ k \in Nat
      /\ t \in Nat /\ b \in Nat /\ k - (t + 1) = b + 1 /\ t + 1 <= k
  BY <1>2, ShortLengths
<1>4. Body(out_word, W) /\ Body(Text(t), t + 1) /\ Body(Text(b), b + 1) /\ W \in Nat
  <2>1. t \in 0..BufSize /\ b \in 0..BufSize
    BY <1>2, ShortLengths
  <2> QED BY <2>1, BodyPieces, ShortLengths
<1> HIDE DEF l, k
<1>5. Framed(r1, l)
  BY <1>2, <1>3, FramedShort
<1> HIDE DEF r1
<1>6. Framed(r2, l - W) /\ l - W = W + k
  BY <1>3, <1>4, <1>5, Filled
<1> HIDE DEF r2
<1>7. Framed(r3, (W + k) - W) /\ (W + k) - W = k
  BY <1>3, <1>4, <1>6, Filled
<1> HIDE DEF r3
<1>8. Framed(r4, k - (t + 1))
  BY <1>3, <1>4, <1>7, Filled
<1> HIDE DEF r4
<1>9. Framed(r5, (b + 1) - (b + 1)) /\ (b + 1) - (b + 1) = 0
  BY <1>3, <1>4, <1>8, Filled
<1> QED BY <1>1, <1>9 DEF Complete

\* START_EVENT and END_EVENT.
LEMMA EventComplete == ASSUME NEW kind \in Kinds, NEW n \in Nat PROVE Complete(Event(kind, n))
<1> DEFINE t == Clamp(n, LabelMax)
           a == Type(kind) \o Length1(t + 1)
           b == a \o Text(t)
<1>1. Event(kind, n) = b
  BY DEF Event
<1>2. t \in 0..LabelMax
  BY ShortLengths DEF Clamp
<1> HIDE DEF t
<1>3. t + 1 \in Nat /\ t + 1 < Esc /\ t \in 0..BufSize
  BY <1>2, ShortLengths
<1>4. Body(Text(t), t + 1)
  BY <1>3, BodyPieces
<1>5. Framed(a, t + 1)
  BY <1>3, FramedShort
<1> HIDE DEF a
<1>6. Framed(b, (t + 1) - (t + 1)) /\ (t + 1) - (t + 1) = 0
  BY <1>3, <1>4, <1>5, Filled
<1> QED BY <1>1, <1>6 DEF Complete

\* prepare_out_file.
LEMMA HeaderComplete == Complete(Header)
<1> DEFINE l == MagicLen + 3
           a == Type("HEADER") \o Length1(l)
           b == a \o <<Raw(MagicLen), Raw(1), Raw(1), Raw(1)>>
<1>1. Header = b
  BY DEF Header
<1>2. l \in Nat /\ l < Esc /\ "HEADER" \in Kinds
  BY ShortLengths DEF Kinds, DG_R
<1>3. Body(<<Raw(MagicLen), Raw(1), Raw(1), Raw(1)>>, l)
  BY BodyPieces
<1>4. Framed(a, l)
  BY <1>2, FramedShort
<1> HIDE DEF a, l
<1>5. Framed(b, l - l) /\ l - l = 0
  BY <1>2, <1>3, <1>4, Filled
<1> QED BY <1>1, <1>5 DEF Complete

\* All of them.
LEMMA RecordComplete == ASSUME NEW r \in Records PROVE Complete(Fields(r))
<1>1. r.kind \in Kinds /\ r.n \in Nat /\ r.m \in Nat
  BY OutputAssumption
<1>2. r.kind = "TEXT_AVMA" => r.n \in 0..BufSize
  BY <1>1, OutputAssumption, Widths
<1>3. r.kind = "TEXT_AVMA" => Complete(TextAvma(r.n))
  BY <1>2, TextAvmaComplete
<1>4. /\ Complete(BBRun(r.n)) /\ Complete(Context(r.n)) /\ Complete(BBDef(r.n, r.m))
      /\ Complete(MallocBlock(r.n)) /\ Complete(TrackRange(r.n, r.m))
      /\ Complete(Event(r.kind, r.n))
  BY <1>1, RunComplete, BBDefComplete, MallocBlockComplete, TrackRangeComplete,
     EventComplete
<1> QED BY <1>3, <1>4, FixedComplete DEF Fields


-----------------------------------------------------------------------------
(* Records can be skipped.                                                 *)

\* The record that begins at i has its length field in s.
Headed(s, i) ==
  /\ i + 1 \in 1..Len(s) /\ i + 1 \notin Starts(s)
  /\ s[i + 1].val = Esc => i + 2 \in 1..Len(s) /\ i + 2 \notin Starts(s)

\* No record begins between i and j.
Follows(s, i, j) == i < j /\ \A k \in i + 1 .. j - 1 : k \notin Starts(s)

\* The length field of the record at i leads to j.
Leads(s, i, j) == EndOf(s, i) = Bytes(s)[j - 1] - Bytes(s)[i - 1]

\* s is made of complete records.
Whole(s) ==
  /\ s \in Seq(FieldType) /\ (s # <<>> => 1 \in Starts(s))
  /\ \A i \in Starts(s) : Headed(s, i)
  /\ \A i \in Starts(s) : \A j \in Starts(s) \cup {Len(s) + 1} :
       Follows(s, i, j) => Leads(s, i, j)

LEMMA WholeEmpty == Whole(<<>>)
<1>1. Starts(<<>>) = {}
  BY DEF Starts
<1> QED BY <1>1 DEF Whole

\* Where records begin in a concatenation.
LEMMA StartsConcat ==
  ASSUME NEW s \in Seq(FieldType), NEW r \in Seq(FieldType)
  PROVE  /\ \A k \in Starts(s) : k \in 1..Len(s) /\ k \in Starts(s \o r)
         /\ \A k \in 1..Len(s) : k \in Starts(s \o r) => k \in Starts(s)
         /\ \A k \in 1..Len(r) : Len(s) + k \in Starts(s \o r) <=> r[k].what = "type"
         /\ Starts(s \o r) \subseteq 1..(Len(s) + Len(r))
<1> DEFINE sr == s \o r
<1>1. /\ DOMAIN s = 1..Len(s) /\ DOMAIN sr = 1..(Len(s) + Len(r))
      /\ Len(s) \in Nat /\ Len(r) \in Nat
      /\ \A k \in 1..Len(s) : sr[k] = s[k]
      /\ \A k \in 1..Len(r) : sr[Len(s) + k] = r[k]
  OBVIOUS
<1> HIDE DEF sr
<1>2. /\ \A k \in 1..Len(s) : k \in 1..(Len(s) + Len(r))
      /\ \A k \in 1..Len(r) : Len(s) + k \in 1..(Len(s) + Len(r))
  BY <1>1
<1> QED BY <1>1, <1>2 DEF Starts, sr

\* The end of a complete record that is appended.
LEMMA EndOfShift ==
  ASSUME NEW s \in Seq(FieldType), NEW r \in Seq(FieldType), Len(r) >= 2,
         r[2].val = Esc => Len(r) >= 3
  PROVE  EndOf(s \o r, Len(s) + 1) = EndOf(r, 1)
<1> DEFINE sr == s \o r
           l == Len(s)
<1>1. /\ DOMAIN r = 1..Len(r) /\ DOMAIN sr = 1..(l + Len(r))
      /\ l \in Nat /\ Len(r) \in Nat
      /\ \A k \in 1..Len(r) : sr[l + k] = r[k]
  OBVIOUS
<1> HIDE DEF sr, l
<1>2. (l + 1) + 1 = l + 2 /\ (l + 1) + 2 = l + 3 /\ 1 + 1 = 2 /\ 1 + 2 = 3 /\ 2 \in 1..Len(r)
  BY <1>1
<1>3. sr[l + 2] = r[2]
  BY <1>1, <1>2
<1>4. CASE r[2].val # Esc
  BY <1>2, <1>3, <1>4 DEF EndOf, sr, l
<1>5. CASE r[2].val = Esc
  <2>1. 3 \in 1..Len(r) /\ l + 3 \in 1..(l + Len(r))
    BY <1>1, <1>5
  <2>2. sr[l + 3] = r[3] /\ 3 \in DOMAIN r /\ l + 3 \in DOMAIN sr
    BY <1>1, <2>1
  <2> QED BY <1>2, <1>3, <1>5, <2>2 DEF EndOf, sr, l
<1> QED BY <1>4, <1>5

\* One more complete record.
LEMMA WholeMore ==
  ASSUME NEW s, Whole(s), NEW r, Complete(r)
  PROVE  Whole(s \o r)
<1> DEFINE sr == s \o r
           l == Len(s)
           m == Len(r)
<1>1. /\ s \in Seq(FieldType) /\ r \in Seq(FieldType) /\ m >= 2
      /\ r[1].what = "type" /\ (\A k \in 2..m : r[k].what # "type")
      /\ r[2].val = Esc => m >= 3
      /\ EndOf(r, 1) = Width(r) + 0
  BY DEF Whole, Complete, Framed
<1>2. /\ l \in Nat /\ m \in Nat /\ Len(sr) = l + m /\ sr \in Seq(FieldType)
      /\ \A k \in 1..l : sr[k] = s[k]
      /\ \A k \in 1..m : sr[l + k] = r[k]
  BY <1>1
<1>3. /\ \A k \in Starts(s) : k \in 1..l /\ k \in Starts(sr)
      /\ \A k \in 1..l : k \in Starts(sr) => k \in Starts(s)
      /\ \A k \in 1..m : l + k \in Starts(sr) <=> r[k].what = "type"
      /\ Starts(sr) \subseteq 1..(l + m)
  BY <1>1, StartsConcat
<1>4. EndOf(sr, l + 1) = EndOf(r, 1)
  BY <1>1, EndOfShift
<1>5. /\ \A k \in 0..l : Bytes(sr)[k] = Bytes(s)[k]
      /\ \A k \in 0..m : Bytes(sr)[l + k] = Width(s) + Bytes(r)[k]
  BY <1>1, BytesConcat
<1>6. /\ Width(s) \in Nat /\ Width(r) \in Nat /\ Bytes(r)[0] = 0 /\ Bytes(r)[m] = Width(r)
  <2>1. Width(s) \in Nat /\ Width(r) \in Nat
    BY <1>1, WidthConcat
  <2> QED BY <1>1, <2>1, BytesIs DEF Width
<1>7. \A i \in Starts(s) : Headed(s, i)
  BY DEF Whole
<1>8. \A i \in Starts(s) : Headed(s, i) => EndOf(sr, i) = EndOf(s, i)
  BY <1>1, <1>3, EndOfConcat DEF Headed
<1>9. \A i \in Starts(s) : \A j \in Starts(s) \cup {l + 1} : Follows(s, i, j) => Leads(s, i, j)
  BY DEF Whole
<1>10. s # <<>> => 1 \in Starts(s)
  BY DEF Whole
<1> HIDE DEF sr, l, m
<1>11. l + 1 \in Starts(sr)
  BY <1>1, <1>2, <1>3
<1>12. ASSUME NEW i \in Starts(sr) PROVE i \in Starts(s) \/ i = l + 1
  <2>1. i \in 1..(l + m)
    BY <1>3
  <2>2. CASE i <= l
    BY <1>2, <1>3, <2>1, <2>2
  <2>3. CASE i > l /\ i # l + 1
    <3> DEFINE k == i - l
    <3>1. k \in 2..m /\ k \in 1..m /\ i = l + k
      BY <1>2, <2>1, <2>3
    <3> HIDE DEF k
    <3> QED BY <1>1, <1>3, <3>1
  <2> QED BY <1>2, <2>1, <2>2, <2>3
<1>13. ASSUME NEW i \in Starts(sr) PROVE Headed(sr, i)
  <2>1. CASE i \in Starts(s)
    <3>1. i + 1 \in 1..l /\ i + 1 \notin Starts(s)
      BY <1>7, <2>1 DEF Headed, l
    <3>2. s[i + 1].val = Esc => i + 2 \in 1..l /\ i + 2 \notin Starts(s)
      BY <1>7, <2>1 DEF Headed, l
    <3>3. i + 1 \in 1..(l + m) /\ (i + 2 \in 1..l => i + 2 \in 1..(l + m))
      BY <1>2, <3>1
    <3> QED BY <1>2, <1>3, <3>1, <3>2, <3>3 DEF Headed
  <2>2. CASE i = l + 1
    <3>1. i + 1 = l + 2 /\ i + 2 = l + 3 /\ 2 \in 1..m /\ 2 \in 2..m
      BY <1>1, <1>2, <2>2
    <3>2. i + 1 \in 1..Len(sr)
      BY <1>1, <1>2, <2>2
    <3>3. sr[i + 1] = r[2] /\ i + 1 \notin Starts(sr)
      BY <1>1, <1>2, <1>3, <3>1
    <3>4. r[2].val = Esc => i + 2 \in 1..Len(sr) /\ i + 2 \notin Starts(sr)
      <4> SUFFICES ASSUME m >= 3 PROVE i + 2 \in 1..Len(sr) /\ i + 2 \notin Starts(sr)
        BY <1>1
      <4>1. 3 \in 1..m /\ 3 \in 2..m
        BY <1>2
      <4>2. i + 2 \in 1..Len(sr)
        BY <1>2, <2>2
      <4> QED BY <1>1, <1>3, <3>1, <4>1, <4>2
    <3> QED BY <3>2, <3>3, <3>4 DEF Headed
  <2> QED BY <1>12, <2>1, <2>2
<1>14. ASSUME NEW i \in Starts(sr), NEW j \in Starts(sr) \cup {Len(sr) + 1}, Follows(sr, i, j)
       PROVE  Leads(sr, i, j)
  <2>0. i < j /\ \A k \in i + 1 .. j - 1 : k \notin Starts(sr)
    BY <1>14 DEF Follows
  <2>1. CASE i \in Starts(s)
    <3>1. i \in 1..l
      BY <1>3, <2>1
    <3>2. j # Len(sr) + 1
      <4> SUFFICES ASSUME j = Len(sr) + 1 PROVE FALSE
        OBVIOUS
      <4>1. l + 1 \in i + 1 .. j - 1
        BY <1>1, <1>2, <3>1
      <4> QED BY <1>11, <2>0, <4>1
    <3>3. j \in Starts(s) \/ j = l + 1
      BY <1>12, <3>2
    <3>4. Follows(s, i, j)
      BY <1>3, <2>0 DEF Follows
    <3>5. Leads(s, i, j)
      BY <1>9, <2>1, <3>3, <3>4
    <3>6. i - 1 \in 0..l /\ j - 1 \in 0..l
      BY <1>2, <1>3, <3>1, <3>3
    <3>7. EndOf(sr, i) = EndOf(s, i)
      BY <1>7, <1>8, <2>1
    <3> QED BY <1>5, <3>5, <3>6, <3>7 DEF Leads
  <2>2. CASE i = l + 1
    <3>1. j = l + m + 1
      <4>1. j \notin Starts(sr)
        <5>1. j \in Starts(s) => j \in 1..l
          BY <1>3
        <5> QED BY <1>2, <1>12, <2>0, <2>2, <5>1
      <4> QED BY <1>2, <4>1
    <3>2. j - 1 = l + m /\ i - 1 = l + 0 /\ m \in 0..m /\ 0 \in 0..m
      BY <1>2, <2>2, <3>1
    <3>3. Bytes(sr)[j - 1] = Width(s) + Width(r) /\ Bytes(sr)[i - 1] = Width(s) + 0
      BY <1>5, <1>6, <3>2
    <3>4. EndOf(sr, i) = Width(r) + 0
      BY <1>1, <1>4, <2>2
    <3> QED BY <1>6, <3>3, <3>4 DEF Leads
  <2> QED BY <1>12, <2>1, <2>2
<1>15. 1 \in Starts(sr)
  <2>1. CASE s # <<>>
    BY <1>3, <1>10, <2>1
  <2>2. CASE s = <<>>
    BY <1>11, <2>2 DEF l
  <2> QED BY <2>1, <2>2
<1> QED BY <1>2, <1>13, <1>14, <1>15 DEF Whole, sr

\* What a file that is cut short anywhere still has of complete records can be
\* skipped.
LEMMA WholePrefix ==
  ASSUME NEW f \in Seq(FieldType), NEW t \in Seq(FieldType), Whole(f \o t)
  PROVE  /\ f # <<>> => 1 \in Starts(f)
         /\ \A i, j \in Starts(f) : Follows(f, i, j) => Leads(f, i, j)
<1> DEFINE ft == f \o t
           l == Len(f)
<1>1. l \in Nat /\ (\A k \in 1..l : ft[k] = f[k]) /\ (f # <<>> => 1 \in 1..l)
      /\ (f # <<>> => ft # <<>>)
  BY EmptySeq
<1>2. /\ \A k \in Starts(f) : k \in 1..l /\ k \in Starts(ft)
      /\ \A k \in 1..l : k \in Starts(ft) => k \in Starts(f)
  BY StartsConcat
<1>3. \A k \in 0..l : Bytes(ft)[k] = Bytes(f)[k]
  BY BytesConcat
<1>4. /\ ft # <<>> => 1 \in Starts(ft)
      /\ \A i \in Starts(ft) : Headed(ft, i)
      /\ \A i, j \in Starts(ft) : Follows(ft, i, j) => Leads(ft, i, j)
  BY DEF Whole
<1>5. f # <<>> => 1 \in Starts(f)
  BY <1>1, <1>2, <1>4
<1>6. \A i \in 1..l : i + 1 \in 1..l /\ (f[i + 1].val = Esc => i + 2 \in 1..l)
                        => EndOf(ft, i) = EndOf(f, i)
  BY EndOfConcat
<1> HIDE DEF ft, l
<1>7. ASSUME NEW i \in Starts(f), NEW j \in Starts(f), Follows(f, i, j)
      PROVE  Leads(f, i, j)
  <2>1. i \in 1..l /\ j \in 1..l /\ i < j
    BY <1>2, <1>7 DEF Follows
  <2>2. Follows(ft, i, j)
    <3>1. \A k \in i + 1 .. j - 1 : k \in 1..l
      BY <1>1, <2>1
    <3> QED BY <1>2, <1>7, <3>1 DEF Follows
  <2>3. Leads(ft, i, j)
    BY <1>2, <1>4, <2>2
  <2>4. Headed(ft, i)
    BY <1>2, <1>4
  <2>5. i + 1 \in 1..l /\ i + 1 # j
    <3>1. i + 1 \notin Starts(ft) /\ j \in Starts(ft)
      BY <1>2, <2>4 DEF Headed
    <3> QED BY <1>1, <2>1, <3>1
  <2>6. f[i + 1].val = Esc => i + 2 \in 1..l
    <3> SUFFICES ASSUME f[i + 1].val = Esc PROVE i + 2 \in 1..l
      OBVIOUS
    <3>1. i + 2 \notin Starts(ft) /\ j \in Starts(ft)
      BY <1>1, <1>2, <2>4, <2>5 DEF Headed
    <3> QED BY <1>1, <2>1, <2>5, <3>1
  <2>7. EndOf(ft, i) = EndOf(f, i)
    BY <1>6, <2>1, <2>5, <2>6
  <2>8. i - 1 \in 0..l /\ j - 1 \in 0..l
    BY <1>1, <2>1
  <2> QED BY <1>3, <2>3, <2>7, <2>8 DEF Leads
<1> QED BY <1>5, <1>7

\* What the first process has emitted, with the rest of the record that it is writing.
Recorded == emitted[Root] \o todo[Root]
SkipInv == StageInv /\ Whole(Recorded)

\* A sequence is its first field and the others.
LEMMA HeadTailAgain ==
  ASSUME NEW t \in Seq(FieldType), t # <<>>
  PROVE  Head(t) \in FieldType /\ Tail(t) \in Seq(FieldType) /\ <<Head(t)>> \o Tail(t) = t
<1>1. /\ Len(t) \in Nat /\ Len(t) > 0 /\ Head(t) = t[1] /\ Head(t) \in FieldType
      /\ Tail(t) \in Seq(FieldType) /\ Len(Tail(t)) = Len(t) - 1
      /\ \A k \in 1..Len(Tail(t)) : Tail(t)[k] = t[k + 1]
  BY EmptySeq
<1> DEFINE h == Head(t)
           u == Tail(t)
           v == <<h>> \o u
<1>2. h \in FieldType /\ u \in Seq(FieldType)
  BY <1>1
<1> HIDE DEF h, u
<1>3. /\ v \in Seq(FieldType) /\ Len(v) = 1 + Len(u) /\ v[1] = h
      /\ \A k \in 1..Len(u) : v[1 + k] = u[k]
  BY <1>2
<1> HIDE DEF v
<1>4. Len(v) = Len(t)
  BY <1>1, <1>3 DEF u
<1>5. ASSUME NEW i \in 1..Len(v) PROVE v[i] = t[i]
  <2>1. CASE i = 1
    BY <1>1, <1>3, <2>1 DEF h
  <2>2. CASE i # 1
    <3> DEFINE k == i - 1
    <3>1. k \in 1..Len(u) /\ i = 1 + k /\ i = k + 1
      BY <1>1, <1>4, <2>2 DEF u
    <3> HIDE DEF k
    <3>2. v[1 + k] = u[k] /\ u[k] = t[k + 1]
      BY <1>1, <1>3, <3>1 DEF u
    <3> QED BY <3>1, <3>2
  <2> QED BY <2>1, <2>2
<1>6. v = t
  BY <1>3, <1>4, <1>5, SeqEqual
<1> QED BY <1>1, <1>6 DEF v, h, u

\* A field moves from the front of one sequence to the end of another.
LEMMA MoveField ==
  ASSUME NEW e \in Seq(FieldType), NEW t \in Seq(FieldType), t # <<>>
  PROVE  Append(e, Head(t)) \o Tail(t) = e \o t
<1> DEFINE f == Head(t)
           g == <<f>>
           u == Tail(t)
<1>1. f \in FieldType /\ u \in Seq(FieldType) /\ g \o u = t
  BY HeadTailAgain
<1> HIDE DEF f, u
<1>2. Append(e, f) = e \o g /\ g \in Seq(FieldType)
  BY <1>1, AppendIsConcat
<1> HIDE DEF g
<1>3. (e \o g) \o u = e \o (g \o u)
  <2>1. e \in Seq(FieldType) /\ g \in Seq(FieldType) /\ u \in Seq(FieldType)
    BY <1>1, <1>2
  <2> QED BY ONLY <2>1, ConcatAssociative
<1> QED BY <1>1, <1>2, <1>3 DEF f, u

\* A field that is emitted changes place, and the next record is appended whole.
LEMMA SkipKept ==
  ASSUME SkipInv, StageInv', ~MayFork, [Next]_vars
  PROVE  Whole(Recorded)'
<1> USE OutputAssumption
<1>0. TypeOK /\ Alone /\ Untouched
  BY DEF SkipInv, StageInv, BufferInv
<1> DEFINE e == emitted[Root]
           t == todo[Root]
<1>1. e \in Seq(FieldType) /\ t \in Seq(FieldType) /\ Whole(e \o t)
  BY <1>0 DEF TypeOK, SkipInv, Recorded
<1>2. CASE prepare_out_file
  <2>1. e = <<>> /\ t = <<>>
    BY <1>0, <1>2 DEF prepare_out_file, Untouched
  <2>2. emitted'[Root] = <<>> /\ todo'[Root] \in {<<>>, Header}
    BY <1>0, <1>2, <2>1 DEF prepare_out_file, TypeOK
  <2>3. Header \in Seq(FieldType)
    BY HeaderFields
  <2>4. <<>> \o <<>> = <<>> /\ <<>> \o Header = Header
    BY <2>3
  <2>5. Whole(<<>>) /\ Whole(<<>> \o Header)
    BY WholeEmpty, HeaderComplete, WholeMore
  <2> QED BY <2>2, <2>4, <2>5 DEF Recorded
<1>3. ASSUME NEW r \in Records, BeginRecord(Root, r) PROVE Whole(Recorded)'
  <2>1. t = <<>> /\ emitted' = emitted /\ todo'[Root] = Fields(r)
    BY <1>0, <1>3 DEF BeginRecord, TypeOK
  <2>2. e \o <<>> = e
    BY <1>1
  <2>3. Whole(e \o Fields(r))
    BY <1>1, <2>1, <2>2, RecordComplete, WholeMore
  <2> QED BY <2>1, <2>3 DEF Recorded
<1>4. CASE Emit(Root)
  <2>1. t # <<>> /\ emitted'[Root] = Append(e, Head(t)) /\ todo'[Root] = Tail(t)
    BY <1>0, <1>4 DEF Emit, TypeOK
  <2> HIDE DEF e, t
  <2>2. Append(e, Head(t)) \o Tail(t) = e \o t
    BY <1>1, <2>1, MoveField
  <2> QED BY <1>1, <2>1, <2>2 DEF Recorded
<1>5. CASE dg_fini(Root) \/ Die(Root) \/ UNCHANGED vars
  <2>1. emitted' = emitted /\ todo' = todo
    BY <1>5 DEF dg_fini, Die, vars
  <2> QED BY <1>1, <2>1 DEF Recorded
<1> QED BY <1>0, <1>2, <1>3, <1>4, <1>5, RootActs DEF vars

LEMMA SkipInvariant == ASSUME ~MayFail, ~MayFork PROVE Spec => []SkipInv
<1>1. Init => Whole(Recorded)
  <2> SUFFICES ASSUME Init PROVE Whole(Recorded)
    OBVIOUS
  <2>1. emitted[Root] = <<>> /\ todo[Root] = <<>> /\ <<>> \o <<>> = <<>>
    BY OutputAssumption DEF Init
  <2> QED BY <2>1, WholeEmpty DEF Recorded
<1>2. StageInv /\ Whole(Recorded) /\ StageInv' /\ [Next]_vars => Whole(Recorded)'
  BY SkipKept DEF SkipInv
<1>3. Spec => []StageInv
  BY StageInvariant
<1>4. SkipInv <=> StageInv /\ Whole(Recorded)
  BY DEF SkipInv
<1> QED BY <1>1, <1>2, <1>3, <1>4, PTL DEF Spec

\* dg-manual.xml: "Each record contains enough information for the record to be
\* skipped without understanding it."  The lengths that dg_main.c computes before it
\* writes a record lead, from the start of any record, to the start of the next one,
\* at every moment, for any sequence of records and any number of addresses,
\* instructions and accesses in them.
THEOREM RecordsSkippable ==
  ASSUME ~MayFail, ~MayFork
  PROVE  Spec => []Skippable
<1>1. SkipInv => Skippable
  <2> SUFFICES ASSUME SkipInv PROVE Skippable
    OBVIOUS
  <2> DEFINE b == out_buf[Root]
             t == todo[Root]
  <2>1. emitted[Root] = file \o b /\ file \in Seq(FieldType) /\ b \in Seq(FieldType)
    BY RootView DEF SkipInv, RootLaw
  <2>2. t \in Seq(FieldType) /\ Whole((file \o b) \o t)
    BY <2>1, OutputAssumption DEF SkipInv, StageInv, BufferInv, TypeOK, Recorded
  <2> HIDE DEF b, t
  <2>3. b \o t \in Seq(FieldType) /\ (file \o b) \o t = file \o (b \o t)
    BY <2>1, <2>2, ConcatAssociative
  <2>4. /\ file # <<>> => 1 \in Starts(file)
        /\ \A i, j \in Starts(file) : Follows(file, i, j) => Leads(file, i, j)
    BY <2>1, <2>2, <2>3, WholePrefix
  <2> QED BY <2>4 DEF Skippable, Follows, Leads
<1> QED BY <1>1, SkipInvariant, PTL
=============================================================================
