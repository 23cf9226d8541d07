------------------------------ MODULE DgOutput ------------------------------
(***************************************************************************)
(* Datagrind's output file, exp-datagrind/dg_main.c: the records as the    *)
(* fields their writers emit (out_byte, out_bytes, out_word, out_length),  *)
(* the 4096-byte buffer in front of the file (out_flush), the header, and  *)
(* the end of the process, orderly (dg_fini) or not.                       *)
(*                                                                         *)
(* A field is what one call of out_byte or out_bytes emits: its width in   *)
(* bytes and, for a type or a length, its value.  A field is never split   *)
(* by the buffer.  A record is written while the big lock is held, so      *)
(* fields of one process never interleave; processes that share the file   *)
(* after a fork do.                                                        *)
(***************************************************************************)
EXTENDS Integers, Sequences, SequencesExt

CONSTANTS Procs, Root,  \* processes, and the one Valgrind starts
          W,            \* sizeof(HWord)
          Esc,          \* 255: "the length is in the following 64 bits"
          LenW,         \* sizeof(ULong)
          MagicLen,     \* sizeof(magic)
          BufSize,      \* OUT_BUF_SIZE
          StackDepth,   \* STACK_DEPTH: most ips of a heap block
          MaxIps,       \* 255: most ips of a context
          LabelMax,     \* 64: most bytes of a label or type name
          Records,      \* the records the client gives rise to
          MayFail,      \* write() may write less than it is asked to
          MayFork,      \* the client may fork
          MayDie,       \* the process may be killed or exec
          MaxRecords    \* bound: records written by all processes together

\* dg_record.h
DG_R == [HEADER |-> 0, TRACK_RANGE |-> 3, UNTRACK_RANGE |-> 4, START_EVENT |-> 5,
         END_EVENT |-> 6, TEXT_AVMA |-> 8, MALLOC_BLOCK |-> 9, FREE_BLOCK |-> 10,
         BBDEF |-> 11, BBRUN |-> 12, CONTEXT |-> 13]
Kinds == DOMAIN DG_R

\* A stack trace, a label or a definition has some number of elements; what n
\* and m count is said with each record.  A file name is shorter than out_buf.
ASSUME OutputAssumption ==
  /\ Root \in Procs
  /\ {W, Esc, LenW, MagicLen, BufSize, StackDepth, MaxIps, LabelMax, MaxRecords}
       \subseteq Nat
  /\ {W, LenW, MagicLen, LabelMax} \subseteq 1..BufSize
  /\ Records \subseteq [kind : Kinds \ {"HEADER"}, n : Nat, m : Nat]
  /\ \A r \in Records : r.kind = "TEXT_AVMA" => r.n <= BufSize
  /\ {MayFail, MayFork, MayDie} \subseteq BOOLEAN

\* The lengths that the code writes as one byte without a test are short enough:
\* those of the header, of heap blocks and of client requests.
ASSUME OneByteAssumption ==
  /\ MagicLen + 3 < Esc /\ (StackDepth + 3) * W < Esc
  /\ 2 * W + 2 * LabelMax + 2 < Esc

VARIABLES
  file,          \* the fields in the file
  out_buf,       \* process -> the fields in its buffer
  out_buf_used,  \* process -> the bytes in its buffer
  todo,          \* process -> the fields still to be emitted of its record
  status,        \* process -> "none", "init", "open", "closed", "dead"
  emitted,       \* ghost: process -> every field that went into its buffer
  wrote,         \* ghost: process -> every field it has put into the file
  nrec           \* records begun (for the bound)

vars == <<file, out_buf, out_buf_used, todo, status, emitted, wrote, nrec>>

Clamp(n, top) == IF n > top THEN top ELSE n

-----------------------------------------------------------------------------
(* Records.                                                                *)

Field(what, n, val) == [what |-> what, n |-> n, val |-> val]
Raw(n)   == Field("raw", n, 0)
Repeat(k, fields) == [i \in 1 .. k * Len(fields) |->
                       fields[((i - 1) % Len(fields)) + 1]]

out_word == <<Raw(W)>>
Type(kind)  == <<Field("type", 1, DG_R[kind])>>
Length1(n)  == <<Field("len", 1, n % (Esc + 1))>>   \* out_byte of a length

\* Mutant: the escape value itself is written as a plain length.
out_lengthLate(n) == IF n <= Esc THEN Length1(n)
                     ELSE Length1(Esc) \o <<Field("ext", LenW, n)>>

out_length(n) == IF n < Esc THEN Length1(n)
                 ELSE Length1(Esc) \o <<Field("ext", LenW, n)>>

\* n bytes of text, terminated; out_bytes of no bytes does nothing.
Text(n) == IF n = 0 THEN <<Raw(1)>> ELSE <<Raw(n), Raw(1)>>

Header == Type("HEADER") \o Length1(MagicLen + 3)
            \o <<Raw(MagicLen), Raw(1), Raw(1), Raw(1)>>

\* trace_bb_flush: n addresses.
BBRun(n) == Type("BBRUN") \o out_length(1 + (1 + n) * W)
              \o out_word \o <<Raw(1)>> \o Repeat(n, out_word)

\* trace_bb_start: a stack of ips addresses, cut to what a byte can count.
Context(ips) ==
  LET n == Clamp(ips, MaxIps)
  IN Type("CONTEXT") \o out_length(1 + (1 + n) * W)
       \o out_word \o <<Raw(1)>> \o Repeat(n, out_word)

\* dg_bbdef_flush: n instructions and m accesses.
BBDef(n, m) ==
  Type("BBDEF") \o out_length(1 + W + (1 + W) * n + 3 * m)
    \o <<Raw(1)>> \o out_word
    \o Repeat(n, out_word \o <<Raw(1)>>) \o Repeat(m, <<Raw(1), Raw(1), Raw(1)>>)

\* clean_debuginfo: a file name of n bytes.
TextAvma(n) == Type("TEXT_AVMA") \o out_length(n + W + 1) \o out_word \o Text(n)

\* out_add_block: get_StackTrace fills in at most StackDepth ips.
MallocBlock(ips) ==
  LET n == Clamp(ips, StackDepth)
  IN Type("MALLOC_BLOCK") \o Length1((n + 3) * W) \o Repeat(n + 3, out_word)

FreeBlock == Type("FREE_BLOCK") \o Length1(W) \o out_word

\* dg_handle_client_request: labels and type names are cut.
TrackRange(n, m) ==
  LET type == Clamp(n, LabelMax)
      label == Clamp(m, LabelMax)
  IN Type("TRACK_RANGE") \o Length1(2 * W + type + label + 2)
       \o out_word \o out_word \o Text(type) \o Text(label)

UntrackRange == Type("UNTRACK_RANGE") \o Length1(2 * W) \o out_word \o out_word

Event(kind, n) == LET label == Clamp(n, LabelMax)
                  IN Type(kind) \o Length1(label + 1) \o Text(label)

Fields(r) == CASE r.kind = "BBRUN" -> BBRun(r.n)
               [] r.kind = "CONTEXT" -> Context(r.n)
               [] r.kind = "BBDEF" -> BBDef(r.n, r.m)
               [] r.kind = "TEXT_AVMA" -> TextAvma(r.n)
               [] r.kind = "MALLOC_BLOCK" -> MallocBlock(r.n)
               [] r.kind = "FREE_BLOCK" -> FreeBlock
               [] r.kind = "TRACK_RANGE" -> TrackRange(r.n, r.m)
               [] r.kind = "UNTRACK_RANGE" -> UntrackRange
               [] OTHER -> Event(r.kind, r.n)

-----------------------------------------------------------------------------
(* The buffer and the file.                                                *)

Init ==
  /\ file = <<>>
  /\ out_buf = [p \in Procs |-> <<>>]
  /\ out_buf_used = [p \in Procs |-> 0]
  /\ todo = [p \in Procs |-> <<>>]
  /\ status = [p \in Procs |-> IF p = Root THEN "init" ELSE "none"]
  /\ emitted = [p \in Procs |-> <<>>] /\ wrote = [p \in Procs |-> <<>>]
  /\ nrec = 0

\* dg_post_clo_init: the file is created and the header goes to the buffer, or
\* Valgrind exits.
prepare_out_file ==
  /\ status[Root] = "init"
  /\ \/ /\ status' = [status EXCEPT ![Root] = "open"]
        /\ todo' = [todo EXCEPT ![Root] = Header]
     \/ /\ status' = [status EXCEPT ![Root] = "dead"]
        /\ UNCHANGED todo
  /\ UNCHANGED <<file, out_buf, out_buf_used, emitted, wrote, nrec>>

\* Any of the operations that write a record begins.
BeginRecord(p, r) ==
  /\ status[p] = "open" /\ todo[p] = <<>>
  /\ nrec < MaxRecords /\ nrec' = nrec + 1
  /\ todo' = [todo EXCEPT ![p] = Fields(r)]
  /\ UNCHANGED <<file, out_buf, out_buf_used, status, emitted, wrote>>

\* out_flush, whose write() writes all of the buffer or, if it may fail, only a
\* first part of it.  The code looks at neither the count nor the error.
Written(p) == IF MayFail THEN {SubSeq(out_buf[p], 1, i) : i \in 0..Len(out_buf[p])}
              ELSE {out_buf[p]}
out_flush(p) == \E w \in Written(p) : /\ file' = file \o w
                                     /\ wrote' = [wrote EXCEPT ![p] = @ \o w]

\* out_bytes flushes when the field does not fit; out_byte is the case n = 1.
\* Mutant: the buffer is flushed only when it is full already.
FullOnly(p, n) == out_buf_used[p] >= BufSize

Full(p, n) == n > BufSize - out_buf_used[p]

\* Mutants: a flush that drops the field it makes room for; a flush that leaves
\* the old fields in place.
RestartDropping(p, f) == out_buf' = [out_buf EXCEPT ![p] = <<>>]
RestartKeeping(p, f) == out_buf' = [out_buf EXCEPT ![p] = Append(@, f)]

\* The buffer after a flush made room for field f.
Restart(p, f) == out_buf' = [out_buf EXCEPT ![p] = <<f>>]

\* The next field of p's record goes to the buffer: with an out_flush first,
\* or without.
Emit(p) ==
  /\ status[p] = "open" /\ todo[p] # <<>>
  /\ LET f == Head(todo[p]) IN
       /\ IF Full(p, f.n)
            THEN /\ out_flush(p)
                 /\ Restart(p, f)
                 /\ out_buf_used' = [out_buf_used EXCEPT ![p] = f.n]
            ELSE /\ out_buf' = [out_buf EXCEPT ![p] = Append(@, f)]
                 /\ out_buf_used' = [out_buf_used EXCEPT ![p] = @ + f.n]
                 /\ UNCHANGED <<file, wrote>>
       /\ emitted' = [emitted EXCEPT ![p] = Append(@, f)]
  /\ todo' = [todo EXCEPT ![p] = Tail(@)]
  /\ UNCHANGED <<status, nrec>>

\* Mutant: the file is closed without a last flush.
FiniWithoutFlush(p) ==
  /\ status[p] = "open" /\ todo[p] = <<>>
  /\ status' = [status EXCEPT ![p] = "closed"]
  /\ UNCHANGED <<file, out_buf, out_buf_used, todo, emitted, wrote, nrec>>

\* dg_fini: the last flush, and the file is closed.  (The BBRUN it writes first
\* is a record like any other.)
dg_fini(p) ==
  /\ status[p] = "open" /\ todo[p] = <<>>
  /\ out_flush(p)
  /\ out_buf' = [out_buf EXCEPT ![p] = <<>>]
  /\ out_buf_used' = [out_buf_used EXCEPT ![p] = 0]
  /\ status' = [status EXCEPT ![p] = "closed"]
  /\ UNCHANGED <<todo, emitted, nrec>>

\* SIGKILL, an exec by the client, or a failed assertion in the tool: Datagrind
\* gets no chance to flush.
Die(p) ==
  /\ MayDie
  /\ status[p] = "open"
  /\ status' = [status EXCEPT ![p] = "dead"]
  /\ UNCHANGED <<file, out_buf, out_buf_used, todo, emitted, wrote, nrec>>

\* The client forks in a system call, between two records: the child has a copy
\* of the buffer and shares the file and its offset.
Fork(p, q) ==
  /\ MayFork
  /\ status[p] = "open" /\ todo[p] = <<>>
  /\ status[q] = "none"
  /\ status' = [status EXCEPT ![q] = "open"]
  /\ out_buf' = [out_buf EXCEPT ![q] = out_buf[p]]
  /\ out_buf_used' = [out_buf_used EXCEPT ![q] = out_buf_used[p]]
  /\ emitted' = [emitted EXCEPT ![q] = out_buf[p]]
  /\ UNCHANGED <<file, todo, wrote, nrec>>

Terminating == (\A p \in Procs : status[p] \notin {"init", "open"}) /\ UNCHANGED vars

Next == \/ prepare_out_file
        \/ \E p \in Procs : \/ \E r \in Records : BeginRecord(p, r)
                            \/ Emit(p) \/ dg_fini(p) \/ Die(p)
                            \/ \E q \in Procs : Fork(p, q)
        \/ Terminating

Spec == Init /\ [][Next]_vars

-----------------------------------------------------------------------------
(* Properties.                                                             *)

FieldType == [what : {"type", "len", "ext", "raw"}, n : 1..BufSize, val : Nat]

\* The types of the variables; out_buf_used never passes the end of out_buf.
TypeOK ==
  /\ file \in Seq(FieldType)
  /\ out_buf \in [Procs -> Seq(FieldType)]
  /\ out_buf_used \in [Procs -> 0..BufSize]
  /\ todo \in [Procs -> Seq(FieldType)]
  /\ status \in [Procs -> {"none", "init", "open", "closed", "dead"}]
  /\ emitted \in [Procs -> Seq(FieldType)] /\ wrote \in [Procs -> Seq(FieldType)]
  /\ nrec \in 0..MaxRecords

\* While every write works, nothing that went into a process's buffer is lost,
\* repeated or reordered on its way to the file, and after dg_fini all of it is
\* there.  What a forked child writes twice is what its parent had not flushed.
NothingLost ==
  /\ \A p \in Procs : /\ wrote[p] \o out_buf[p] = emitted[p]
                      /\ status[p] = "closed" => wrote[p] = emitted[p]
  /\ (\A q \in Procs \ {Root} : status[q] = "none") => file = wrote[Root]

\* How many fields of w, from its first on, are met in this order among the first k
\* fields of e.
Met(w, e) ==
  LET met[k \in 0..Len(e)] ==
        IF k = 0 THEN 0
        ELSE LET m == met[k - 1]
             IN IF m + 1 \in DOMAIN w /\ w[m + 1] = e[k] THEN m + 1 ELSE m
  IN met

\* When writes fail what a process puts into the file has gaps, but its fields are
\* still in order and none is repeated: a subsequence of what it emitted, in a
\* forked child too.
OnlyGaps ==
  \A p \in Procs : Met(wrote[p], emitted[p])[Len(emitted[p])] = Len(wrote[p])

\* How many bytes the first k fields of s take up.
Bytes(s) ==
  LET bytes[k \in 0..Len(s)] == IF k = 0 THEN 0 ELSE bytes[k - 1] + s[k].n
  IN bytes

\* Where, in bytes from its start, a reader that knows nothing of the record that
\* begins at field i of s expects it to end.
EndOf(s, i) == IF s[i + 1].val # Esc THEN 2 + s[i + 1].val
               ELSE IF i + 2 \in DOMAIN s THEN 2 + LenW + s[i + 2].val ELSE 2 + LenW

Starts(s) == {i \in DOMAIN s : s[i].what = "type"}

\* dg-manual.xml: "Each record contains enough information for the record to be
\* skipped without understanding it."  From the start of any complete record in
\* the file the length field leads to the start of the next one.
Skippable ==
  /\ file # <<>> => 1 \in Starts(file)
  /\ \A i, j \in Starts(file) :
       (i < j /\ \A k \in i + 1 .. j - 1 : k \notin Starts(file))
         => EndOf(file, i) = Bytes(file)[j - 1] - Bytes(file)[i - 1]

\* One process with a working file is a Recorder of fields.
Stage == INSTANCE Recorder WITH
           Lag <- BufSize, happened <- emitted[Root], reported <- file,
           status <- CASE status[Root] = "closed" -> "closed"
                       [] status[Root] = "dead" -> "dead" [] OTHER -> "open"
RecorderSpec == Stage!Spec
=============================================================================
