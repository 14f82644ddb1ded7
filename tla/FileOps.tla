------------------------------ MODULE FileOps -------------------------------
(***************************************************************************)
(* The exported functions that take several system calls                   *)
(* (src/exported-functions.c): readfile, writefile, truncate, touch,       *)
(* fsyncPath and probe_block_size, together with rename, link and unlink,  *)
(* which move the names under them. A pool thread runs each call, so the   *)
(* system calls of different calls interleave on the same files; nothing   *)
(* in the process orders them.                                             *)
(*                                                                         *)
(* A file is a sequence of bytes; inodes are numbered in order of          *)
(* creation, and an open descriptor names an inode, never a name. A byte   *)
(* is a small number and 0 is what a hole reads as. A base64 text is the   *)
(* sequence of its groups, each the group's three bytes, or one or two in  *)
(* a group that was padded.                                                *)
(***************************************************************************)
EXTENDS Integers, Sequences, FiniteSets, SequencesExt

CONSTANTS
  Op,          \* pool threads, each serving one call
  Calls,       \* the calls they may be asked to serve
  Names,       \* paths
  Contents,    \* what the file under a path may hold at the start
  Sizes,       \* sizes[] of probe_block_size, in order
  Accepted,    \* Accepted[d]: the sizes in which the file system of d takes direct writes
  BlockSize,   \* f_bsize, and the alignment direct I/O asks for
  IntMax,      \* the largest int
  Faults       \* system calls that may fail

ASSUME ConstantsAssumption ==
  /\ IsFiniteSet(Op) /\ IsFiniteSet(Names)
  /\ BlockSize \in Nat \ {0} /\ IntMax \in Nat \ {0}
  /\ Contents \subseteq Seq(Nat)
  /\ Sizes \in Seq(Nat)
  /\ Faults \subseteq {"open",      \* open() for a reason other than the name
                       "setup",     \* fstat(), fstatvfs() or an allocation of readfile
                       "memalign",  \* posix_memalign() elsewhere
                       "read", "write", "fsync", "ftruncate", "futimens",
                       "name",      \* rename(), link() or unlink() of a request
                       "unlink"}    \* unlink() of a probe file

\* What safeGetArgValues() has extracted for each function; a text to write is base64.
ASSUME CallsAssumption ==
  \A c \in Calls :
    /\ c.fn \in {"readfile", "writefile", "truncate", "touch", "fsyncPath", "rename", "link",
                 "unlink", "probe_block_size"}
    /\ c.fn # "probe_block_size" => c.path \in Names
    /\ c.fn = "probe_block_size" => Accepted[c.dir] \subseteq Range(Sizes)
    /\ c.fn \in {"readfile", "writefile"} => c.direct \in BOOLEAN
    /\ c.fn = "writefile" => c.data \in Seq(Seq(Nat))
    /\ c.fn = "truncate" => c.size \in Nat /\ c.excl \in BOOLEAN
    /\ c.fn = "touch" => c.flags \subseteq {"creat", "excl", "trunc"}
    /\ c.fn \in {"rename", "link"} => c.newpath \in Names

VARIABLES
  dir,         \* dir[p]: the inode p names, 0 for none
  data,        \* data[i]: the bytes of inode i
  disk,        \* disk[i]: the bytes of inode i a power failure leaves
  probe,       \* probe[o]: o's probe file, "none", "made" or "stuck" (unlink() failed)
  call,        \* call[o]: what o serves
  pc,          \* pc[o]: the next system call of o
  fd,          \* fd[o]: the inode o has open, 0 for none
  n,           \* n[o]: total_rd, bwritten or the index into sizes[]
  st_size,     \* st_size[o]: the size fstat() reported
  b64str,      \* b64str[o]: the text encoded so far
  b64Save,     \* b64Save[o]: the bytes encode_step() holds back
  res,         \* res[o]: "none", or the errcode of the response: "ok", "EINVAL" where
               \* direct I/O is refused, "EIO" where a system call failed at
               \* random, "error" for any other
  disturbed    \* history: o has had its open file changed by another thread

fsVars    == <<dir, data, disk, probe>>
readVars  == <<st_size, b64str, b64Save>>
vars == <<dir, data, disk, probe, call, pc, fd, n, st_size, b64str, b64Save, res, disturbed>>

NoCall == [fn |-> "none"]
Inodes == DOMAIN data

Init ==
  /\ \E p \in Names, c \in Contents :
       \/ dir = [q \in Names |-> IF q = p THEN 1 ELSE 0] /\ data = <<c>>
       \/ dir = [q \in Names |-> 0] /\ data = <<>>
  /\ disk = data
  /\ probe = [o \in Op |-> "none"]
  /\ call = [o \in Op |-> NoCall]
  /\ pc = [o \in Op |-> "idle"]
  /\ fd = [o \in Op |-> 0]
  /\ n = [o \in Op |-> 0]
  /\ st_size = [o \in Op |-> 0]
  /\ b64str = [o \in Op |-> <<>>]
  /\ b64Save = [o \in Op |-> <<>>]
  /\ res = [o \in Op |-> "none"]
  /\ disturbed = [o \in Op |-> FALSE]

-----------------------------------------------------------------------------
(* Bytes and base64 *)

\* SetLength(d, k) is d cut or filled with zeros to k bytes.
SetLength(d, k) == [j \in 1..k |-> IF j <= Len(d) THEN d[j] ELSE 0]

\* Overlay(d, at, s) is d after s was written at offset at.
Overlay(d, at, s) ==
  [j \in 1..(IF Len(d) > at + Len(s) THEN Len(d) ELSE at + Len(s)) |->
     IF j \in at + 1..at + Len(s) THEN s[j - at]
     ELSE IF j <= Len(d) THEN d[j] ELSE 0]

\* The groups of three that s fills, and what is left of it.
FullGroups(s) == [g \in 1..Len(s) \div 3 |-> SubSeq(s, 3 * g - 2, 3 * g)]
Rest(s) == SubSeq(s, 3 * (Len(s) \div 3) + 1, Len(s))

\* g_base64_decode(), and b64decode() of the client.
Decode(text) == FlattenSeq(text)

\* Only the last group of a text may be padded.
WellFormed(text) == \A g \in 1..Len(text) - 1 : Len(text[g]) = 3

\* A sum stored in an int.
AsInt(k) == ((k + IntMax + 1) % (2 * (IntMax + 1))) - (IntMax + 1)

-----------------------------------------------------------------------------
(* System calls, and the end of a call *)

\* o changes the bytes of inode i to d.
Modify(o, i, d) ==
  /\ data' = [data EXCEPT ![i] = d]
  /\ disturbed' = [q \in Op |-> disturbed[q] \/ (q # o /\ fd[q] = i)]

\* o's call reports r. All paths of a function lead through the close() of its clean-up, which
\* nobody else sees: it is part of this step, and no property is about it.
Return(o, r) ==
  /\ pc' = [pc EXCEPT ![o] = "returned"]
  /\ res' = [res EXCEPT ![o] = r]
  /\ fd' = [fd EXCEPT ![o] = 0]

Goto(o, where) == pc' = [pc EXCEPT ![o] = where] /\ UNCHANGED <<res, fd>>

\* open() with these flags; a call that gets a descriptor goes on to next.
Open(o, flags, next) ==
  LET p == call[o].path
      Opened(i) == /\ fd' = [fd EXCEPT ![o] = i]
                   /\ pc' = [pc EXCEPT ![o] = next]
                   /\ UNCHANGED res
  IN /\ \/ /\ dir[p] # 0 /\ "excl" \notin flags
           /\ Opened(dir[p])
           /\ IF "trunc" \in flags THEN Modify(o, dir[p], <<>>)
                                   ELSE UNCHANGED <<data, disturbed>>
           /\ UNCHANGED <<dir, disk>>
        \/ /\ dir[p] = 0 /\ "creat" \in flags
           /\ data' = Append(data, <<>>) /\ disk' = Append(disk, <<>>)
           /\ dir' = [dir EXCEPT ![p] = Len(data')]
           /\ Opened(Len(data'))
           /\ UNCHANGED disturbed
        \/ /\ \/ dir[p] # 0 /\ "excl" \in flags /\ Return(o, "error")
              \/ dir[p] = 0 /\ "creat" \notin flags /\ Return(o, "error")
              \/ "open" \in Faults /\ Return(o, "EIO")
           /\ UNCHANGED <<dir, data, disk, disturbed>>
     /\ UNCHANGED <<probe, call, n, readVars>>

\* A system call of o fails, and the call with it.
Fails(o, fault) ==
  /\ fault \in Faults
  /\ Return(o, "EIO")
  /\ UNCHANGED <<fsVars, call, n, readVars, disturbed>>

\* A request arrives.
Start(o) ==
  /\ pc[o] = "idle"
  /\ \E c \in Calls : call' = [call EXCEPT ![o] = c]
  /\ Goto(o, "open")
  /\ UNCHANGED <<fsVars, n, readVars, disturbed>>

At(o, fn, where) == call[o].fn = fn /\ pc[o] = where

-----------------------------------------------------------------------------
(* readfile *)

\* The calls that read are made with O_DIRECT or without.
Direct(o) == call[o].direct

\* The offset of o's descriptor while it reads.
Offset(o) == Len(Decode(b64str[o])) + Len(b64Save[o])

ReadOpen(o) == At(o, "readfile", "open") /\ Open(o, {}, "fstat")

\* fstat(), fstatvfs() and the two buffers.
ReadStat(o) ==
  /\ At(o, "readfile", "fstat")
  /\ \/ /\ st_size' = [st_size EXCEPT ![o] = Len(data[fd[o]])]
        /\ Goto(o, "read")
        /\ UNCHANGED <<fsVars, call, n, b64str, b64Save, disturbed>>
     \/ Fails(o, "setup")

\* The bytes read() may return: some of what is left, all of it but for the block size
\* when the read is direct, none at the end of the file.
Readable(o) ==
  LET left == Len(data[fd[o]]) - Offset(o)
      most == IF left < BlockSize THEN left ELSE BlockSize
  IN IF left <= 0 THEN {0} ELSE IF Direct(o) THEN {most} ELSE 1..most

\* g_base64_encode_step() of the bytes s.
EncodeStep(o, s) ==
  LET all == b64Save[o] \o s
  IN /\ b64str' = [b64str EXCEPT ![o] = @ \o FullGroups(all)]
     /\ b64Save' = [b64Save EXCEPT ![o] = Rest(all)]

\* A bug: the loop reads on at the end of the file.
Mutant_MoreToRead(o) == n[o] <= st_size[o]

\* The condition of the loop.
MoreToRead(o) == n[o] < st_size[o]

\* A bug: a read is taken to have filled the buffer.
Mutant_CountRead(o, rd) == n' = [n EXCEPT ![o] = AsInt(@ + BlockSize)]

CountRead(o, rd) == n' = [n EXCEPT ![o] = AsInt(@ + rd)]

\* One turn of the loop. A direct read from an offset that is not aligned is EINVAL.
ReadLoop(o) ==
  /\ At(o, "readfile", "read") /\ MoreToRead(o)
  /\ \/ /\ Direct(o) => Offset(o) % BlockSize = 0
        /\ \E rd \in Readable(o) :
             /\ EncodeStep(o, SubSeq(data[fd[o]], Offset(o) + 1, Offset(o) + rd))
             /\ CountRead(o, rd)
        /\ UNCHANGED <<fsVars, call, pc, fd, st_size, res, disturbed>>
     \/ /\ Direct(o) /\ Offset(o) % BlockSize # 0
        /\ Return(o, "EINVAL")
        /\ UNCHANGED <<fsVars, call, n, readVars, disturbed>>
     \/ Fails(o, "read")

\* g_base64_encode_close() pads and adds the bytes held back.
ReadEnd(o) ==
  /\ At(o, "readfile", "read") /\ ~MoreToRead(o)
  /\ b64str' = [b64str EXCEPT ![o] =
                  IF n[o] > 0 /\ b64Save[o] # <<>> THEN Append(@, b64Save[o]) ELSE @]
  /\ b64Save' = [b64Save EXCEPT ![o] = <<>>]
  /\ Return(o, "ok")
  /\ UNCHANGED <<fsVars, call, n, st_size, disturbed>>

-----------------------------------------------------------------------------
(* writefile *)

Payload(o) == Decode(call[o].data)

WriteOpen(o) == At(o, "writefile", "open") /\ Open(o, {"creat", "trunc"}, "prepare")

\* The aligned copy of the data. When it cannot be allocated the code reports errno, which
\* posix_memalign() has not set: the thread's errno may still be 0, and a response whose
\* errcode is 0 is a success.
WritePrepare(o) ==
  /\ At(o, "writefile", "prepare")
  /\ \/ Goto(o, "write")
     \/ /\ Direct(o) /\ "memalign" \in Faults
        /\ \E r \in {"ok", "error"} : Return(o, r)
  /\ UNCHANGED <<fsVars, call, n, readVars, disturbed>>

\* The bytes write() may take of the ones that are left.
Writable(o) ==
  LET left == Len(Payload(o)) - n[o]
  IN IF Direct(o) THEN {k \in 1..left : k % BlockSize = 0} ELSE 1..left

\* A bug: a short write is taken for a complete one.
Mutant_CountWritten(o, rv) == n' = [n EXCEPT ![o] = Len(Payload(o))]

CountWritten(o, rv) == n' = [n EXCEPT ![o] = @ + rv]

\* One turn of the loop. A direct write of a length that is not aligned is EINVAL.
WriteLoop(o) ==
  /\ At(o, "writefile", "write") /\ n[o] < Len(Payload(o))
  /\ \/ /\ Direct(o) => (Len(Payload(o)) - n[o]) % BlockSize = 0
        /\ \E rv \in Writable(o) :
             /\ Modify(o, fd[o], Overlay(data[fd[o]], n[o], SubSeq(Payload(o), n[o] + 1, n[o] + rv)))
             /\ CountWritten(o, rv)
        /\ UNCHANGED <<dir, disk, probe, call, pc, fd, readVars, res>>
     \/ /\ Direct(o) /\ (Len(Payload(o)) - n[o]) % BlockSize # 0
        /\ Return(o, "EINVAL")
        /\ UNCHANGED <<fsVars, call, n, readVars, disturbed>>
     \/ Fails(o, "write")

\* fsync() by o, and the end of its call.
Sync(o) ==
  \/ /\ disk' = [disk EXCEPT ![fd[o]] = data[fd[o]]]
     /\ Return(o, "ok")
     /\ UNCHANGED <<dir, data, probe, call, n, readVars, disturbed>>
  \/ Fails(o, "fsync")

WriteSync(o) ==
  /\ At(o, "writefile", "write") /\ n[o] = Len(Payload(o))
  /\ Sync(o)

-----------------------------------------------------------------------------
(* truncate, touch, fsyncPath *)

TruncateOpen(o) ==
  /\ At(o, "truncate", "open")
  /\ Open(o, {"creat"} \cup (IF call[o].excl THEN {"excl"} ELSE {}), "ftruncate")

Ftruncate(o) ==
  /\ At(o, "truncate", "ftruncate")
  /\ \/ /\ Modify(o, fd[o], SetLength(data[fd[o]], call[o].size))
        /\ Return(o, "ok")
        /\ UNCHANGED <<dir, disk, probe, call, n, readVars>>
     \/ Fails(o, "ftruncate")

\* The flags of the request are added to the ones of the function.
TouchOpen(o) == At(o, "touch", "open") /\ Open(o, {"creat"} \cup call[o].flags, "futimens")

Futimens(o) ==
  /\ At(o, "touch", "futimens")
  /\ \/ /\ Return(o, "ok")
        /\ UNCHANGED <<fsVars, call, n, readVars, disturbed>>
     \/ Fails(o, "futimens")

FsyncOpen(o) == At(o, "fsyncPath", "open") /\ Open(o, {}, "fsync")
FsyncPath(o) == At(o, "fsyncPath", "fsync") /\ Sync(o)

-----------------------------------------------------------------------------
(* rename, link, unlink: one system call on the names; who has the file open keeps it *)

\* A call on the names that is made when ok, and leaves dir as d, unless it fails for
\* another reason (EACCES, EROFS, ...).
NameCall(o, ok, d) ==
  \/ /\ IF ok THEN dir' = d /\ Return(o, "ok") ELSE UNCHANGED dir /\ Return(o, "error")
     /\ UNCHANGED <<data, disk, probe, call, n, readVars, disturbed>>
  \/ Fails(o, "name")

RenameCall(o) ==
  LET old == call[o].path
      new == call[o].newpath
  IN /\ At(o, "rename", "open")
     /\ NameCall(o, dir[old] # 0,
                 IF dir[old] = dir[new] THEN dir
                 ELSE [dir EXCEPT ![new] = dir[old], ![old] = 0])

LinkCall(o) ==
  LET old == call[o].path
      new == call[o].newpath
  IN /\ At(o, "link", "open")
     /\ NameCall(o, dir[old] # 0 /\ dir[new] = 0, [dir EXCEPT ![new] = dir[old]])

UnlinkCall(o) ==
  /\ At(o, "unlink", "open")
  /\ NameCall(o, dir[call[o].path] # 0, [dir EXCEPT ![call[o].path] = 0])

-----------------------------------------------------------------------------
(* probe_block_size: n is the index of the size being tried, Len(Sizes) + 1 when all were   *)
(* refused, 0 when the probe failed otherwise                                              *)

ProbeResult(o) == IF n[o] = 0 THEN "error" ELSE IF n[o] > Len(Sizes) THEN "EINVAL" ELSE "ok"

\* The sizes in which the file system of o's directory takes direct writes.
Takes(o) == Accepted[call[o].dir]

\* create_probe(): the name holds a new uuid, so the file is the thread's own. A file system
\* without direct I/O may already refuse to open it.
CreateProbe(o) ==
  /\ At(o, "probe_block_size", "open")
  /\ \/ /\ probe' = [probe EXCEPT ![o] = "made"]
        /\ Goto(o, "memalign")
        /\ UNCHANGED <<dir, data, disk, call, n, readVars, disturbed>>
     \/ /\ Takes(o) = {}
        /\ Return(o, "EINVAL")
        /\ UNCHANGED <<fsVars, call, n, readVars, disturbed>>
     \/ Fails(o, "open")

ProbeBuffer(o) ==
  /\ At(o, "probe_block_size", "memalign")
  /\ \/ /\ n' = [n EXCEPT ![o] = 1]
        /\ Goto(o, "pwrite")
     \/ /\ "memalign" \in Faults
        /\ Goto(o, "delete")
        /\ UNCHANGED n
  /\ UNCHANGED <<fsVars, call, readVars, disturbed>>

\* A bug: an error other than EINVAL does not end the probe.
Mutant_ProbeError(o) == n' = [n EXCEPT ![o] = @ + 1] /\ UNCHANGED <<pc, res, fd>>

\* "Unexpected error, bail out."
ProbeError(o) == n' = [n EXCEPT ![o] = 0] /\ Goto(o, "delete")

\* One turn of the loop: the size is good, is refused with EINVAL, or the write fails.
ProbeWrite(o) ==
  /\ At(o, "probe_block_size", "pwrite")
  /\ \/ /\ n[o] <= Len(Sizes) /\ Sizes[n[o]] \in Takes(o)
        /\ Goto(o, "delete")
        /\ UNCHANGED n
     \/ /\ n[o] <= Len(Sizes) /\ Sizes[n[o]] \notin Takes(o)
        /\ n' = [n EXCEPT ![o] = @ + 1]
        /\ UNCHANGED <<pc, res, fd>>
     \/ /\ n[o] <= Len(Sizes) /\ "write" \in Faults
        /\ ProbeError(o)
     \/ /\ n[o] > Len(Sizes)
        /\ Goto(o, "delete")
        /\ UNCHANGED n
  /\ UNCHANGED <<fsVars, call, readVars, disturbed>>

\* A bug: the file is only deleted when the probe succeeded.
Mutant_DeleteProbe(o) ==
  /\ At(o, "probe_block_size", "delete")
  /\ Return(o, ProbeResult(o))
  /\ IF ProbeResult(o) # "ok" THEN UNCHANGED probe ELSE probe' = [probe EXCEPT ![o] = "none"]
  /\ UNCHANGED <<dir, data, disk, call, n, readVars, disturbed>>

\* delete_probe(): a failure does not fail the operation.
DeleteProbe(o) ==
  /\ At(o, "probe_block_size", "delete")
  /\ Return(o, ProbeResult(o))
  /\ \/ probe' = [probe EXCEPT ![o] = "none"]
     \/ "unlink" \in Faults /\ probe' = [probe EXCEPT ![o] = "stuck"]
  /\ UNCHANGED <<dir, data, disk, call, n, readVars, disturbed>>

-----------------------------------------------------------------------------
Step(o) ==
  \/ ReadOpen(o) \/ ReadStat(o) \/ ReadLoop(o) \/ ReadEnd(o)
  \/ WriteOpen(o) \/ WritePrepare(o) \/ WriteLoop(o) \/ WriteSync(o)
  \/ TruncateOpen(o) \/ Ftruncate(o) \/ TouchOpen(o) \/ Futimens(o)
  \/ FsyncOpen(o) \/ FsyncPath(o)
  \/ RenameCall(o) \/ LinkCall(o) \/ UnlinkCall(o)
  \/ CreateProbe(o) \/ ProbeBuffer(o) \/ ProbeWrite(o) \/ DeleteProbe(o)

\* Every call has returned.
Quiet == (\A o \in Op : pc[o] = "returned") /\ UNCHANGED vars

Next == (\E o \in Op : Start(o) \/ Step(o)) \/ Quiet

Spec == Init /\ [][Next]_vars

\* A pool thread that has begun a call is scheduled, and its system calls return: storage
\* that hangs is the subject of Server. No call may count on a failure to end it.
FairSpec == Spec /\ \A o \in Op : WF_vars(Step(o) /\ res'[o] # "EIO")

-----------------------------------------------------------------------------
(* Properties *)

\* The file system and the calls are well formed: the bytes encode_step() holds back are less
\* than a group, and only the last group of a text may be padded.
TypeOK ==
  /\ data \in Seq(Seq(Nat)) /\ disk \in Seq(Seq(Nat)) /\ Len(disk) = Len(data)
  /\ dir \in [Names -> Inodes \cup {0}]
  /\ fd \in [Op -> Inodes \cup {0}]
  /\ probe \in [Op -> {"none", "made", "stuck"}]
  /\ call \in [Op -> Calls \cup {NoCall}]
  /\ pc \in [Op -> {"idle", "open", "fstat", "read", "prepare", "write", "ftruncate",
                    "futimens", "fsync", "memalign", "pwrite", "delete", "returned"}]
  /\ n \in [Op -> Int]
  /\ st_size \in [Op -> Nat]
  /\ b64str \in [Op -> Seq(Seq(Nat))] /\ b64Save \in [Op -> Seq(Nat)]
  /\ \A o \in Op : Len(b64Save[o]) < 3 /\ WellFormed(b64str[o])
  /\ res \in [Op -> {"none", "ok", "error", "EINVAL", "EIO"}]
  /\ disturbed \in [Op -> BOOLEAN]

-----------------------------------------------------------------------------
(* The inductive invariant *)

\* The function a stage belongs to.
StageOf(where) ==
  CASE where \in {"fstat", "read"} -> "readfile"
    [] where \in {"prepare", "write"} -> "writefile"
    [] where = "ftruncate" -> "truncate"
    [] where = "futimens" -> "touch"
    [] where = "fsync" -> "fsyncPath"
    [] where \in {"memalign", "pwrite", "delete"} -> "probe_block_size"

\* A call holds a descriptor, or a probe file, exactly in the stages between making it and
\* returning, and has an answer exactly when it has returned.
StageInv(o) ==
  /\ (pc[o] = "idle") = (call[o] = NoCall)
  /\ pc[o] \in {"idle", "open", "returned"} \/ call[o].fn = StageOf(pc[o])
  /\ (res[o] = "none") = (pc[o] # "returned")
  /\ (fd[o] = 0) = (pc[o] \in {"idle", "open", "memalign", "pwrite", "delete", "returned"})
  /\ (probe[o] = "made") = (pc[o] \in {"memalign", "pwrite", "delete"})
  /\ pc[o] \in {"idle", "open", "fstat", "prepare", "memalign"} => n[o] = 0
  /\ pc[o] \in {"idle", "open"} => ~disturbed[o]

\* The sizes before k are refused.
Refused(o, k) == \A i \in 1..k - 1 : Sizes[i] \notin Takes(o)

ProbeInv(o) ==
  /\ pc[o] = "pwrite" => n[o] \in 1..Len(Sizes) + 1 /\ Refused(o, n[o])
  /\ pc[o] = "delete" =>
       /\ n[o] \in 0..Len(Sizes) + 1 /\ Refused(o, n[o])
       /\ n[o] \in 1..Len(Sizes) => Sizes[n[o]] \in Takes(o)
  /\ pc[o] = "returned" /\ call[o].fn = "probe_block_size" =>
       /\ res[o] = "ok" =>
            n[o] \in 1..Len(Sizes) /\ Sizes[n[o]] \in Takes(o) /\ Refused(o, n[o])
       /\ res[o] = "EINVAL" => Takes(o) = {}

\* What o has read so far.
ReadSoFar(o) == Decode(b64str[o]) \o b64Save[o]

\* The state of the loop of readfile. total_rd is the offset, or less once it has wrapped; it
\* has not wrapped if a block more than the file still fits an int. Of a file that nobody
\* changes, what was read is the file up to the offset, and a direct read has left the
\* alignment only at its end.
LoopInv(o) ==
  /\ \A g \in DOMAIN b64str[o] : Len(b64str[o][g]) = 3
  /\ n[o] \in -(IntMax + 1)..IntMax /\ n[o] <= Offset(o)
  /\ st_size[o] = 0 => n[o] = 0 /\ b64Save[o] = <<>>
  /\ st_size[o] + BlockSize <= IntMax + 1 => n[o] = Offset(o) /\ n[o] < st_size[o] + BlockSize
  /\ ~disturbed[o] =>
       /\ st_size[o] = Len(data[fd[o]])
       /\ ReadSoFar(o) = SubSeq(data[fd[o]], 1, Offset(o))
       /\ Offset(o) <= st_size[o]
       /\ st_size[o] <= IntMax => n[o] = Offset(o)
       /\ Direct(o) => Offset(o) % BlockSize = 0 \/ Offset(o) = st_size[o]

ReadInv(o) ==
  /\ pc[o] \in {"idle", "open", "fstat"} =>
       b64str[o] = <<>> /\ b64Save[o] = <<>> /\ st_size[o] = 0
  /\ pc[o] = "read" => LoopInv(o)
  /\ pc[o] = "returned" /\ call[o].fn = "readfile" =>
       /\ res[o] = "ok" =>
            /\ Len(Decode(b64str[o])) >= st_size[o]
            /\ st_size[o] + BlockSize <= IntMax + 1 =>
                 Len(Decode(b64str[o])) < st_size[o] + BlockSize
       /\ res[o] = "EINVAL" => disturbed[o] \/ st_size[o] > IntMax

\* A file that only o writes holds what o has written.
WriteInv(o) ==
  /\ pc[o] = "prepare" /\ ~disturbed[o] => data[fd[o]] = <<>>
  /\ pc[o] = "write" =>
       /\ n[o] \in 0..Len(Payload(o))
       /\ ~disturbed[o] => data[fd[o]] = SubSeq(Payload(o), 1, n[o])

CallInv(o) == StageInv(o) /\ ProbeInv(o) /\ ReadInv(o) /\ WriteInv(o)

FileInv == TypeOK /\ \A o \in Op : CallInv(o)

-----------------------------------------------------------------------------
(* What the functions promise *)

\* In this step readfile or writefile of o returns from its loop, successfully.
Succeeds(o, where) == pc[o] = where /\ res[o] = "none" /\ res'[o] = "ok"

\* What readfile returns decodes to the bytes of the file it opened, in order and complete,
\* whatever short reads the loop met and wherever the chunks fell between the groups of
\* the encoding, if no other thread changed that file in between. Renaming, replacing or
\* removing the name meanwhile makes no difference.
ReadIsSnapshot ==
  [][\A o \in Op : At(o, "readfile", "read") /\ Succeeds(o, "read") /\ ~disturbed[o] =>
       Decode(b64str'[o]) = data[fd[o]]]_vars

\* Even of a file that other threads change, a successful readfile returns a well-formed
\* text of at least the size fstat() saw and, unless total_rd can wrap, less than a block more.
\* "Once we reached to the end of an unaligned file, the next read will fail with EINVAL":
\* readfile makes no such read unless another thread changed the file, or the file is longer
\* than an int can count. The inductive invariant holds too.
ReadBounded ==
  /\ FileInv
  /\ \A o \in Op : call[o].fn = "readfile" /\ res[o] = "ok" =>
       /\ WellFormed(b64str[o])
       /\ Len(Decode(b64str[o])) >= st_size[o]
       /\ st_size[o] + BlockSize <= IntMax + 1 =>
            Len(Decode(b64str[o])) < st_size[o] + BlockSize
  /\ \A o \in Op : call[o].fn = "readfile" /\ res[o] = "EINVAL" =>
       disturbed[o] \/ st_size[o] > IntMax

\* When writefile reports success after its loop, the file it opened holds the data of the
\* request, in full and on disk, unless another thread changed the file in between; by then
\* the name may already be another file's.
WriteComplete ==
  [][\A o \in Op : At(o, "writefile", "write") /\ Succeeds(o, "write") /\ ~disturbed[o] =>
       data'[fd[o]] = Payload(o) /\ disk'[fd[o]] = Payload(o)]_vars

\* A probe that succeeds reports the smallest size the file system takes, and only a file
\* system that takes none is reported as one without direct I/O.
ProbeHonest ==
  \A o \in Op : call[o].fn = "probe_block_size" =>
    /\ res[o] = "ok" => /\ Sizes[n[o]] \in Takes(o)
                        /\ \A i \in 1..n[o] - 1 : Sizes[i] \notin Takes(o)
    /\ res[o] = "EINVAL" => Takes(o) = {}

\* A call that has returned has left a probe file behind only if unlink() failed: wherever
\* the probe ended, delete_probe() has run.
NothingLeft == \A o \in Op : pc[o] = "returned" => probe[o] # "made"

\* What keeps the loop of readfile from ending: the file is now shorter than fstat() said,
\* so that read() returns 0 for ever, or total_rd can pass the largest int.
Spins(o) ==
  /\ At(o, "readfile", "read")
  /\ Len(data[fd[o]]) < st_size[o] \/ st_size[o] + BlockSize > IntMax + 1

\* Every call that was begun returns, but for the two cases above.
CallReturns == \A o \in Op : pc[o] # "idle" ~> pc[o] = "returned" \/ Spins(o)

=============================================================================
