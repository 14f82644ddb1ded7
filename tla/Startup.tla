------------------------------- MODULE Startup ------------------------------
(***************************************************************************)
(* What main() does before and while it serves requests: it checks the     *)
(* options, closes the descriptors it inherited and does not need, and     *)
(* counts slots in a gint that starts at the sum of two options.           *)
(*                                                                         *)
(* A gint is modelled with the width of MaxInt; the compiled sum and the   *)
(* atomic operations wrap around.                                          *)
(***************************************************************************)
EXTENDS Integers, FiniteSets, FiniteSetsExt

CONSTANTS
  MaxFd,      \* bound: the largest inherited descriptor, stderr or a later one
  MaxInt,     \* G_MAXINT
  PipeFds,    \* the values given for --read-pipe-fd and --write-pipe-fd, -1 for none
  Limits,     \* the values given for --max-threads and --max-queued-requests
  BatchSize,  \* entries of the directory the C library reads at once
  StartFaults \* a subset of {"open", "fdopendir", "close"}

ASSUME StartAssumption ==
  /\ MaxFd \in Nat /\ MaxFd >= 2 /\ MaxInt \in Nat /\ BatchSize \in Nat \ {0}
  /\ PipeFds \subseteq -1..MaxFd /\ Limits \subseteq -1..MaxInt
  /\ StartFaults \subseteq {"open", "fdopendir", "close"}

VARIABLES
  opts,       \* the options
  inherited,  \* the descriptors the process started with
  open,       \* the open descriptors
  dfd,        \* the descriptor of /proc/self/fd, -1 while it is not open
  batch,      \* entries that were read and not yet seen
  pos,        \* the position in the directory: every entry up to it was read
  slots,      \* queueSlotsLeft
  admitted,   \* history: the requests that hold a slot
  pc          \* "parse", "opendir", "scan", "handle", "serve", "exit"

startVars == <<opts, inherited, open, dfd, batch, pos, slots, admitted, pc>>
fdVars == <<opts, inherited, open, dfd, batch, pos>>

Fds == 0..MaxFd
Options == [readPipe : PipeFds, writePipe : PipeFds, maxThreads : Limits, maxQueued : Limits,
            keepFds : BOOLEAN]

\* A pipe that is named was passed on, and so was stderr.
StartInit ==
  /\ opts \in Options
  /\ \E rest \in SUBSET Fds :
       inherited = (rest \cup {2, opts.readPipe, opts.writePipe}) \ {-1}
  /\ open = inherited /\ dfd = -1 /\ batch = {} /\ pos = -1
  /\ slots = 0 /\ admitted = 0 /\ pc = "parse"

-----------------------------------------------------------------------------
(* parseCmdLine() *)

OptionsAccepted ==
  /\ opts.readPipe >= 0 /\ opts.writePipe >= 0
  /\ opts.maxThreads >= 0
  /\ ~(opts.maxQueued >= 0 /\ opts.maxThreads = 0)

ParseCmdLine ==
  /\ pc = "parse"
  /\ pc' = IF ~OptionsAccepted THEN "exit" ELSE IF opts.keepFds THEN "handle" ELSE "opendir"
  /\ UNCHANGED <<fdVars, slots, admitted>>

-----------------------------------------------------------------------------
(* closeUnrelatedFDs() *)

\* A bug: the list is filled before the options are known, and its first -1 ends it.
Mutant_whitelist == {1, 2}

whitelist == {1, 2, opts.readPipe, opts.writePipe}

\* open() takes the lowest free number. After a failure main() returns.
OpenDir ==
  /\ pc = "opendir"
  /\ \/ /\ dfd' = Min(0..(MaxFd + 1) \ open)
        /\ open' = open \cup {dfd'}
        /\ pc' = "scan"
     \/ "open" \in StartFaults /\ pc' = "exit" /\ UNCHANGED <<open, dfd>>
     \/ /\ "fdopendir" \in StartFaults /\ pc' = "exit"
        /\ dfd' = Min(0..(MaxFd + 1) \ open) /\ open' = open \cup {dfd'}
  /\ UNCHANGED <<opts, inherited, batch, pos, slots, admitted>>

Unread == {f \in open : f > pos}

\* readdir() finds its buffer empty: the descriptors above pos that are open now, in ascending
\* order, as many as fit. Without its own descriptor it finds nothing.
ReadBatch ==
  /\ pc = "scan" /\ batch = {} /\ dfd \in open /\ Unread # {}
  /\ batch' = {f \in Unread : Cardinality({g \in Unread : g < f}) < BatchSize}
  /\ pos' = Max(batch')
  /\ UNCHANGED <<opts, inherited, open, dfd, slots, admitted, pc>>

Keeps(f) == f = dfd \/ f \in whitelist

\* One turn of the loop. A descriptor that is not open any more is passed over; at any other
\* error of close() the function returns and so does main().
NextEntry ==
  /\ pc = "scan" /\ batch # {}
  /\ LET f == Min(batch) IN
       /\ batch' = batch \ {f}
       /\ \/ Keeps(f) /\ UNCHANGED <<open, pc>>
          \/ ~Keeps(f) /\ open' = open \ {f} /\ UNCHANGED pc
          \/ ~Keeps(f) /\ "close" \in StartFaults /\ pc' = "exit" /\ UNCHANGED open
  /\ UNCHANGED <<opts, inherited, dfd, pos, slots, admitted>>

\* closedir(); communicate() starts the threads.
EndOfDir ==
  /\ pc = "scan" /\ batch = {} /\ (dfd \notin open \/ Unread = {})
  /\ open' = open \ {dfd} /\ dfd' = -1
  /\ pc' = "handle"
  /\ UNCHANGED <<opts, inherited, batch, pos, slots, admitted>>

-----------------------------------------------------------------------------
(* The slots of requestHandler() and servRequest() *)

\* A bug: a sum that is too large is cut at G_MAXINT.
Mutant_gint(x) == IF x > MaxInt THEN MaxInt ELSE x

\* The value of a gint after an operation whose exact result is x.
gint(x) == ((x + MaxInt + 1) % (2 * (MaxInt + 1))) - MaxInt - 1

HandlerStart ==
  /\ pc = "handle"
  /\ slots' = gint(gint(opts.maxThreads + opts.maxQueued) + 1)
  /\ pc' = "serve"
  /\ UNCHANGED <<fdVars, admitted>>

Bounded == opts.maxQueued >= 0

\* g_atomic_int_dec_and_test() finds no slot: the request is turned away.
Full == gint(slots - 1) = 0

Admit ==
  /\ pc = "serve" /\ Bounded /\ ~Full
  /\ slots' = gint(slots - 1) /\ admitted' = admitted + 1
  /\ UNCHANGED <<fdVars, pc>>

Release ==
  /\ pc = "serve" /\ Bounded /\ admitted > 0
  /\ slots' = gint(slots + 1) /\ admitted' = admitted - 1
  /\ UNCHANGED <<fdVars, pc>>

StartNext == ParseCmdLine \/ OpenDir \/ ReadBatch \/ NextEntry \/ EndOfDir \/ HandlerStart
             \/ Admit \/ Release

StartSpec == StartInit /\ [][StartNext]_startVars

-----------------------------------------------------------------------------
(* Properties *)

\* Every variable holds what the code keeps in it; the slots fit a gint, and the
\* directory is open as long as it is read.
StartTypeOK ==
  /\ opts \in Options /\ inherited \subseteq Fds
  /\ open \subseteq 0..(MaxFd + 1) /\ batch \subseteq 0..(MaxFd + 1)
  /\ dfd \in -1..(MaxFd + 1) /\ pos \in -1..(MaxFd + 1)
  /\ slots \in -(MaxInt + 1)..MaxInt /\ admitted \in Nat
  /\ pc \in {"parse", "opendir", "scan", "handle", "serve", "exit"}
  /\ pc = "scan" => dfd \in open

\* While the directory is read, every descriptor the reading has passed is in the batch or
\* kept, nothing that is needed was closed, and the only new one is the directory's own.
ScanInv ==
  /\ pc \in {"parse", "opendir"} => open = inherited /\ dfd = -1 /\ batch = {} /\ pos = -1
  /\ pc = "opendir" => ~opts.keepFds
  /\ pc = "scan" =>
       /\ ~opts.keepFds
       /\ dfd \in open /\ dfd \notin inherited
       /\ open \subseteq inherited \cup {dfd} /\ inherited \cap whitelist \subseteq open
       /\ \A f \in open : f > pos \/ f \in batch \/ Keeps(f)
  /\ pc \in {"handle", "serve"} =>
       open = IF opts.keepFds THEN inherited ELSE inherited \cap whitelist

\* Modulo the width of a gint the counter is what the options allow and is not used.
CountInv ==
  /\ pc \notin {"parse", "exit"} => OptionsAccepted
  /\ pc \in {"parse", "opendir", "scan", "handle"} => admitted = 0
  /\ pc = "serve" /\ Bounded =>
       LET limit == opts.maxThreads + opts.maxQueued
       IN  admitted <= limit /\ slots = gint(limit + 1 - admitted)

\* The inductive invariant.
StartInv == StartTypeOK /\ ScanInv /\ CountInv

\* The threads start with the descriptors they need and no others: of those that were
\* inherited the two pipes, stdout and stderr are left, however the directory was read in
\* pieces while it changed, and nothing the scan opened. With --keep-fds all are left.
CleanStart ==
  /\ StartInv
  /\ pc \in {"handle", "serve"} =>
       open = IF opts.keepFds THEN inherited
              ELSE inherited \cap {1, 2, opts.readPipe, opts.writePipe}

\* A request is turned away exactly when as many as the two options allow are under way, even
\* when their sum is more than a gint can hold and the counter is negative.
RejectsAtLimit ==
  pc = "serve" /\ Bounded => (Full <=> admitted = opts.maxThreads + opts.maxQueued)
=============================================================================
