------------------------------- MODULE Calls --------------------------------
(***************************************************************************)
(* One call from the Python method to its return value: the arguments the  *)
(* method sends, their extraction from the request by safeGetArgValues(),  *)
(* the exported function, the response, and what the Python method makes   *)
(* of it. The functions of several system calls are the subject of FileOps *)
(* and appear here with their outcome only.                                *)
(*                                                                         *)
(* A value is abstracted to its JSON type, an error to where it comes from.*)
(***************************************************************************)
EXTENDS Integers, Sequences, FiniteSets, SequencesExt

CONSTANTS
  Sent,       \* what may be sent for an argument: JSON types, or "missing"
  Faults      \* what may go wrong besides the system calls

ASSUME ConstantsAssumption ==
  /\ Sent \subseteq {"string", "long", "boolean", "double", "null", "map", "array", "missing"}
  /\ Faults \subseteq {"crash",      \* the process dies during a call
                       "timeout",    \* the caller's time is over before the answer is there
                       "memalign"}   \* posix_memalign() in writefile()

VARIABLES
  api,        \* the Python method, or "raw" for _sendCommand() with any arguments
  method,     \* the method of the request
  args,       \* what the request holds for every parameter
  out,        \* what the extraction has stored for every parameter, "unset" for nothing
  extracted,  \* how many parameters have been extracted
  err,        \* the GError: "none", or what it reports
  result,     \* the JsonNode the function returned: its kind and, of a map, its keys
  happened,   \* history: how each request of this call went in the process
  lost,       \* history: the requests, by number, whose answer died with the process
  pc,         \* "idle", "extract", "call", "respond", "answer", "returned", "undefined"
  ret         \* what the Python method returns or raises

vars == <<api, method, args, out, extracted, err, result, happened, lost, pc, ret>>

NULL == [kind |-> "NULL", keys |-> {}]
Node(kind) == [kind |-> kind, keys |-> {}]
Map(keys) == [kind |-> "map", keys |-> keys]

-----------------------------------------------------------------------------
(* The tables: what the exported functions extract, what the client sends *)

P(name, type) == [name |-> name, type |-> type]

\* A bug: a function asks for its argument under another name.
Mutant_Path == P("filename", "string")

Path == P("path", "string")
Mode == P("mode", "long")

\* exportedFunctions[], by what a function asks for.
OnPath == {"stat", "lstat", "statvfs", "unlink", "rmdir", "lexists", "fsyncPath", "listdir"}
OnTwoPaths == {"rename", "link", "symlink"}
OnPathAndMode == {"mkdir", "chmod", "access"}
OnNothing == {"ping", "memstat", "crash"}

Methods == OnPath \cup OnTwoPaths \cup OnPathAndMode \cup OnNothing
           \cup {"echo", "glob", "touch", "truncate", "readfile", "writefile", "probe_block_size"}

\* The calls of safeGetArgValue(s) in each function.
Params ==
  [m \in Methods |->
     CASE m \in OnPath -> <<Path>>
       [] m \in OnTwoPaths -> <<P("oldpath", "string"), P("newpath", "string")>>
       [] m \in OnPathAndMode -> <<Path, Mode>>
       [] m \in OnNothing -> <<>>
       [] m = "echo" -> <<P("text", "string"), P("sleep", "long")>>
       [] m = "glob" -> <<P("pattern", "string")>>
       [] m = "touch" -> <<Path, P("flags", "long"), Mode>>
       [] m = "truncate" -> <<Path, P("size", "long"), Mode, P("excl", "boolean")>>
       [] m = "readfile" -> <<Path, P("direct", "boolean")>>
       [] m = "writefile" -> <<Path, P("data", "string"), P("direct", "boolean")>>
       [] m = "probe_block_size" -> <<P("dir", "string")>>]

Apis == Methods \cup {"pathExists", "readlines"}

\* The arguments the method of the same name of IOProcess sends, by the type of their value.
Wrapper ==
  [m \in Apis |->
     CASE m \in OnPath -> [path |-> "string"]
       [] m \in OnTwoPaths -> [oldpath |-> "string", newpath |-> "string"]
       [] m \in OnPathAndMode \cup {"pathExists"} -> [path |-> "string", mode |-> "long"]
       [] m \in OnNothing -> <<>>
       [] m = "echo" -> [text |-> "string", sleep |-> "long"]
       [] m = "glob" -> [pattern |-> "string"]
       [] m = "touch" -> [path |-> "string", flags |-> "long", mode |-> "long"]
       [] m = "truncate" ->
            [path |-> "string", size |-> "long", mode |-> "long", excl |-> "boolean"]
       [] m \in {"readfile", "readlines"} -> [path |-> "string", direct |-> "boolean"]
       [] m = "writefile" -> [path |-> "string", data |-> "string", direct |-> "boolean"]
       [] m = "probe_block_size" -> [dir |-> "string"]]

\* The method of the request a Python method sends.
MethodOf(a) == CASE a = "pathExists" -> "access" [] a = "readlines" -> "readfile" [] OTHER -> a

\* The keys stat_map() and exp_statvfs() insert, and the fields of the named tuples.
StatKeys == {"st_ino", "st_dev", "st_mode", "st_nlink", "st_uid", "st_gid", "st_size",
             "st_atime", "st_mtime", "st_ctime", "st_blocks"}
StatvfsKeys == {"f_bsize", "f_frsize", "f_blocks", "f_bfree", "f_bavail", "f_files", "f_ffree",
                "f_favail", "f_fsid", "f_flag", "f_namemax"}
StatResult == {"st_mode", "st_ino", "st_dev", "st_nlink", "st_uid", "st_gid", "st_size",
               "st_atime", "st_mtime", "st_ctime", "st_blocks"}
StatvfsResult == {"f_bsize", "f_frsize", "f_blocks", "f_bfree", "f_bavail", "f_files",
                  "f_ffree", "f_favail", "f_fsid", "f_flag", "f_namemax"}

Param(i) == Params[method][i]
Names(m) == {Params[m][i].name : i \in DOMAIN Params[m]}

Init ==
  /\ api = "none" /\ method = "none" /\ args = <<>> /\ out = <<>> /\ extracted = 0
  /\ err = "none" /\ result = NULL /\ happened = <<>> /\ lost = {} /\ pc = "idle"
  /\ ret = "none"

-----------------------------------------------------------------------------
(* The client sends *)

\* Only sleep_sec of exp_echo has a value of its own kind before the extraction.
Fresh(m) == [a \in Names(m) |-> IF a = "sleep" THEN "long" ELSE "unset"]

Send(a, m, given) ==
  /\ api' = a /\ method' = m
  /\ args' = [x \in Names(m) |-> IF x \in DOMAIN given THEN given[x] ELSE "missing"]
  /\ out' = Fresh(m) /\ extracted' = 0 /\ err' = "none" /\ result' = NULL /\ pc' = "extract"

\* A method of IOProcess.
CallApi(a) ==
  /\ pc = "idle"
  /\ Send(a, MethodOf(a), Wrapper[a])
  /\ UNCHANGED <<happened, lost, ret>>

\* _sendCommand() with arguments of the caller's own.
CallRaw(m) ==
  /\ pc = "idle"
  /\ \E given \in [Names(m) -> Sent] : Send("raw", m, given)
  /\ UNCHANGED <<happened, lost, ret>>

-----------------------------------------------------------------------------
(* safeGetArgValues() *)

Serves(how) == happened' = Append(happened, how)

NotFound(a) == args[a] = "missing"

\* JsonNode_getValue(): by the node's own type, whatever type was asked for; a double is
\* not stored at all.
Stored(a) == IF args[a] \in {"double", "missing"} THEN out[a] ELSE args[a]

\* safeGetArg() finds a wrong type, but returns the node, and its error is dropped with it.
ExtractArg ==
  /\ pc = "extract" /\ extracted < Len(Params[method])
  /\ LET a == Param(extracted + 1).name IN
       \/ /\ NotFound(a)
          /\ err' = "args" /\ Serves("args") /\ pc' = "respond"
          /\ UNCHANGED <<out, extracted>>
       \/ /\ ~NotFound(a)
          /\ out' = [out EXCEPT ![a] = Stored(a)]
          /\ extracted' = extracted + 1
          /\ UNCHANGED <<err, happened, pc>>
  /\ UNCHANGED <<api, method, args, result, lost, ret>>

WellTyped == \A i \in DOMAIN Params[method] : out[Param(i).name] = Param(i).type

\* The function goes on with what it has. With values of another type in its variables its
\* behaviour is undefined.
ExtractEnd ==
  /\ pc = "extract" /\ extracted = Len(Params[method])
  /\ pc' = IF WellTyped THEN "call" ELSE "undefined"
  /\ UNCHANGED <<api, method, args, out, extracted, err, result, happened, lost, ret>>

-----------------------------------------------------------------------------
(* The exported functions *)

Returns(e, node) == err' = e /\ result' = node

stdApiWrapper(rv) ==
  IF rv < 0 THEN Returns("errno", Node("false")) ELSE Returns("none", Node("true"))

Std == {"rename", "unlink", "rmdir", "mkdir", "chmod", "access", "link", "symlink",
        "touch", "truncate"}

exp_std ==
  /\ method \in Std
  /\ \E rv \in {-1, 0} : stdApiWrapper(rv) /\ Serves(IF rv < 0 THEN "error" ELSE "ok")

exp_stat ==
  /\ method \in {"stat", "lstat", "statvfs"}
  /\ \/ Serves("error") /\ Returns("errno", NULL)
     \/ Serves("ok") /\ Returns("none", Map(IF method = "statvfs" THEN StatvfsKeys ELSE StatKeys))

\* Any error of lstat() counts as "does not exist".
exp_lexists ==
  /\ method = "lexists"
  /\ \/ Serves("error") /\ Returns("none", Node("false"))
     \/ Serves("ok") /\ Returns("none", Node("true"))

\* opendir() fails, or the names are collected until readdir() gives no more: at the end, or
\* at an error, which is not told apart from it.
exp_listdir ==
  /\ method = "listdir"
  /\ \/ Serves("error") /\ Returns("errno", NULL)
     \/ Serves("ok") /\ Returns("none", Node("array"))
     \/ Serves("cut") /\ Returns("none", Node("array"))

\* GLOB_NOSPACE and GLOB_ABORTED are errors, GLOB_NOMATCH is an empty list.
exp_glob ==
  /\ method = "glob"
  /\ \/ Serves("error") /\ Returns("errno", Node("array"))
     \/ Serves("ok") /\ Returns("none", Node("array"))

\* fopen() or the format of /proc/self/statm may be wrong.
exp_memstat ==
  /\ method = "memstat"
  /\ \/ Serves("error") /\ Returns("errno", NULL)
     \/ Serves("ok") /\ Returns("none", Map({"size", "rss", "shr"}))

exp_ping == method \in {"ping", "echo"} /\ Serves("ok") /\ Returns("none", Node("string"))

\* See FileOps. When writefile() cannot allocate its aligned buffer it reports errno, which
\* posix_memalign() does not set: an error of another call's, or one with the code 0.
exp_file ==
  /\ method \in {"readfile", "writefile", "fsyncPath", "probe_block_size"}
  /\ \/ Serves("error") /\ Returns("errno", NULL)
     \/ /\ method = "writefile" /\ "memalign" \in Faults
        /\ Serves("nomem") /\ \E e \in {"errno", "zero"} : Returns(e, NULL)
     \/ Serves("ok") /\ Returns("none", IF method = "readfile" THEN Node("string")
                                        ELSE IF method = "probe_block_size" THEN Node("long")
                                        ELSE NULL)

Callback ==
  /\ pc = "call" /\ method # "crash"
  /\ \/ exp_std \/ exp_stat \/ exp_lexists \/ exp_listdir \/ exp_glob \/ exp_memstat
     \/ exp_ping \/ exp_file
  /\ pc' = "respond"
  /\ UNCHANGED <<api, method, args, out, extracted, lost, ret>>

\* exp_crash() exits; the process may die at any other moment as well, before the operation is
\* done or with its answer. _cleanup() then answers for it.
Crash ==
  /\ pc \in {"extract", "call", "respond"}
  /\ "crash" \in Faults \/ (pc = "call" /\ method = "crash")
  /\ err' = "crash" /\ result' = NULL /\ pc' = "answer"
  /\ \/ pc = "respond" /\ lost' = lost \cup {Len(happened)} /\ UNCHANGED happened
     \/ pc # "respond" /\ Serves("crash") /\ UNCHANGED lost
  /\ UNCHANGED <<api, method, args, out, extracted, ret>>

\* buildResponse(): a result that is NULL becomes an empty map.
Respond ==
  /\ pc = "respond"
  /\ result' = IF result = NULL THEN Map({}) ELSE result
  /\ pc' = "answer"
  /\ UNCHANGED <<api, method, args, out, extracted, err, happened, lost, ret>>

-----------------------------------------------------------------------------
(* The Python method returns *)

\* The code of the error, 0 without one.
errcode == IF err \in {"none", "zero"} THEN 0 ELSE 1

\* A bug: an answer without a result is returned like one with it.
Mutant_Raises == FALSE

Raises == errcode # 0

Returned(v) ==
  /\ ret' = v /\ pc' = "returned"
  /\ UNCHANGED <<api, method, args, out, extracted, err, result, happened, lost>>

\* dict2namedtuple() looks up every field.
Unpacked(fields) == IF fields \subseteq result.keys THEN "value" ELSE "KeyError"

\* pathExists() asks a second time when the first answer was no.
Retry == api = "pathExists" /\ Len(happened) = 1 /\ (Raises \/ result.kind # "true")

Return ==
  /\ pc = "answer"
  /\ \/ Retry /\ Send(api, method, Wrapper[api]) /\ UNCHANGED <<happened, lost, ret>>
     \/ ~Retry /\ api \in {"access", "pathExists"} /\ Raises /\ Returned("False")
     \/ api = "crash" /\ Returned(IF Raises /\ err = "crash" THEN "True" ELSE "False")
     \/ ~Retry /\ api \notin {"access", "pathExists", "crash"} /\ Raises /\ Returned("OSError")
     \/ ~Retry /\ ~Raises /\ api \in {"stat", "lstat"} /\ Returned(Unpacked(StatResult))
     \/ ~Retry /\ ~Raises /\ api = "statvfs" /\ Returned(Unpacked(StatvfsResult))
     \/ /\ ~Retry /\ ~Raises /\ api \notin {"stat", "lstat", "statvfs", "crash"}
        /\ Returned(IF result.kind = "true" THEN "True"
                    ELSE IF result.kind = "false" THEN "False" ELSE "value")

\* The caller's time is over, whether or not the process has done what was asked. Timeout is no
\* OSError: no method catches it, and pathExists() does not ask again.
TimeOut ==
  /\ pc \in {"extract", "call", "respond"} /\ "timeout" \in Faults
  /\ Returned("Timeout")

\* The next call; every request has its own variables.
Again ==
  /\ pc \in {"returned", "undefined"}
  /\ api' = "none" /\ method' = "none" /\ args' = <<>> /\ out' = <<>> /\ extracted' = 0
  /\ err' = "none" /\ result' = NULL /\ happened' = <<>> /\ lost' = {} /\ pc' = "idle"
  /\ ret' = "none"

Next ==
  \/ \E a \in Apis : CallApi(a)
  \/ \E m \in Methods : CallRaw(m)
  \/ ExtractArg \/ ExtractEnd \/ Callback \/ Crash \/ Respond \/ Return \/ TimeOut
  \/ Again

Spec == Init /\ [][Next]_vars

-----------------------------------------------------------------------------
(* Properties *)

\* Every variable holds what the code keeps in it.
TypeOK ==
  /\ api \in Apis \cup {"none", "raw"} /\ method \in Methods \cup {"none"}
  /\ err \in {"none", "args", "errno", "zero", "crash"}
  /\ method # "none" => /\ args \in [Names(method) -> Sent \cup {"string", "long", "boolean"}]
                        /\ out \in [Names(method) -> (Sent \ {"double", "missing"})
                                                    \cup {"string", "long", "boolean", "unset"}]
                        /\ extracted \in 0..Len(Params[method])
  /\ pc \in {"idle", "extract", "call", "respond", "answer", "returned", "undefined"}
  /\ ret \in {"none", "value", "True", "False", "OSError", "KeyError", "Timeout"}

-----------------------------------------------------------------------------
(* The inductive invariant *)

\* The caller cannot know that request i was a success.
NoSuccess(i) == happened[i] # "ok" \/ i \in lost

\* Requests of this call before the one being served: none, or the first of pathExists(),
\* which was not a success.
Earlier(n) ==
  \/ n = 0
  \/ n = 1 /\ api = "pathExists" /\ NoSuccess(1)

\* A call is at its first request or, in pathExists(), at its second.
AttemptInv ==
  /\ happened \in Seq({"ok", "cut", "error", "args", "nomem", "crash"})
  /\ lost \subseteq DOMAIN happened
  /\ pc = "idle" => happened = <<>>
  /\ pc \in {"extract", "call"} => Earlier(Len(happened))
  /\ pc \in {"respond", "answer"} => Len(happened) > 0 /\ Earlier(Len(happened) - 1)

\* A method of IOProcess has sent what the function asks for, and what has been extracted is
\* what was sent, a double excepted.
RequestInv ==
  pc # "idle" =>
    /\ api # "none" /\ method # "none"
    /\ api \in Apis =>
         /\ method = MethodOf(api)
         /\ \A i \in DOMAIN Params[method] : args[Param(i).name] = Param(i).type
    /\ \A i \in 1..extracted :
         /\ ~NotFound(Param(i).name)
         /\ args[Param(i).name] # "double" => out[Param(i).name] = args[Param(i).name]
    /\ pc \in {"call", "undefined"} => extracted = Len(Params[method])

\* Error and result say how the request went, and a result has the fields its reader looks up.
AnswerInv ==
  pc \in {"respond", "answer"} =>
    /\ errcode # 0 => NoSuccess(Len(happened))
    /\ errcode = 0 =>
         /\ Last(happened) \in {"ok", "cut", "error", "nomem"} /\ Len(happened) \notin lost
         /\ Last(happened) = "nomem" => method = "writefile"
         /\ Last(happened) = "error" => method = "lexists" /\ result.kind = "false"
         /\ Last(happened) = "ok" => result.kind # "false"
         /\ Last(happened) = "ok" /\ method \in Std => result.kind = "true"
         /\ method \in {"stat", "lstat"} => StatResult \subseteq result.keys
         /\ method = "statvfs" => StatvfsResult \subseteq result.keys

\* Nothing is returned before the end, and no call of a method of IOProcess is refused.
AgreeInv ==
  /\ pc # "returned" => ret = "none"
  /\ api \in Apis => err # "args" /\ pc # "undefined" /\ ret # "KeyError"

CallsInv == TypeOK /\ AttemptInv /\ RequestInv /\ AnswerInv /\ AgreeInv

-----------------------------------------------------------------------------
(* What a call promises *)

\* The Python methods and the exported functions agree on names, types and results: no call
\* made by a method of IOProcess is refused for its arguments or misses a field, and no
\* request that lacks an argument reaches a system call.
WrappersAgree ==
  /\ CallsInv
  /\ api \in Apis => err # "args" /\ pc # "undefined" /\ ret # "KeyError"
  /\ pc \in {"call", "undefined"} => \A a \in Names(method) : args[a] # "missing"

\* What a call returns is what happened: a value or True only when the last request did what
\* was asked and its answer arrived (a list that readdir() cut short excepted, and writefile()
\* without its buffer, whose error may have the code 0); OSError only when the request failed
\* or its answer died with the process; False only when every request of the call that
\* succeeded lost its answer so, pathExists()'s second one included. Timeout says nothing.
HonestReturn ==
  pc = "returned" /\ api # "crash" =>
    /\ ret \in {"value", "True"} =>
         /\ Last(happened) \in {"ok", "cut"} \/ (method = "writefile" /\ Last(happened) = "nomem")
         /\ Len(happened) \notin lost
    /\ ret = "OSError" => NoSuccess(Len(happened))
    /\ ret = "False" => \A i \in DOMAIN happened : NoSuccess(i)
    /\ api = "pathExists" => ret \in {"True", "Timeout"} \/ Len(happened) = 2
=============================================================================
