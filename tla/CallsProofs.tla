---------------------------- MODULE CallsProofs -----------------------------
(***************************************************************************)
(* Proofs about Calls: whatever a raw request holds, wherever the process  *)
(* dies and whenever the caller's time is over, the methods of IOProcess   *)
(* and the exported functions agree on arguments and results, and what a   *)
(* call returns is what happened.                                          *)
(***************************************************************************)
EXTENDS Calls, TLAPS

Types == {"string", "long", "boolean"}

-----------------------------------------------------------------------------
(* The tables *)

\* What the client sends for a method has what the function asks for, and of the type it asks
\* for.
Agree(given, params) ==
  /\ Len(params) \in Nat /\ DOMAIN params = 1..Len(params)
  /\ \A i \in DOMAIN params : /\ params[i].name \in DOMAIN given
                              /\ given[params[i].name] = params[i].type
                              /\ params[i].type \in Types

\* Every method of IOProcess sends a request of an exported function with the arguments
\* that function extracts.
LEMMA ArgumentsAgree ==
  ASSUME NEW a \in Apis
  PROVE  MethodOf(a) \in Methods /\ Agree(Wrapper[a], Params[MethodOf(a)])
<1> DEFINE m == MethodOf(a)
<1> USE DEF Methods, Apis, MethodOf, OnPath, OnTwoPaths, OnPathAndMode, OnNothing
<1>1. m \in Methods
  OBVIOUS
<1>2. CASE a \in OnPath
  <2>1. Params[m] = <<Path>>
    BY <1>1, <1>2 DEF Params
  <2>2. Wrapper[a] = [path |-> "string"]
    BY <1>2 DEF Wrapper
  <2>3. Agree([path |-> "string"], <<Path>>)
    BY DEF Agree, Types, Path, P
  <2> QED
    BY <1>1, <2>1, <2>2, <2>3
<1>3. CASE a \in OnTwoPaths
  <2> DEFINE p == <<P("oldpath", "string"), P("newpath", "string")>>
             w == [oldpath |-> "string", newpath |-> "string"]
  <2>1. Params[m] = p
    BY <1>1, <1>3 DEF Params
  <2>2. Wrapper[a] = w
    BY <1>3 DEF Wrapper
  <2>3. Agree(w, p)
    BY DEF Agree, Types, P
  <2> QED
    BY <1>1, <2>1, <2>2, <2>3
<1>4. CASE a \in OnPathAndMode \cup {"pathExists"}
  <2> DEFINE w == [path |-> "string", mode |-> "long"]
  <2>1. Params[m] = <<Path, Mode>>
    BY <1>1, <1>4 DEF Params
  <2>2. Wrapper[a] = w
    BY <1>4 DEF Wrapper
  <2>3. Agree(w, <<Path, Mode>>)
    BY DEF Agree, Types, Path, Mode, P
  <2> QED
    BY <1>1, <2>1, <2>2, <2>3
<1>5. CASE a \in OnNothing
  <2>1. Params[m] = <<>>
    BY <1>1, <1>5 DEF Params
  <2> QED
    BY <1>1, <2>1 DEF Agree
<1>6. CASE a = "echo"
  <2> DEFINE p == <<P("text", "string"), P("sleep", "long")>>
             w == [text |-> "string", sleep |-> "long"]
  <2>1. Params[m] = p
    BY <1>1, <1>6 DEF Params
  <2>2. Wrapper[a] = w
    BY <1>6 DEF Wrapper
  <2>3. Agree(w, p)
    BY DEF Agree, Types, P
  <2> QED
    BY <1>1, <2>1, <2>2, <2>3
<1>7. CASE a = "glob"
  <2> DEFINE p == <<P("pattern", "string")>>
             w == [pattern |-> "string"]
  <2>1. Params[m] = p
    BY <1>1, <1>7 DEF Params
  <2>2. Wrapper[a] = w
    BY <1>7 DEF Wrapper
  <2>3. Agree(w, p)
    BY DEF Agree, Types, P
  <2> QED
    BY <1>1, <2>1, <2>2, <2>3
<1>8. CASE a = "touch"
  <2> DEFINE p == <<Path, P("flags", "long"), Mode>>
             w == [path |-> "string", flags |-> "long", mode |-> "long"]
  <2>1. Params[m] = p
    BY <1>1, <1>8 DEF Params
  <2>2. Wrapper[a] = w
    BY <1>8 DEF Wrapper
  <2>3. Agree(w, p)
    BY DEF Agree, Types, Path, Mode, P
  <2> QED
    BY <1>1, <2>1, <2>2, <2>3
<1>9. CASE a = "truncate"
  <2> DEFINE p == <<Path, P("size", "long"), Mode, P("excl", "boolean")>>
             w == [path |-> "string", size |-> "long", mode |-> "long", excl |-> "boolean"]
  <2>1. Params[m] = p
    BY <1>1, <1>9 DEF Params
  <2>2. Wrapper[a] = w
    BY <1>9 DEF Wrapper
  <2>3. Agree(w, p)
    BY DEF Agree, Types, Path, Mode, P
  <2> QED
    BY <1>1, <2>1, <2>2, <2>3
<1>10. CASE a \in {"readfile", "readlines"}
  <2> DEFINE p == <<Path, P("direct", "boolean")>>
             w == [path |-> "string", direct |-> "boolean"]
  <2>1. Params[m] = p
    BY <1>1, <1>10 DEF Params
  <2>2. Wrapper[a] = w
    BY <1>10 DEF Wrapper
  <2>3. Agree(w, p)
    BY DEF Agree, Types, Path, P
  <2> QED
    BY <1>1, <2>1, <2>2, <2>3
<1>11. CASE a = "writefile"
  <2> DEFINE p == <<Path, P("data", "string"), P("direct", "boolean")>>
             w == [path |-> "string", data |-> "string", direct |-> "boolean"]
  <2>1. Params[m] = p
    BY <1>1, <1>11 DEF Params
  <2>2. Wrapper[a] = w
    BY <1>11 DEF Wrapper
  <2>3. Agree(w, p)
    BY DEF Agree, Types, Path, P
  <2> QED
    BY <1>1, <2>1, <2>2, <2>3
<1>12. CASE a = "probe_block_size"
  <2> DEFINE p == <<P("dir", "string")>>
             w == [dir |-> "string"]
  <2>1. Params[m] = p
    BY <1>1, <1>12 DEF Params
  <2>2. Wrapper[a] = w
    BY <1>12 DEF Wrapper
  <2>3. Agree(w, p)
    BY DEF Agree, Types, P
  <2> QED
    BY <1>1, <2>1, <2>2, <2>3
<1> QED
  BY <1>2, <1>3, <1>4, <1>5, <1>6, <1>7, <1>8, <1>9, <1>10, <1>11, <1>12

\* The parameters of a function are a sequence.
LEMMA ParamsType ==
  ASSUME NEW m \in Methods
  PROVE  Len(Params[m]) \in Nat /\ DOMAIN Params[m] = 1..Len(Params[m])
<1>1. m \in Apis /\ MethodOf(m) = m
  BY DEF Apis, Methods, MethodOf, OnPath, OnTwoPaths, OnPathAndMode, OnNothing
<1> QED
  BY <1>1, ArgumentsAgree DEF Agree

-----------------------------------------------------------------------------
(* The invariant *)

\* Before any request there is nothing to say.
LEMMA InitHolds == Init => CallsInv /\ HonestReturn
<1> SUFFICES ASSUME Init PROVE CallsInv /\ HonestReturn
  OBVIOUS
<1>1. "none" \notin Apis
  BY DEF Apis, Methods, OnPath, OnTwoPaths, OnPathAndMode, OnNothing
<1> QED
  BY <1>1 DEF Init, CallsInv, HonestReturn, TypeOK, AttemptInv, RequestInv, AnswerInv, AgreeInv,
              Earlier, NoSuccess

\* The same of the state in which the next call begins.
LEMMA InitHoldsNext == Init' => CallsInv' /\ HonestReturn'
<1> SUFFICES ASSUME Init' PROVE CallsInv' /\ HonestReturn'
  OBVIOUS
<1>1. "none" \notin Apis
  BY DEF Apis, Methods, OnPath, OnTwoPaths, OnPathAndMode, OnNothing
<1> QED
  BY <1>1 DEF Init, CallsInv, HonestReturn, TypeOK, AttemptInv, RequestInv, AnswerInv, AgreeInv,
              Earlier, NoSuccess

\* A request that holds a value for every parameter, or that a method of IOProcess sends, is
\* one the invariant allows.
LEMMA SendStep ==
  ASSUME CallsInv, NEW a \in Apis \cup {"raw"}, NEW m \in Methods, NEW given,
         Send(a, m, given), UNCHANGED <<happened, lost, ret>>, ret = "none",
         \/ a = "raw" /\ given \in [Names(m) -> Sent]
         \/ a \in Apis /\ m = MethodOf(a) /\ given = Wrapper[a],
         \/ happened = <<>>
         \/ a = "pathExists" /\ Len(happened) = 1 /\ NoSuccess(1)
  PROVE  CallsInv'
<1>1. /\ api' = a /\ method' = m /\ extracted' = 0 /\ err' = "none" /\ pc' = "extract"
      /\ args' = [x \in Names(m) |-> IF x \in DOMAIN given THEN given[x] ELSE "missing"]
      /\ out' = Fresh(m)
      /\ happened' = happened /\ lost' = lost /\ ret' = "none"
  BY DEF Send
<1>2. "none" \notin Methods /\ "raw" \notin Apis /\ "none" \notin Apis
  BY DEF Apis, Methods, OnPath, OnTwoPaths, OnPathAndMode, OnNothing
<1>3. Len(Params[m]) \in Nat
  BY ParamsType
<1>4. args' \in [Names(m) -> Sent \cup {"string", "long", "boolean"}]
  <2>1. CASE a = "raw"
    BY <1>1, <1>2, <2>1
  <2>2. CASE a \in Apis
    <3>1. \A x \in Names(m) : x \in DOMAIN given /\ given[x] \in Types
      BY <1>2, <2>2, ArgumentsAgree DEF Agree, Names
    <3> QED
      BY <1>1, <3>1 DEF Types
  <2> QED
    BY <2>1, <2>2
<1>5. a \in Apis =>
        /\ m = MethodOf(a)
        /\ \A i \in DOMAIN Params[m] : args'[Params[m][i].name] = Params[m][i].type
  <2> SUFFICES ASSUME a \in Apis
               PROVE /\ m = MethodOf(a)
                     /\ \A i \in DOMAIN Params[m] : args'[Params[m][i].name] = Params[m][i].type
    OBVIOUS
  <2>1. m = MethodOf(a) /\ Agree(given, Params[m])
    BY <1>2, ArgumentsAgree
  <2>2. \A i \in DOMAIN Params[m] : Params[m][i].name \in Names(m)
    BY DEF Names
  <2> QED
    BY <1>1, <2>1, <2>2 DEF Agree
<1>6. TypeOK'
  BY <1>1, <1>2, <1>3, <1>4 DEF TypeOK, Fresh
<1>7. AttemptInv'
  BY <1>1 DEF CallsInv, AttemptInv, NoSuccess, Earlier
<1>8. RequestInv'
  BY <1>1, <1>2, <1>5 DEF RequestInv, Param
<1>9. AnswerInv' /\ AgreeInv'
  BY <1>1 DEF AnswerInv, AgreeInv
<1> QED
  BY <1>6, <1>7, <1>8, <1>9 DEF CallsInv

\* One argument extracted: the request has it, or the call is refused, which happens to raw
\* requests only.
LEMMA ExtractStep == CallsInv /\ ExtractArg => CallsInv'
<1> SUFFICES ASSUME CallsInv, ExtractArg PROVE CallsInv'
  OBVIOUS
<1> DEFINE a == Param(extracted + 1).name
<1>1. /\ method \in Methods /\ api # "none" /\ ret = "none"
      /\ extracted \in Nat /\ extracted + 1 \in DOMAIN Params[method]
  <2>1. method \in Methods /\ api # "none" /\ ret = "none"
    BY DEF CallsInv, ExtractArg, TypeOK, RequestInv, AgreeInv
  <2> QED
    BY <2>1, ParamsType DEF CallsInv, ExtractArg, TypeOK, RequestInv
<1>2. /\ args \in [Names(method) -> Sent \cup {"string", "long", "boolean"}]
      /\ out \in [Names(method) -> (Sent \ {"double", "missing"})
                                     \cup {"string", "long", "boolean", "unset"}]
      /\ a \in Names(method)
  BY <1>1 DEF CallsInv, TypeOK, RequestInv, ExtractArg, Names, Param
<1>3. pc = "extract" /\ UNCHANGED <<api, method, args, result, lost, ret>>
  BY DEF ExtractArg
<1>4. CASE /\ NotFound(a)
           /\ err' = "args" /\ Serves("args") /\ pc' = "respond"
           /\ UNCHANGED <<out, extracted>>
  <2>1. api \notin Apis
    <3>1. api \in Apis => args[a] = Param(extracted + 1).type
      BY <1>1, <1>3 DEF CallsInv, RequestInv
    <3>2. api \in Apis => Param(extracted + 1).type \in Types
      BY <1>1, <1>3, ArgumentsAgree DEF CallsInv, RequestInv, Agree, Param
    <3> QED
      BY <1>4, <3>1, <3>2 DEF NotFound, Types
  <2>2. TypeOK'
    BY <1>3, <1>4 DEF CallsInv, TypeOK, Names
  <2>3. AttemptInv' /\ Last(happened)' = "args"
    BY <1>3, <1>4 DEF CallsInv, AttemptInv, NoSuccess, Earlier, Serves, Last
  <2>4. RequestInv'
    BY <1>3, <1>4 DEF CallsInv, RequestInv, Param, NotFound
  <2>5. AnswerInv' /\ AgreeInv'
    BY <1>1, <1>3, <1>4, <2>1, <2>3 DEF AnswerInv, AgreeInv, NoSuccess, errcode, Last
  <2> QED
    BY <2>2, <2>3, <2>4, <2>5 DEF CallsInv
<1>5. CASE /\ ~NotFound(a)
           /\ out' = [out EXCEPT ![a] = Stored(a)]
           /\ extracted' = extracted + 1
           /\ UNCHANGED <<err, happened, pc>>
  <2>1. /\ args[a] # "missing"
        /\ args[a] # "double" => Stored(a) = args[a]
        /\ Stored(a) \in (Sent \ {"double", "missing"})
                           \cup {"string", "long", "boolean", "unset"}
    BY <1>2, <1>5 DEF NotFound, Stored
  <2>2. out' \in [Names(method) -> (Sent \ {"double", "missing"})
                                     \cup {"string", "long", "boolean", "unset"}]
    BY <1>2, <1>5, <2>1
  <2>3. TypeOK'
    BY <1>1, <1>3, <1>5, <2>2, ParamsType, SMTT(30) DEF CallsInv, TypeOK, Names
  <2>4. AttemptInv' /\ AnswerInv' /\ AgreeInv'
    BY <1>3, <1>5 DEF CallsInv, AttemptInv, NoSuccess, Earlier, AnswerInv, errcode, AgreeInv
  <2>5. ASSUME NEW i \in 1..(extracted + 1)
        PROVE  /\ args[Param(i).name] # "missing"
               /\ args[Param(i).name] # "double" => out'[Param(i).name] = args[Param(i).name]
    <3>1. i \in DOMAIN Params[method] /\ Param(i).name \in Names(method)
      BY <1>1, ParamsType DEF Names, Param
    <3>2. CASE Param(i).name = a
      BY <1>2, <1>5, <2>1, <3>2
    <3>3. CASE Param(i).name # a
      <4>1. i \in 1..extracted
        BY <1>1, <3>3
      <4> QED
        BY <1>2, <1>3, <1>5, <3>1, <3>3, <4>1 DEF CallsInv, RequestInv, NotFound
    <3> QED
      BY <3>2, <3>3
  <2>6. RequestInv'
    BY <1>3, <1>5, <2>5 DEF CallsInv, RequestInv, Param, NotFound
  <2> QED
    BY <2>3, <2>4, <2>6 DEF CallsInv
<1> QED
  BY <1>4, <1>5 DEF ExtractArg

\* The function goes on; with what a method of IOProcess sent, its variables are well typed.
LEMMA ExtractEndStep == CallsInv /\ ExtractEnd => CallsInv'
<1> SUFFICES ASSUME CallsInv, ExtractEnd PROVE CallsInv'
  OBVIOUS
<1>1. /\ pc = "extract" /\ pc' = IF WellTyped THEN "call" ELSE "undefined"
      /\ UNCHANGED <<api, method, args, out, extracted, err, result, happened, lost, ret>>
      /\ extracted = Len(Params[method]) /\ method \in Methods
  BY DEF ExtractEnd, CallsInv, TypeOK, RequestInv
<1>2. api \in Apis => WellTyped
  <2> SUFFICES ASSUME api \in Apis, NEW i \in DOMAIN Params[method]
               PROVE  out[Param(i).name] = Param(i).type
    BY DEF WellTyped
  <2>1. i \in 1..extracted
    BY <1>1, ParamsType
  <2>2. args[Param(i).name] = Param(i).type /\ Param(i).type \in Types
    BY <1>1, ArgumentsAgree DEF CallsInv, RequestInv, Agree, Param
  <2> QED
    BY <1>1, <2>1, <2>2 DEF CallsInv, RequestInv, Types
<1>3. TypeOK'
  BY <1>1 DEF CallsInv, TypeOK, Names
<1>4. AttemptInv' /\ AnswerInv'
  BY <1>1 DEF CallsInv, AttemptInv, NoSuccess, Earlier, AnswerInv, errcode
<1>5. RequestInv'
  BY <1>1 DEF CallsInv, RequestInv, Param, NotFound
<1>6. AgreeInv'
  BY <1>1, <1>2 DEF CallsInv, AgreeInv
<1> QED
  BY <1>3, <1>4, <1>5, <1>6 DEF CallsInv

\* What every way to end a request has in common: the request stays as it is, and how it went
\* is noted once.
LEMMA ServedStep ==
  ASSUME CallsInv, pc \in {"extract", "call"}, NEW how \in {"ok", "cut", "error", "nomem", "crash"},
         Serves(how), pc' \in {"respond", "answer"}, err' \in {"none", "errno", "zero", "crash"},
         UNCHANGED <<api, method, args, out, extracted, lost, ret>>
  PROVE  /\ TypeOK' /\ AttemptInv' /\ RequestInv' /\ AgreeInv'
         /\ Last(happened)' = how /\ happened'[Len(happened')] = how /\ Len(happened') \notin lost'
<1>1. TypeOK'
  BY DEF CallsInv, TypeOK, Names
<1>2. /\ Last(happened)' = how /\ happened'[Len(happened')] = how
      /\ Len(happened') = Len(happened) + 1 /\ Len(happened) \in Nat
      /\ happened' \in Seq({"ok", "cut", "error", "args", "nomem", "crash"})
      /\ lost \subseteq 1..Len(happened) /\ DOMAIN happened' = 1..(Len(happened) + 1)
      /\ Len(happened) = 1 => happened'[1] = happened[1]
  BY DEF CallsInv, AttemptInv, Serves, Last
<1>3. Len(happened') \notin lost' /\ lost' \subseteq DOMAIN happened'
  BY <1>2
<1>4. AttemptInv'
  BY <1>2, <1>3 DEF CallsInv, AttemptInv, NoSuccess, Earlier
<1>5. RequestInv' /\ AgreeInv'
  BY DEF CallsInv, RequestInv, AgreeInv, Param, NotFound
<1> QED
  BY <1>1, <1>2, <1>3, <1>4, <1>5

\* Error and result of an exported function say how its system call went.
LEMMA CallbackStep == CallsInv /\ Callback => CallsInv'
<1> SUFFICES ASSUME CallsInv, Callback PROVE CallsInv'
  OBVIOUS
<1>1. /\ pc = "call" /\ pc' = "respond"
      /\ UNCHANGED <<api, method, args, out, extracted, lost, ret>>
  BY DEF Callback
<1> DEFINE Answers(how) ==
      /\ Serves(how) /\ err' \in {"none", "errno", "zero"}
      /\ err' # "none" => how # "ok"
      /\ err' = "zero" => how = "nomem"
      /\ how = "nomem" => method = "writefile"
      /\ err' = "none" =>
           /\ how = "error" => method = "lexists" /\ result'.kind = "false"
           /\ how = "ok" => result'.kind # "false"
           /\ how = "ok" /\ method \in Std => result'.kind = "true"
           /\ method \in {"stat", "lstat"} => StatResult \subseteq result'.keys
           /\ method = "statvfs" => StatvfsResult \subseteq result'.keys
<1>2. \E how \in {"ok", "cut", "error", "nomem"} : Answers(how)
  <2> USE DEF Returns, Node, NULL, Map, Std
  <2>1. CASE exp_std
    <3>1. PICK rv \in {-1, 0} : stdApiWrapper(rv) /\ Serves(IF rv < 0 THEN "error" ELSE "ok")
      BY <2>1 DEF exp_std
    <3>2. CASE rv = -1
      <4>1. Answers("error")
        BY <2>1, <3>1, <3>2 DEF exp_std, stdApiWrapper
      <4> QED
        BY <4>1
    <3>3. CASE rv = 0
      <4>1. Answers("ok")
        BY <2>1, <3>1, <3>3 DEF exp_std, stdApiWrapper
      <4> QED
        BY <4>1
    <3> QED
      BY <3>2, <3>3
  <2>2. CASE exp_stat
    <3>1. CASE Serves("error") /\ Returns("errno", NULL)
      <4>1. Answers("error")
        BY <3>1
      <4> QED
        BY <4>1
    <3>2. CASE /\ Serves("ok")
               /\ Returns("none", Map(IF method = "statvfs" THEN StatvfsKeys ELSE StatKeys))
      <4>1. Answers("ok")
        BY <2>2, <3>2 DEF exp_stat, StatKeys, StatvfsKeys, StatResult, StatvfsResult
      <4> QED
        BY <4>1
    <3> QED
      BY <2>2, <3>1, <3>2 DEF exp_stat
  <2>3. CASE exp_lexists
    <3>1. Answers("error") \/ Answers("ok")
      BY <2>3 DEF exp_lexists
    <3> QED
      BY <3>1
  <2>4. CASE exp_listdir
    <3>1. Answers("error") \/ Answers("ok") \/ Answers("cut")
      BY <2>4 DEF exp_listdir
    <3> QED
      BY <3>1
  <2>5. CASE exp_glob
    <3>1. Answers("error") \/ Answers("ok")
      BY <2>5 DEF exp_glob
    <3> QED
      BY <3>1
  <2>6. CASE exp_memstat
    <3>1. Answers("error") \/ Answers("ok")
      BY <2>6 DEF exp_memstat
    <3> QED
      BY <3>1
  <2>7. CASE exp_ping
    <3>1. Answers("ok")
      BY <2>7 DEF exp_ping
    <3> QED
      BY <3>1
  <2>8. CASE exp_file
    <3>1. Answers("error") \/ Answers("ok") \/ Answers("nomem")
      BY <2>8 DEF exp_file
    <3> QED
      BY <3>1
  <2> QED
    BY <2>1, <2>2, <2>3, <2>4, <2>5, <2>6, <2>7, <2>8 DEF Callback
<1>3. PICK how \in {"ok", "cut", "error", "nomem"} : Answers(how)
  BY <1>2
<1>4. /\ TypeOK' /\ AttemptInv' /\ RequestInv' /\ AgreeInv'
      /\ Last(happened)' = how /\ happened'[Len(happened')] = how /\ Len(happened') \notin lost'
  BY <1>1, <1>3, ServedStep
<1>5. AnswerInv'
  BY <1>1, <1>3, <1>4 DEF AnswerInv, NoSuccess, errcode, Std
<1> QED
  BY <1>4, <1>5 DEF CallsInv

\* A process that dies takes the answer with it, whatever it had done.
LEMMA CrashStep == CallsInv /\ Crash => CallsInv'
<1> SUFFICES ASSUME CallsInv, Crash PROVE CallsInv'
  OBVIOUS
<1>1. /\ err' = "crash" /\ result' = NULL /\ pc' = "answer"
      /\ UNCHANGED <<api, method, args, out, extracted, ret>>
      /\ pc \in {"extract", "call", "respond"}
  BY DEF Crash
<1>2. /\ TypeOK' /\ AttemptInv' /\ RequestInv' /\ AgreeInv'
      /\ NoSuccess(Len(happened))'
  <2>1. CASE pc = "respond"
    <3>1. happened' = happened /\ lost' = lost \cup {Len(happened)}
      BY <2>1 DEF Crash
    <3>2. TypeOK'
      BY <1>1 DEF CallsInv, TypeOK, Names
    <3>3. /\ happened \in Seq({"ok", "cut", "error", "args", "nomem", "crash"})
          /\ lost \subseteq DOMAIN happened /\ Len(happened) > 0 /\ Earlier(Len(happened) - 1)
      BY <2>1 DEF CallsInv, AttemptInv
    <3>4. lost' \subseteq DOMAIN happened
      BY <3>1, <3>3
    <3>5. AttemptInv' /\ NoSuccess(Len(happened))'
      BY <1>1, <3>1, <3>3, <3>4 DEF AttemptInv, Earlier, NoSuccess
    <3>6. RequestInv' /\ AgreeInv'
      BY <1>1, <2>1 DEF CallsInv, RequestInv, AgreeInv, Param, NotFound
    <3> QED
      BY <3>2, <3>5, <3>6
  <2>2. CASE pc # "respond"
    <3>1. Serves("crash") /\ lost' = lost
      BY <2>2 DEF Crash
    <3>2. /\ TypeOK' /\ AttemptInv' /\ RequestInv' /\ AgreeInv'
          /\ happened'[Len(happened')] = "crash"
      BY <1>1, <2>2, <3>1, ServedStep
    <3> QED
      BY <3>2 DEF NoSuccess
  <2> QED
    BY <2>1, <2>2
<1>3. AnswerInv'
  BY <1>1, <1>2 DEF AnswerInv, errcode
<1> QED
  BY <1>2, <1>3 DEF CallsInv

\* buildResponse() changes no result anybody reads.
LEMMA RespondStep == CallsInv /\ Respond => CallsInv'
<1> SUFFICES ASSUME CallsInv, Respond PROVE CallsInv'
  OBVIOUS
<1>1. /\ pc = "respond" /\ pc' = "answer"
      /\ result' = IF result = NULL THEN Map({}) ELSE result
      /\ UNCHANGED <<api, method, args, out, extracted, err, happened, lost, ret>>
  BY DEF Respond
<1>2. TypeOK'
  BY <1>1 DEF CallsInv, TypeOK, Names
<1>3. AttemptInv' /\ AgreeInv'
  BY <1>1 DEF CallsInv, AttemptInv, NoSuccess, Earlier, AgreeInv
<1>4. RequestInv'
  BY <1>1 DEF CallsInv, RequestInv, Param, NotFound
<1>5. AnswerInv'
  BY <1>1 DEF CallsInv, AnswerInv, NoSuccess, errcode, NULL, Map, StatResult, StatvfsResult
<1> QED
  BY <1>2, <1>3, <1>4, <1>5 DEF CallsInv

\* A call that returns gives what its last request came to; pathExists() gives up only after
\* its second.
LEMMA ReturnStep == CallsInv /\ Return => CallsInv' /\ HonestReturn'
<1> SUFFICES ASSUME CallsInv, Return PROVE CallsInv' /\ HonestReturn'
  OBVIOUS
<1>1. /\ pc = "answer" /\ ret = "none" /\ method \in Methods
      /\ api \in Apis \cup {"raw"} /\ (api \in Apis => method = MethodOf(api))
      /\ Len(happened) > 0 /\ Earlier(Len(happened) - 1)
      /\ happened \in Seq({"ok", "cut", "error", "args", "nomem", "crash"})
      /\ lost \subseteq DOMAIN happened
  BY DEF Return, CallsInv, TypeOK, AttemptInv, RequestInv, AgreeInv
<1>2. CASE Retry /\ Send(api, method, Wrapper[api]) /\ UNCHANGED <<happened, lost, ret>>
  <2>1. api = "pathExists" /\ api \in Apis /\ method \in Std
    BY <1>1, <1>2 DEF Retry, Apis, MethodOf, Std
  <2>2. Len(happened) = 1 /\ NoSuccess(1)
    BY <1>1, <1>2, <2>1 DEF CallsInv, AnswerInv, Retry, Raises, Last, NoSuccess, Std
  <2>3. CallsInv'
    BY <1>1, <1>2, <2>1, <2>2, SendStep
  <2> QED
    BY <1>2, <2>3 DEF Send, HonestReturn
<1> DEFINE Done ==
      /\ Last(happened) \in {"ok", "cut"} \/ (method = "writefile" /\ Last(happened) = "nomem")
      /\ Len(happened) \notin lost
<1>3. ASSUME NEW v \in {"value", "True", "False", "OSError", "KeyError"}, Returned(v),
             ~Retry \/ api = "crash",
             api \in Apis => v # "KeyError",
             v \in {"value", "True"} /\ api # "crash" => Done,
             v \in {"False", "OSError"} /\ api # "crash" => NoSuccess(Len(happened)),
             api = "pathExists" /\ Len(happened) = 1 => v = "True"
      PROVE  CallsInv' /\ HonestReturn'
  <2>1. /\ pc' = "returned" /\ ret' = v
        /\ UNCHANGED <<api, method, args, out, extracted, err, result, happened, lost>>
    BY <1>3 DEF Returned
  <2>2. TypeOK' /\ AgreeInv'
    BY <1>1, <1>3, <2>1 DEF CallsInv, TypeOK, AgreeInv, Names
  <2>3. AttemptInv' /\ AnswerInv'
    BY <2>1 DEF CallsInv, AttemptInv, AnswerInv
  <2>4. RequestInv'
    BY <1>1, <2>1 DEF CallsInv, RequestInv, Param, NotFound
  <2>5. HonestReturn'
    <3>1. Len(happened) \in {1, 2} /\ (Len(happened) = 2 => NoSuccess(1))
      <4>1. Len(happened) \in Nat /\ Len(happened) - 1 \in {0, 1}
        BY <1>1 DEF Earlier
      <4>2. Len(happened) - 1 = 1 => NoSuccess(1)
        BY <1>1 DEF Earlier
      <4> QED
        BY <4>1, <4>2
    <3>2. api = "pathExists" => v = "True" \/ Len(happened) = 2
      BY <1>3, <3>1
    <3>3. \A i \in DOMAIN happened : i = Len(happened) \/ (i = 1 /\ Len(happened) = 2)
      <4>1. DOMAIN happened = 1..Len(happened)
        BY <1>1
      <4> QED
        BY <3>1, <4>1
    <3>4. NoSuccess(Len(happened)) => \A i \in DOMAIN happened : NoSuccess(i)
      BY <3>1, <3>3, Zenon
    <3>5. /\ v \in {"value", "True"} /\ api # "crash" => Done
          /\ v \in {"False", "OSError"} /\ api # "crash" => NoSuccess(Len(happened))
      BY <1>3
    <3>6. Last(happened)' = Last(happened) /\ \A i : NoSuccess(i)' = NoSuccess(i)
      BY <2>1 DEF Last, NoSuccess
    <3> QED
      BY <2>1, <3>2, <3>5, <3>6, <3>4 DEF HonestReturn
  <2> QED
    BY <2>2, <2>3, <2>4, <2>5 DEF CallsInv
<1>4. /\ errcode # 0 => NoSuccess(Len(happened))
      /\ errcode = 0 =>
           /\ Last(happened) \in {"ok", "cut", "error", "nomem"} /\ Len(happened) \notin lost
           /\ Last(happened) = "nomem" => method = "writefile"
           /\ Last(happened) = "error" => method = "lexists" /\ result.kind = "false"
           /\ Last(happened) = "ok" => result.kind # "false"
           /\ Last(happened) = "ok" /\ method \in Std => result.kind = "true"
           /\ method \in {"stat", "lstat"} => StatResult \subseteq result.keys
           /\ method = "statvfs" => StatvfsResult \subseteq result.keys
  BY <1>1 DEF CallsInv, AnswerInv
<1>5. api = "pathExists" /\ Len(happened) = 1 /\ ~Retry => ~Raises /\ result.kind = "true"
  BY DEF Retry
<1>6. CASE ~Retry /\ api \in {"access", "pathExists"} /\ Raises /\ Returned("False")
  BY <1>3, <1>4, <1>5, <1>6 DEF Raises
<1>7. CASE api = "crash" /\ Returned(IF Raises /\ err = "crash" THEN "True" ELSE "False")
  BY <1>3, <1>7
<1>8. CASE ~Retry /\ api \notin {"access", "pathExists", "crash"} /\ Raises /\ Returned("OSError")
  BY <1>3, <1>4, <1>8 DEF Raises
<1>9. CASE ~Retry /\ ~Raises /\ api \in {"stat", "lstat"} /\ Returned(Unpacked(StatResult))
  <2>1. api \in Apis /\ method \in {"stat", "lstat"} /\ errcode = 0
    BY <1>1, <1>9 DEF Apis, Methods, OnPath, MethodOf, Raises
  <2>2. Unpacked(StatResult) = "value"
    BY <1>4, <2>1 DEF Unpacked
  <2> QED
    BY <1>3, <1>4, <1>9, <2>1, <2>2
<1>10. CASE ~Retry /\ ~Raises /\ api = "statvfs" /\ Returned(Unpacked(StatvfsResult))
  <2>1. api \in Apis /\ method = "statvfs" /\ errcode = 0
    BY <1>1, <1>10 DEF Apis, Methods, OnPath, MethodOf, Raises
  <2>2. Unpacked(StatvfsResult) = "value"
    BY <1>4, <2>1 DEF Unpacked
  <2> QED
    BY <1>3, <1>4, <1>10, <2>1, <2>2
<1>11. CASE /\ ~Retry /\ ~Raises /\ api \notin {"stat", "lstat", "statvfs", "crash"}
            /\ Returned(IF result.kind = "true" THEN "True"
                        ELSE IF result.kind = "false" THEN "False" ELSE "value")
  <2>1. Last(happened) # "ok" => NoSuccess(Len(happened))
    BY DEF Last, NoSuccess
  <2> QED
    BY <1>3, <1>4, <1>5, <1>11, <2>1 DEF Raises
<1> QED
  BY <1>2, <1>6, <1>7, <1>8, <1>9, <1>10, <1>11 DEF Return

\* A caller whose time is over learns nothing, and is told so.
LEMMA TimeOutStep == CallsInv /\ TimeOut => CallsInv' /\ HonestReturn'
<1> SUFFICES ASSUME CallsInv, TimeOut PROVE CallsInv' /\ HonestReturn'
  OBVIOUS
<1>1. /\ pc \in {"extract", "call", "respond"} /\ pc' = "returned" /\ ret' = "Timeout"
      /\ UNCHANGED <<api, method, args, out, extracted, err, result, happened, lost>>
  BY DEF TimeOut, Returned
<1>2. TypeOK' /\ AgreeInv'
  BY <1>1 DEF CallsInv, TypeOK, AgreeInv, Names
<1>3. AttemptInv' /\ AnswerInv'
  BY <1>1 DEF CallsInv, AttemptInv, AnswerInv
<1>4. RequestInv'
  BY <1>1 DEF CallsInv, RequestInv, Param, NotFound
<1>5. HonestReturn'
  BY <1>1 DEF HonestReturn
<1> QED
  BY <1>2, <1>3, <1>4, <1>5 DEF CallsInv

\* No step of a call breaks the invariant or returns what did not happen.
LEMMA StepHolds == CallsInv /\ HonestReturn /\ [Next]_vars => CallsInv' /\ HonestReturn'
<1> SUFFICES ASSUME CallsInv, HonestReturn, [Next]_vars PROVE CallsInv' /\ HonestReturn'
  OBVIOUS
<1>1. CASE \E a \in Apis : CallApi(a)
  <2>1. PICK a \in Apis : CallApi(a)
    BY <1>1
  <2>2. /\ Send(a, MethodOf(a), Wrapper[a]) /\ UNCHANGED <<happened, lost, ret>>
        /\ pc = "idle" /\ ret = "none" /\ pc' = "extract"
    BY <2>1 DEF CallApi, CallsInv, AgreeInv, Send
  <2>3. MethodOf(a) \in Methods
    BY ArgumentsAgree
  <2>4. happened = <<>>
    BY <2>2 DEF CallsInv, AttemptInv
  <2>5. CallsInv'
    BY <2>2, <2>3, <2>4, SendStep
  <2> QED
    BY <2>2, <2>5 DEF HonestReturn
<1>2. CASE \E m \in Methods : CallRaw(m)
  <2>1. PICK m \in Methods : CallRaw(m)
    BY <1>2
  <2>2. PICK given \in [Names(m) -> Sent] : Send("raw", m, given)
    BY <2>1 DEF CallRaw
  <2>3. UNCHANGED <<happened, lost, ret>> /\ pc = "idle" /\ ret = "none" /\ pc' = "extract"
    BY <2>1, <2>2 DEF CallRaw, CallsInv, AgreeInv, Send
  <2>4. happened = <<>>
    BY <2>3 DEF CallsInv, AttemptInv
  <2>5. CallsInv'
    BY <2>2, <2>3, <2>4, SendStep
  <2> QED
    BY <2>3, <2>5 DEF HonestReturn
<1>3. CASE ExtractArg
  BY <1>3, ExtractStep DEF ExtractArg, HonestReturn
<1>4. CASE ExtractEnd
  BY <1>4, ExtractEndStep DEF ExtractEnd, HonestReturn
<1>5. CASE Callback
  BY <1>5, CallbackStep DEF Callback, HonestReturn
<1>6. CASE Crash
  BY <1>6, CrashStep DEF Crash, HonestReturn
<1>7. CASE Respond
  BY <1>7, RespondStep DEF Respond, HonestReturn
<1>8. CASE Return
  BY <1>8, ReturnStep
<1>9. CASE Again
  <2>1. Init'
    BY <1>9 DEF Again, Init
  <2> QED
    BY <2>1, InitHoldsNext
<1>10. CASE UNCHANGED vars
  <2>1. TypeOK' /\ AttemptInv' /\ AgreeInv'
    BY <1>10 DEF vars, CallsInv, TypeOK, AttemptInv, NoSuccess, Earlier, AgreeInv, Names
  <2>2. RequestInv' /\ AnswerInv'
    BY <1>10 DEF vars, CallsInv, RequestInv, AnswerInv, NoSuccess, errcode, Param, NotFound
  <2>3. HonestReturn'
    BY <1>10 DEF vars, HonestReturn, NoSuccess
  <2> QED
    BY <2>1, <2>2, <2>3 DEF CallsInv
<1>11. CASE TimeOut
  BY <1>11, TimeOutStep
<1> QED
  BY <1>1, <1>2, <1>3, <1>4, <1>5, <1>6, <1>7, <1>8, <1>9, <1>10, <1>11 DEF Next

\* The inductive invariant of a call.
THEOREM CallsInvariance == Spec => [](CallsInv /\ HonestReturn)
BY InitHolds, StepHolds, PTL DEF Spec

\* The methods of IOProcess and the exported functions agree: no call of theirs is refused
\* for its arguments, goes on with a value of another type, or misses a field of the result;
\* and no request that lacks an argument reaches a system call.
THEOREM WrappersAgreeAlways == Spec => []WrappersAgree
<1>1. CallsInv => WrappersAgree
  <2> SUFFICES ASSUME CallsInv PROVE WrappersAgree
    OBVIOUS
  <2>1. ASSUME pc \in {"call", "undefined"}, NEW a \in Names(method)
        PROVE  args[a] # "missing"
    <3>1. method \in Methods /\ extracted = Len(Params[method])
      BY <2>1 DEF CallsInv, TypeOK, RequestInv
    <3>2. PICK i \in DOMAIN Params[method] : a = Param(i).name
      BY DEF Names, Param
    <3>3. i \in 1..extracted
      BY <3>1, ParamsType
    <3> QED
      BY <2>1, <3>2, <3>3 DEF CallsInv, RequestInv, NotFound
  <2> QED
    BY <2>1 DEF WrappersAgree, CallsInv, AgreeInv
<1> QED
  BY <1>1, CallsInvariance, PTL

\* What a call returns is what happened, wherever the process dies: a value or True is an
\* answer that arrived, to a request that did what was asked or to a writefile() without its
\* buffer; OSError and False leave open only that a success died with its answer.
THEOREM ReturnsAreHonest == Spec => []HonestReturn
BY CallsInvariance, PTL
=============================================================================
