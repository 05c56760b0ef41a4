----------------------------- MODULE Scripting -----------------------------
(***************************************************************************)
(* XCalls at work: xcall_core (the core's functions and the log listeners), *)
(* log_event, the Lua and JavaScript bridges, xcall_exec and module_util.   *)
(*                                                                          *)
(* Everything runs on one C stack; `stack` has the frames that something    *)
(* else can run on top of: a script, a message being given to the log's     *)
(* listeners, a listener waiting for its answer, a C function that logs     *)
(* before it answers.  A step is a stretch of C code up to the next call of *)
(* a script or a listener.  Nobody listens to the log but XCall functions.  *)
(*                                                                          *)
(* Where the C code uses memory that was freed, or code that was unloaded,  *)
(* the model stops and `wild` says where.                                   *)
(***************************************************************************)
EXTENDS XCall

CONSTANTS
  Calls,       \* the calls that scripts and other modules make
  Nested,      \* bound: those of them that a script makes on behalf of a call
  ScriptNames, \* the names scripts register functions under: a set for each language
  MaxDepth,    \* bound: frames on the stack
  MaxPending,  \* bound: timers of module_util at a time
  ThroughLua(_) \* what is left of a store that was a Lua table

ASSUME ScriptingAssumption ==
  /\ Nested \subseteq Calls /\ MaxDepth \in Nat /\ MaxPending \in Nat
  /\ \A c \in Calls : c.form \in Forms /\ "xcall" \notin DOMAIN c.args.array

VARIABLES
  loaded,      \* the modules that are loaded
  functions,   \* xcall.c: name -> the C function
  refs,        \* lua/xcall.c: the functionRefs of the global state
  states,      \* lua/xcall.c: functionState, the names that lead to that state
  infos,       \* lang_javascript/xcall.c: name -> JSFunctionInfo
  listeners,   \* the entries of the "log" event: names, in order; also logListeners
  count,       \* log_event.c
  handler,     \* log.c: logHandler
  executing,   \* xcall_core.c: logExecuting
  pending,     \* the timeouts of module_util, first to fire first
  stack,       \* the frames, the running one last
  wild

tables == <<loaded, functions, refs, states, infos>>
logging == <<listeners, count, handler, executing>>
scriptingVars == <<tables, logging, pending, stack, wild>>

-----------------------------------------------------------------------------
(* Modules and the functions they register *)

LogFunctions == {"logError", "logWarning", "logNotice", "logInfo"}
InfoFunctions == {"getModuleAuthor", "getModuleDescription", "getModuleVersion", "getModuleBcVersion"}
ListFunctions == {"getModuleDependencies", "getModuleReverseDependencies"}
SafeFunctions == {"revokeModule", "forceUnloadModule", "forceReloadModule"}
CoreFunctions ==
  LogFunctions \cup InfoFunctions \cup ListFunctions \cup SafeFunctions \cup
  {"exitGracefully", "attachLog", "detachLog", "getModuleReferenceCount", "getActiveModules",
   "isModuleLoaded", "requestModule"}
LuaFunctions == {"evaluateLua", "evaluateLuaScript"}
ExecFunctions == {"executeShellCommand", "executeShellCommandArgs"}

\* The finalizer of xcall_core has one of the names wrong.
CoreRemoved == (CoreFunctions \ {"getActiveModules"}) \cup {"getActiveModule"}

\* The module whose code a registered function is in.
Library == [func \in {"core", "lua", "eval", "js", "exec", "xcall"} |->
  CASE func = "core" -> "xcall_core" [] func \in {"lua", "eval"} -> "lua"
    [] func = "js" -> "lang_javascript" [] func = "exec" -> "xcall_exec" [] OTHER -> "xcall"]

\* What every module here depends on is never unloaded.
Revocable == {"xcall_core", "lua", "lang_javascript", "xcall_exec"}
Modules == Revocable \cup {"xcall", "module_util"}
Dependencies(m) ==
  CASE m = "xcall_core" -> <<"xcall", "module_util">> [] m \in Revocable -> <<"xcall">> [] OTHER -> <<>>

\* What the initializers register; a name that is taken is left as it is.  (xcall_exec
\* would fail there, but the scripts do not use its names.)
Registered(table, m) ==
  CASE m = "xcall_core" -> AddAll(table, CoreFunctions, "core")
    [] m = "lua" -> AddAll(table, LuaFunctions, "eval")
    [] m = "xcall_exec" -> AddAll(table, ExecFunctions, "exec")
    [] OTHER -> table

ScriptingInit ==
  /\ loaded = Modules
  /\ functions = Registered(Registered(Registered(AddAll(<<>>, {"getXCallFunctions"}, "xcall"),
                                                "xcall_core"), "lua"), "xcall_exec")
  /\ refs = {} /\ states = {} /\ infos = <<>>
  /\ listeners = <<>> /\ count = 0 /\ handler = "default" /\ executing = FALSE
  /\ pending = <<>> /\ stack = <<>> /\ wild = "no"

-----------------------------------------------------------------------------
(* Calls: what they ask, and what is said of them in their answers *)

\* listener_xcallLog: the call of a listener.
LogCall(n) == Call(n, "meta", Array([k \in {"module", "message"} |-> Str("text")]))

Listening == {c.args.array["listener"].string : c \in {d \in Calls : "listener" \in DOMAIN d.args.array}}
AllCalls == Calls \cup {LogCall(n) : n \in Listening}
Metas == [c \in AllCalls |-> Meta(c)]
NamedCalls == {c \in AllCalls : Named(c)}
Param(call, key) == Child(CallStore(call), key)

-----------------------------------------------------------------------------
(* The stack *)

Top == Last(stack)
Below == Front(stack)
Running(kind) == stack # <<>> /\ Top.kind = kind
NoAnswer == [none |-> TRUE]

Outside == Call("", "unnamed", EmptyArray)     \* what a script serves that no call started
Script(lang, call) == [kind |-> "script", lang |-> lang, call |-> call, asked |-> Outside, got |-> NoAnswer]

\* logMessage: the default handler prints; the event's gives the message to a copy of the
\* list of listeners, each of which returns at once while one of them is executing.
LogMessage(queue, how, busy) ==
  IF how = "event" /\ ~ busy /\ queue # <<>> THEN <<[kind |-> "log", rest |-> queue]>> ELSE <<>>

Logged == LogMessage(listeners, handler, executing)

\* An answer goes to the frame below, which asked for it.
Hand(frames, answer) ==
  IF frames = <<>> THEN frames ELSE Append(Front(frames), [Last(frames) EXCEPT !.got = answer])
Deliver(frames, call, result) == Hand(frames, Answer(Metas[call], result))

\* A C function that has logged answers when the message has been given to everybody.
Answering(frames, call, result, log, library) ==
  IF log = <<>> THEN Deliver(frames, call, result)
  ELSE Append(frames, [kind |-> "answer", call |-> call, result |-> result, library |-> library]) \o log

AnswerLogged ==
  /\ Running("answer")
  /\ stack' = Deliver(Below, Top.call, Top.result)
  /\ UNCHANGED <<tables, logging, pending, wild>>

\* detachEventListener frees the entry and freeLogListenerEntry the name: lists of entries
\* that were copied, and a listener that is executing, still point to them.
Free(frames, name) ==
  [i \in DOMAIN frames |->
     CASE frames[i].kind = "log" ->
            [frames[i] EXCEPT !.rest = [j \in DOMAIN @ |-> IF @[j] = name THEN "freed" ELSE @[j]]]
       [] frames[i].kind = "listener" -> [frames[i] EXCEPT !.freed = @ \/ frames[i].name = name]
       [] OTHER -> frames[i]]

\* log_event.c listener_detached: the default handler is back with the last listener gone.
HandlerAfterDetach(n) == IF count \in 1 .. n THEN "default" ELSE handler

-----------------------------------------------------------------------------
(* Loading and unloading; the loader's messages are logged as one *)

LoadModule(m) ==
  /\ loaded' = loaded \cup {m}
  /\ functions' = Registered(functions, m)
  /\ refs' = IF m = "lua" THEN {} ELSE refs
  /\ states' = IF m = "lua" THEN {} ELSE states
  /\ infos' = IF m = "lang_javascript" THEN <<>> ELSE infos
  /\ UNCHANGED <<listeners, count, handler>>

\* The finalizers: lua removes the functions of its state too (freeLuaStateXCall),
\* lang_javascript leaves its functions registered.
Finalized(m) ==
  CASE m = "xcall_core" -> DelAll(functions, CoreRemoved)
    [] m = "lua" -> DelAll(functions, refs \cup LuaFunctions)
    [] m = "xcall_exec" -> DelAll(functions, ExecFunctions)
    [] OTHER -> functions

\* The module is unloaded and, if `again`, loaded.  xcall_core detaches its listeners.
UnloadModule(m, again) ==
  /\ loaded' = IF again THEN loaded ELSE loaded \ {m}
  /\ functions' = IF again THEN Registered(Finalized(m), m) ELSE Finalized(m)
  /\ refs' = IF m = "lua" THEN {} ELSE refs
  /\ states' = IF m = "lua" THEN states \ refs ELSE states
  /\ infos' = IF m = "lang_javascript" /\ again THEN <<>> ELSE infos
  /\ IF m = "xcall_core"
       THEN /\ listeners' = <<>> /\ count' = count - Len(listeners)
            /\ handler' = HandlerAfterDetach(Len(listeners))
       ELSE UNCHANGED <<listeners, count, handler>>

\* module_util.c: a timeout fires when nothing is running.  It revokes or unloads its
\* module, or reloads it; module_util itself it leaves alone.
TimeoutFires ==
  /\ stack = <<>> /\ pending # <<>>
  /\ LET m == Head(pending).module IN
     IF m # "module_util" /\ m \in Revocable \cap loaded
       THEN UnloadModule(m, Head(pending).name = "forceReloadModule")
       ELSE UNCHANGED <<tables, listeners, count, handler>>
  /\ pending' = Tail(pending)
  /\ stack' = LogMessage(listeners', handler', executing)
  /\ UNCHANGED <<executing, wild>>

-----------------------------------------------------------------------------
(* The functions of xcall_core *)

Success(n) == Put(NewResult, "success", Int32(n))
Unread == Put(ErrorResult, "success", Int32(0))
Names(set) == List(FoldSet(LAMBDA n, q : Append(q, Str(n)), <<>>, set))

\* getModuleAuthor, getModuleDescription, getModuleVersion and getModuleBcVersion
GetModuleInfo(call) ==
  CASE ~ Is(Param(call, "module"), "string") -> ErrorResult
    [] Param(call, "module").string \in loaded -> Put(NewResult, "info", Str("text"))
    [] OTHER -> NewResult

\* getModuleReferenceCount: those of its dependents, and the core's
GetModuleReferenceCount(call) ==
  LET m == Param(call, "module").string
      dependents == {d \in loaded : m \in Range(Dependencies(d))}
  IN  CASE ~ Is(Param(call, "module"), "string") -> ErrorResult
        [] m \in loaded -> Put(NewResult, "reference_count",
                               Int32(Cardinality(dependents) + (IF m \in Revocable THEN 1 ELSE 0)))
        [] OTHER -> NewResult

\* getModuleDependencies and getModuleReverseDependencies
GetModuleList(call) ==
  LET m == Param(call, "module").string
      found == CASE m \notin loaded -> {}
                 [] call.name = "getModuleDependencies" -> Range(Dependencies(m))
                 [] OTHER -> {d \in loaded : m \in Range(Dependencies(d))}
  IN  IF ~ Is(Param(call, "module"), "string") THEN ErrorResult ELSE Put(NewResult, "modules", Names(found))

GetActiveModules == Put(NewResult, "modules", Names(loaded))

IsModuleLoaded(call) ==
  IF ~ Is(Param(call, "module"), "string") THEN ErrorResult
  ELSE Put(NewResult, "loaded", Int32(IF Param(call, "module").string \in loaded THEN 1 ELSE 0))

Query(call) ==
  CASE call.name \in InfoFunctions -> GetModuleInfo(call)
    [] call.name \in ListFunctions -> GetModuleList(call)
    [] call.name = "getModuleReferenceCount" -> GetModuleReferenceCount(call)
    [] call.name = "getActiveModules" -> GetActiveModules
    [] call.name = "isModuleLoaded" -> IsModuleLoaded(call)
    [] call.name = "getXCallFunctions" -> GetXCallFunctions(functions)
    [] OTHER -> EmptyArray      \* exitGracefully

\* The C function that a call reaches, if its code is there.
Reaches(call, func) ==
  /\ call \in NamedCalls /\ call.name \in DOMAIN functions
  /\ functions[call.name] = func /\ Library[func] \in loaded

NoSuchFunction(frames, call) ==
  /\ call \notin NamedCalls \/ call.name \notin DOMAIN functions
  /\ stack' = Answering(frames, call, Null, Logged, "xcall")
  /\ UNCHANGED <<tables, logging, pending, wild>>

Stops(why) == wild' = why /\ UNCHANGED <<tables, logging, pending, stack>>

UnloadedFunction(call) ==
  /\ call \in NamedCalls /\ call.name \in DOMAIN functions
  /\ Library[functions[call.name]] \notin loaded
  /\ Stops("unloaded code is called")

QueryFunction(frames, call) ==
  /\ Reaches(call, "core") \/ Reaches(call, "xcall")
  /\ call.name \notin LogFunctions \cup SafeFunctions \cup {"attachLog", "detachLog", "requestModule"}
  /\ stack' = Deliver(frames, call, Query(call))
  /\ UNCHANGED <<tables, logging, pending, wild>>

LogFunction(frames, call) ==
  /\ Reaches(call, "core") /\ call.name \in LogFunctions
  /\ stack' = IF Is(Param(call, "message"), "string")
                THEN Answering(frames, call, Success(1), Logged, "xcall_core")
                ELSE Deliver(frames, call, Unread)
  /\ UNCHANGED <<tables, logging, pending, wild>>

RequestModule(frames, call) ==
  /\ Reaches(call, "core") /\ call.name = "requestModule"
  /\ LET m == Param(call, "module").string
         loads == Is(Param(call, "module"), "string") /\ m \in Revocable \ loaded
     IN  /\ IF loads THEN LoadModule(m) ELSE UNCHANGED <<tables, listeners, count, handler>>
         /\ stack' = IF ~ Is(Param(call, "module"), "string") THEN Deliver(frames, call, Unread)
                     ELSE Answering(frames, call, Success(IF loads THEN 1 ELSE 0), Logged, "xcall_core")
  /\ UNCHANGED <<executing, pending, wild>>

\* mutant: the module is revoked while the call that asks for it is running
RevokeAtOnce(frames, call) ==
  /\ Reaches(call, "core") /\ call.name \in SafeFunctions
  /\ Is(Param(call, "module"), "string") /\ Param(call, "module").string \in Revocable \cap loaded
  /\ UnloadModule(Param(call, "module").string, FALSE)
  /\ stack' = Deliver(frames, call, NewResult)
  /\ UNCHANGED <<executing, pending, wild>>

\* The caller asks for the unsafe way.
Unsafe(call) ==
  /\ call.name \in SafeFunctions \ {"forceReloadModule"}
  /\ Is(Param(call, "unsafe"), "integer") /\ Param(call, "unsafe").integer # 0

\* revokeModule, forceUnloadModule and forceReloadModule: at once if the caller says that
\* it wants the unsafe way, else by a timeout of module_util.
RevokeModule(frames, call) ==
  /\ Reaches(call, "core") /\ call.name \in SafeFunctions
  /\ LET m == Param(call, "module").string
         unread == ~ Is(Param(call, "module"), "string")
     IN  CASE unread -> /\ stack' = Deliver(frames, call, Unread)
                        /\ UNCHANGED <<tables, listeners, count, handler, pending>>
           [] ~ unread /\ Unsafe(call) ->
                /\ IF m \in Revocable \cap loaded THEN UnloadModule(m, FALSE)
                   ELSE UNCHANGED <<tables, listeners, count, handler>>
                /\ stack' = Deliver(frames, call, Success(IF m \in Revocable \cap loaded THEN 1 ELSE 0))
                /\ UNCHANGED pending
           [] OTHER -> /\ Len(pending) < MaxPending
                       /\ pending' = Append(pending, [name |-> call.name, module |-> m])
                       /\ stack' = Deliver(frames, call, NewResult)
                       /\ UNCHANGED <<tables, listeners, count, handler>>
  /\ UNCHANGED <<executing, wild>>

-----------------------------------------------------------------------------
(* Listeners to the log *)

\* attachLogListener; log_event hears of it (listener_attached) and, if the listener is
\* the first, installs its handler and logs that, before it counts the listener.
AttachListener(frames, call, n) ==
  /\ listeners' = Append(listeners, n)
  /\ handler' = IF count = 0 THEN "event" ELSE handler
  /\ stack' = Append(frames, [kind |-> "attach", call |-> call]) \o
              (IF count = 0 THEN LogMessage(listeners', handler', executing) ELSE <<>>)

AttachLog(frames, call) ==
  /\ Reaches(call, "core") /\ call.name = "attachLog"
  /\ LET n == Param(call, "listener").string IN
     CASE ~ Is(Param(call, "listener"), "string") ->
            stack' = Deliver(frames, call, Unread) /\ UNCHANGED <<listeners, handler>>
       [] n \in Range(listeners) ->
            stack' = Deliver(frames, call, Success(0)) /\ UNCHANGED <<listeners, handler>>
       [] OTHER -> AttachListener(frames, call, n)
  /\ UNCHANGED <<tables, count, executing, pending, wild>>

ListenerAttached ==
  /\ Running("attach")
  /\ count' = count + 1
  /\ stack' = Answering(Below, Top.call, Success(1), Logged, "xcall_core")
  /\ UNCHANGED <<tables, listeners, handler, executing, pending, wild>>

PlaceOf(n) == CHOOSE i \in DOMAIN listeners : listeners[i] = n

\* mutant: log_event does not hear of it
DetachUncounted(n) ==
  IF n \in Range(listeners)
    THEN /\ listeners' = RemoveAt(listeners, PlaceOf(n))
         /\ UNCHANGED count /\ handler' = HandlerAfterDetach(1)
    ELSE UNCHANGED <<listeners, count, handler>>

\* detachLogListener, with what freeLogListenerEntry and log_event do
DetachListener(n) ==
  IF n \in Range(listeners)
    THEN /\ listeners' = RemoveAt(listeners, PlaceOf(n))
         /\ count' = count - 1 /\ handler' = HandlerAfterDetach(1)
    ELSE UNCHANGED <<listeners, count, handler>>

DetachLog(frames, call) ==
  /\ Reaches(call, "core") /\ call.name = "detachLog"
  /\ LET n == Param(call, "listener").string IN
     IF ~ Is(Param(call, "listener"), "string")
       THEN stack' = Deliver(frames, call, Unread) /\ UNCHANGED <<listeners, count, handler>>
       ELSE /\ DetachListener(n)
            /\ stack' = IF n \notin Range(listeners) THEN Deliver(frames, call, Success(0))
                        ELSE Answering(Free(frames, n), call, Success(1),
                                       LogMessage(listeners', handler', executing), "xcall_core")
  /\ UNCHANGED <<tables, executing, pending, wild>>

-----------------------------------------------------------------------------
(* xcall_exec *)

\* exec.c: the output, or NULL if the process cannot be started.
CommandOutputs == {Str("text"), Null}

\* A command without output makes the C code read through NULL.
ExecFunction(frames, call) ==
  /\ Reaches(call, "exec")
  /\ LET args == Param(call, "args")
         readable == IF call.name = "executeShellCommand" THEN Is(Param(call, "command"), "string")
                     ELSE Is(args, "list") /\ \A i \in DOMAIN args.list : Is(args.list[i], "string")
     IN  \/ /\ ~ readable
            /\ stack' = Deliver(frames, call, ErrorResult)
            /\ UNCHANGED <<tables, logging, pending, wild>>
         \/ /\ readable
            /\ \E output \in CommandOutputs \ {Null} :
                 stack' = Deliver(frames, call, Put(EmptyArray, "output", output))
            /\ UNCHANGED <<tables, logging, pending, wild>>
         \/ readable /\ Null \in CommandOutputs /\ Stops("no output of a command")

-----------------------------------------------------------------------------
(* Functions written in Lua and JavaScript *)

\* xcall_luaXCallFunction finds the function by its name; its three assertions are
\* BridgeFound.
LuaFunction(frames, call) ==
  /\ Reaches(call, "lua") /\ call.name \in states \cap refs
  /\ stack' = Append(frames, Script("lua", call))
  /\ UNCHANGED <<tables, logging, pending, wild>>

\* evaluateLua and evaluateLuaScript
EvaluateLua(frames, call) ==
  /\ Reaches(call, "eval")
  /\ stack' = IF Is(Param(call, IF call.name = "evaluateLua" THEN "eval" ELSE "file"), "string")
                THEN Append(frames, Script("lua", call)) ELSE Deliver(frames, call, Unread)
  /\ UNCHANGED <<tables, logging, pending, wild>>

\* jsInvokeXCallFunction
JsFunction(frames, call) ==
  /\ Reaches(call, "js")
  /\ IF call.name \in DOMAIN infos /\ infos[call.name] = "freed"
       THEN Stops("a freed JSFunctionInfo is used")
       ELSE /\ stack' = IF call.name \notin DOMAIN infos THEN Deliver(frames, call, ErrorResult)
                        ELSE Append(frames, Script("js", call))
            /\ UNCHANGED <<tables, logging, pending, wild>>

\* invokeXCall
InvokeXCall(frames, call) ==
  \/ NoSuchFunction(frames, call)
  \/ UnloadedFunction(call)
  \/ QueryFunction(frames, call)
  \/ LogFunction(frames, call)
  \/ RequestModule(frames, call)
  \/ RevokeModule(frames, call)
  \/ AttachLog(frames, call)
  \/ DetachLog(frames, call)
  \/ ExecFunction(frames, call)
  \/ LuaFunction(frames, call)
  \/ EvaluateLua(frames, call)
  \/ JsFunction(frames, call)

InvokeXCallByString(frames, call) ==
  \/ /\ call.form = "broken"
     /\ stack' = Hand(frames, ErrorResult)
     /\ UNCHANGED <<tables, logging, pending, wild>>
  \/ call.form # "broken" /\ InvokeXCall(frames, call)

Callable == IF Top.call = Outside THEN Calls ELSE Nested
Asking(call) == Append(Below, [Top EXCEPT !.asked = call, !.got = NoAnswer])

\* The calls that can be made now, each with the stack they are made on.  Lua calls by a
\* string, or by a variable that is not declared but is the name of an XCall function,
\* which leads to the same (lua___index, lua_callXCallFunction).
Invocation(frames, call) == [frames |-> frames, call |-> call]
ScriptCalls(lang) ==
  IF Running("script") /\ Top.lang = lang /\ Len(stack) < MaxDepth
  THEN {Invocation(Asking(call), call) : call \in Callable} ELSE {}
LuaCalls == ScriptCalls("lua")

\* js_invokeXCall
JsCalls == ScriptCalls("js")

\* Other modules call while nothing is running.
OutsideCalls == IF stack = <<>> THEN {Invocation(<<>>, call) : call \in Calls} ELSE {}

\* A listener makes its call.
ListenerCalls ==
  IF Running("listener") /\ Top.got = NoAnswer THEN {Invocation(stack, LogCall(Top.name))} ELSE {}

XCallMade ==
  \E i \in LuaCalls \cup JsCalls \cup OutsideCalls \cup ListenerCalls :
    InvokeXCallByString(i.frames, i.call)

\* lua_invokeXCall with a table frees the answer before it writes it.
LuaCallsByTable ==
  Running("script") /\ Top.lang = "lua" /\ Stops("a freed answer is written")

\* mutant: the name is remembered whether or not it could be registered
LuaAddAlways ==
  /\ Running("script") /\ Top.lang = "lua"
  /\ \E n \in ScriptNames["lua"] :
       /\ functions' = With(functions, n, "lua")
       /\ states' = states \cup {n}
       /\ refs' = IF n \in DOMAIN functions THEN refs ELSE refs \cup {n}
       /\ stack' = stack \o Logged
  /\ UNCHANGED <<loaded, infos, logging, pending, wild>>

\* lua_addXCallFunction
LuaAddXCallFunction ==
  /\ Running("script") /\ Top.lang = "lua"
  /\ \E n \in ScriptNames["lua"] :
       /\ functions' = AddXCallFunction(functions, n, "lua")
       /\ refs' = IF n \in DOMAIN functions THEN refs ELSE refs \cup {n}
       /\ states' = IF n \in DOMAIN functions THEN states ELSE states \cup {n}
       /\ stack' = stack \o Logged
  /\ UNCHANGED <<loaded, infos, logging, pending, wild>>

\* lua_delXCallFunction and unregisterLuaXCallFunction
LuaDelXCallFunction ==
  /\ Running("script") /\ Top.lang = "lua"
  /\ \E n \in ScriptNames["lua"] :
       LET found == n \in states \cap refs IN
       /\ functions' = IF found THEN DelXCallFunction(functions, n) ELSE functions
       /\ refs' = IF found THEN refs \ {n} ELSE refs
       /\ states' = IF found THEN states \ {n} ELSE states
       /\ stack' = stack \o Logged
  /\ UNCHANGED <<loaded, infos, logging, pending, wild>>

\* js_addXCallFunction: the table has the new JSFunctionInfo already when the name turns
\* out to be taken and the JSFunctionInfo is freed.
JsAddXCallFunction ==
  /\ Running("script") /\ Top.lang = "js"
  /\ \E n \in ScriptNames["js"] :
       /\ infos' = With(infos, n, IF n \in DOMAIN functions THEN "freed" ELSE "alive")
       /\ functions' = AddXCallFunction(functions, n, "js")
       /\ stack' = stack \o Logged
  /\ UNCHANGED <<loaded, refs, states, logging, pending, wild>>

\* js_delXCallFunction
JsDelXCallFunction ==
  /\ Running("script") /\ Top.lang = "js"
  /\ \E n \in ScriptNames["js"] :
       /\ infos' = Without(infos, n)
       /\ functions' = IF n \in DOMAIN infos THEN DelXCallFunction(functions, n) ELSE functions
       /\ stack' = stack \o Logged
  /\ UNCHANGED <<loaded, refs, states, logging, pending, wild>>

\* What a script returns: nothing of its own, the last answer it got (as a string or as
\* a table), text that is no store, or something else; or it fails.
Endings == {"empty", "string", "table", "unparsable", "other", "error"}
Result(frame, ending) ==
  LET got == IF frame.got = NoAnswer THEN EmptyArray ELSE frame.got IN
  CASE frame.call # Outside /\ frame.call.name \in LuaFunctions ->
         IF ending = "error" THEN Put(Success(0), "lua_error", Error)
         ELSE IF ending = "string" /\ frame.call.name = "evaluateLua" THEN Put(Success(1), "lua_ret", Str("text"))
         ELSE Success(1)
    [] OTHER ->
         CASE ending = "empty" -> EmptyArray
           [] ending = "string" -> got
           [] ending = "table" -> IF frame.lang = "lua" THEN ThroughLua(got) ELSE got
           [] ending = "unparsable" -> IF frame.lang = "lua" THEN Null ELSE ErrorResult
           [] OTHER -> ErrorResult

ScriptReturns ==
  /\ Running("script")
  /\ \E ending \in Endings :
       LET log == IF ending \in {"error", "other", "unparsable"} THEN Logged ELSE <<>> IN
       stack' = IF Top.call = Outside THEN Below \o log
                ELSE Answering(Below, Top.call, Result(Top, ending), log, Library[Top.lang])
  /\ UNCHANGED <<tables, logging, pending, wild>>

-----------------------------------------------------------------------------
(* Messages and listeners *)

\* triggerEvent goes through its copy of the list of entries.
CallListener ==
  /\ Running("log")
  /\ LET rest == Top.rest
         next == Append(Below, [Top EXCEPT !.rest = Tail(rest)])
         waiting == [kind |-> "listener", name |-> Head(rest), freed |-> FALSE, got |-> NoAnswer]
     IN  \/ /\ rest = <<>>
            /\ stack' = Below
            /\ UNCHANGED <<tables, logging, pending, wild>>
         \/ rest # <<>> /\ Head(rest) = "freed" /\ Stops("a freed listener is called")
         \/ /\ rest # <<>> /\ Head(rest) # "freed"
            /\ stack' = Append(next, waiting)
            /\ executing' = TRUE
            /\ UNCHANGED <<tables, listeners, count, handler, pending, wild>>

\* With the answer: a listener that failed is detached, by its name.
ListenerDone ==
  /\ Running("listener") /\ Top.got # NoAnswer
  /\ IF ~ Failed(Top.got)
       THEN stack' = Below /\ executing' = FALSE /\ UNCHANGED <<listeners, count, handler, wild>>
       ELSE IF Top.freed THEN wild' = "a freed name is used" /\ UNCHANGED <<stack, logging>>
       ELSE /\ stack' = Free(Below, Top.name)
            /\ DetachListener(Top.name)
            /\ executing' = FALSE /\ UNCHANGED wild
  /\ UNCHANGED <<tables, pending>>

-----------------------------------------------------------------------------
(* From outside: other modules run scripts and log. *)

OutsideRuns ==
  /\ stack = <<>>
  /\ \E lang \in {"lua", "js"} :
       Library[lang] \in loaded /\ stack' = <<Script(lang, Outside)>>
  /\ UNCHANGED <<tables, logging, pending, wild>>

OutsideLogs ==
  /\ stack = <<>> /\ stack' = Logged
  /\ UNCHANGED <<tables, logging, pending, wild>>

Step ==
  \/ AnswerLogged
  \/ TimeoutFires
  \/ ListenerAttached
  \/ XCallMade
  \/ LuaCallsByTable
  \/ LuaAddXCallFunction
  \/ LuaDelXCallFunction
  \/ JsAddXCallFunction
  \/ JsDelXCallFunction
  \/ ScriptReturns
  \/ CallListener
  \/ ListenerDone
  \/ OutsideRuns
  \/ OutsideLogs

ScriptingNext == wild = "no" /\ Step

ScriptingSpec == ScriptingInit /\ [][ScriptingNext]_scriptingVars

-----------------------------------------------------------------------------
(* Properties *)

Belongs(call, answer) ==
  LET params == Said(answer, "params") IN
  /\ call.form # "unnamed" => Said(answer, "function") = Str(call.name)
  /\ \A k \in DOMAIN call.args.array :
       /\ Is(params, "array") /\ k \in DOMAIN params.array
       /\ Leaf(call.args.array[k]) => params.array[k] = call.args.array[k]

\* An answer a script gets is that of its call: it names the function that was asked for
\* and has every parameter that was given, whatever the function put into its own store
\* and whatever it called itself (invokeXCall merges the meta data last).  A parameter that
\* is a list or an array is merged with what the function has there.
AnswersBelong ==
  \A i \in DOMAIN stack :
    stack[i].kind = "script" /\ stack[i].got # NoAnswer /\ stack[i].asked.form # "broken" =>
      Belongs(stack[i].asked, stack[i].got)

\* What it asks of ThroughLua: the root of a Lua table is an array.
LuaTables == \A v : DOMAIN v = {"array"} => DOMAIN ThroughLua(v) = {"array"}

\* What CodeLoaded and BridgeFound ask of the callers: "unsafe" is not used for a module
\* whose code can be waiting on the stack.  (xcall_exec calls nobody.)
SafeCalls ==
  \A c \in Calls :
    Unsafe(c) /\ Is(Param(c, "module"), "string") =>
      Param(c, "module").string \notin {"xcall_core", "lua", "lang_javascript"}

\* The assertions of xcall_luaXCallFunction hold: a name that is registered with the Lua
\* bridge leads to the Lua state and its reference, whoever registers and removes what
\* under the same name in between.
BridgeFound ==
  \A n \in DOMAIN functions : functions[n] = "lua" => n \in states /\ n \in refs

\* No code runs, waits or is registered whose module is not loaded: a module that asks to
\* be revoked is unloaded when nothing is running.  JavaScript functions and
\* getActiveModules are left registered by the finalizers.
CodeLoaded ==
  /\ \A i \in DOMAIN stack :
       CASE stack[i].kind = "script" -> Library[stack[i].lang] \in loaded
         [] stack[i].kind = "answer" -> stack[i].library \in loaded
         [] stack[i].kind \in {"listener", "attach"} -> "xcall_core" \in loaded
         [] OTHER -> TRUE
  /\ \A n \in DOMAIN functions \ {"getActiveModules"} :
       functions[n] = "js" \/ Library[functions[n]] \in loaded

\* A listener's own messages do not come back to it or to the others: one listener at a
\* time is waiting for its function, and the flag that says so is down when none is.
OneListener ==
  /\ Cardinality({i \in DOMAIN stack : stack[i].kind = "listener"}) <= 1
  /\ executing <=> \E i \in DOMAIN stack : stack[i].kind = "listener"

\* When nothing is running, log_event's count is the number of listeners, although a
\* listener can fail and be detached before it was counted.
ListenersCounted == stack = <<>> => count = Len(listeners)

\* Listeners that log, fail and are removed while they run leave the flag and the count
\* of log_event and xcall right.
ListenersConsistent == OneListener /\ ListenersCounted

=============================================================================
