---------------------------- MODULE MCScripting ----------------------------
(* Scripting with a few calls: both languages register "f", and a log      *)
(* listener may name a function that is not there.                         *)
EXTENDS Scripting

With1(key, value) == Array(key :> value)
Of(module) == With1("module", Str(module))

MCCalls ==
  {Call("f", form, With1("a", Str("x"))) : form \in {"direct", "meta"}} \cup
  {Call("f", "unnamed", EmptyArray), Call("f", "broken", EmptyArray),
   Call("attachLog", "direct", With1("listener", Str("f"))), Call("attachLog", "meta", EmptyArray),
   Call("attachLog", "direct", With1("listener", Str("ghost"))),
   Call("detachLog", "direct", With1("listener", Str("f"))), Call("detachLog", "meta", EmptyArray),
   Call("logInfo", "direct", With1("message", Str("x"))),
   Call("isModuleLoaded", "direct", Of("lua")), Call("getModuleVersion", "meta", Of("lua")),
   Call("getModuleReferenceCount", "direct", Of("xcall_core")),
   Call("getModuleReverseDependencies", "direct", Of("xcall")), Call("getActiveModules", "direct", EmptyArray),
   Call("requestModule", "direct", Of("lua")), Call("requestModule", "direct", EmptyArray),
   Call("revokeModule", "direct", Of("lua")),
   Call("revokeModule", "direct", Array("module" :> Str("xcall_core") @@ "unsafe" :> Int32(0))),
   Call("forceUnloadModule", "direct", Of("lang_javascript")),
   Call("forceReloadModule", "direct", Of("lua")), Call("forceReloadModule", "direct", EmptyArray),
   Call("revokeModule", "direct", Array("module" :> Str("xcall_exec") @@ "unsafe" :> Int32(1))),
   Call("executeShellCommand", "direct", With1("command", Str("x"))),
   Call("executeShellCommandArgs", "direct", With1("args", List(<<Str("x"), Int32(1)>>))),
   Call("evaluateLua", "direct", With1("eval", Str("x"))), Call("evaluateLua", "direct", EmptyArray)}
MCNested ==
  {c \in MCCalls : c.form = "direct" /\ c.name \in {"f", "detachLog", "isModuleLoaded", "revokeModule"}}
L == INSTANCE LuaStore
MCMergedStore(target, import) == L!MergeStore(target, import)
MCClonedStore(v) == L!CloneStore(v)
MCThroughLua(v) == L!FromLua(L!ToLua(v), FALSE)

ASSUME MCSafeCalls == SafeCalls

MCScriptNames == [lang \in {"lua", "js"} |-> {"f"}]
=============================================================================
