------------------------------- MODULE XCall -------------------------------
(***************************************************************************)
(* The xcall module (src/src/modules/xcall/xcall.c): functions registered   *)
(* under a name, called with a store and answering with one, whatever       *)
(* language they are written in.  Here are its pure parts: the store of a   *)
(* call, the meta data of an answer and the table of functions; Scripting   *)
(* has the calls themselves.  The text of an error is not told apart.       *)
(***************************************************************************)
EXTENDS StoreValue

CONSTANTS
  MergedStore(_, _), \* mergeStore of the module store
  ClonedStore(_)     \* cloneStore

\* What they do, as Store defines them, one level down.
ClonedArray(v) == Array([k \in DOMAIN v.array |-> ClonedStore(v.array[k])])
MergedArray(target, import) ==
  Array([k \in DOMAIN target.array \cup DOMAIN import.array |->
    IF k \notin DOMAIN import.array THEN target.array[k]
    ELSE IF k \in DOMAIN target.array /\ Mergeable(target.array[k], import.array[k])
      THEN MergedStore(target.array[k], import.array[k])
    ELSE ClonedStore(import.array[k])])
StoresMerge ==
  /\ \A v : Leaf(v) => ClonedStore(v) = v
  /\ \A v : Is(v, "array") => ClonedStore(v) = ClonedArray(v)
  /\ \A target, import : Mergeable(target, import) /\ Is(target, "array") =>
       MergedStore(target, import) = MergedArray(target, import)

\* A call as the program is given it: the name of the function is the value of "xcall",
\* or is in an array there, or is missing; or the text of the call is no store ("broken").
Forms == {"direct", "meta", "unnamed", "broken"}
Call(name, form, args) == [name |-> name, form |-> form, args |-> args]

CallStore(c) ==
  Array(With(c.args.array, "xcall",
    CASE c.form = "direct" -> Str(c.name)
      [] c.form = "meta" -> Array([k \in {"function"} |-> Str(c.name)])
      [] OTHER -> EmptyArray))

\* setStorePath with a path of one key, and with one below "xcall".
Put(store, key, value) == Array(With(store.array, key, value))
PutMeta(store, key, value) == Put(store, "xcall", Put(store.array["xcall"], key, value))

Error == Str("error")
NewResult == Array([k \in {"xcall"} |-> EmptyArray])
ErrorResult == PutMeta(NewResult, "error", Error)
Said(v, key) == Child(Child(v, "xcall"), key)
Failed(v) == Is(Said(v, "error"), "string")

\* The name of the function: a string at "xcall" is moved to "xcall/function" first.
FunctionOf(store) ==
  IF Is(Child(store, "xcall"), "string") THEN Child(store, "xcall")
  ELSE Said(store, "function")

Named(c) == Is(FunctionOf(CallStore(c)), "string")

\* invokeXCall: what an answer says of its call, the parameters without the name.
MetaOf(store, name) ==
  LET params == ClonedStore(Array(Without(store.array, "xcall")))
      said == IF Is(name, "string") THEN [k \in {"function"} |-> name] ELSE EmptyArray.array
  IN  Array([k \in {"xcall"} |-> Array(With(said, "params", params))])
Meta(c) == MetaOf(CallStore(c), FunctionOf(CallStore(c)))

\* mutant: what the function returned is merged into the meta data
AnswerSwapped(meta, result) ==
  IF Is(result, "null") THEN PutMeta(meta, "error", Error) ELSE MergedStore(meta, result)

\* The answer: what the function returned with the meta data merged into it, or the meta
\* data alone if there is no function or it returned no store.
Answer(meta, result) ==
  IF Is(result, "null") THEN PutMeta(meta, "error", Error) ELSE MergedStore(result, meta)

\* addXCallFunction leaves a name alone that is taken; delXCallFunction takes any.
AddXCallFunction(functions, name, func) ==
  IF name \in DOMAIN functions THEN functions ELSE With(functions, name, func)
DelXCallFunction(functions, name) == Without(functions, name)

AddAll(functions, names, func) ==
  [n \in DOMAIN functions \cup names |-> IF n \in DOMAIN functions THEN functions[n] ELSE func]
DelAll(functions, names) == [n \in DOMAIN functions \ names |-> functions[n]]

\* getXCallFunctions
GetXCallFunctions(functions) ==
  Put(NewResult, "functions", List(FoldSet(LAMBDA n, q : Append(q, Str(n)), <<>>, DOMAIN functions)))
=============================================================================
