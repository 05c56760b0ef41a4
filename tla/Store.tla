------------------------------- MODULE Store -------------------------------
(***************************************************************************)
(* Operations on stores (src/src/modules/store): the paths into them,      *)
(* copying and merging.                                                    *)
(***************************************************************************)
EXTENDS StoreValue

-----------------------------------------------------------------------------
(* Paths *)

\* splitStorePath: the parts of a path between its unescaped delimiters; <<>> if a
\* character is escaped that needs none.
RECURSIVE SplitFrom(_, _, _, _)
SplitFrom(path, i, parts, escaping) ==
  LET c == Char(path, i)
      delimits == c = "/" /\ ~ escaping
      escapes == c = "\\" /\ ~ escaping
  IN  IF i > Len(path) THEN parts
      ELSE IF escaping /\ c \notin {"\\", "/"} THEN <<>>
      ELSE SplitFrom(path, i + 1,
             IF delimits THEN Append(parts, "")
             ELSE ReplaceAt(parts, Len(parts), Last(parts) \o (IF escapes THEN "" ELSE c)), escapes)

SplitStorePath(path) == SplitFrom(path, 1, <<"">>, FALSE)

RECURSIVE Descend(_, _)
Descend(v, parts) == IF parts = <<>> THEN v ELSE Descend(Child(v, Head(parts)), Tail(parts))

\* getStorePath reads the parts one by one; it overlooks an empty one at the end, and
\* an empty path is the value itself.
StepsOf(parts) == IF parts # <<>> /\ Last(parts) = "" THEN Front(parts) ELSE parts
Steps(path) == StepsOf(SplitStorePath(path))

GetByParts(v, path, parts) ==
  IF path # "" /\ parts = <<>> THEN Null ELSE Descend(v, StepsOf(parts))
GetStorePath(v, path) == GetByParts(v, path, SplitStorePath(path))

\* g_queue_push_nth
PushNth(q, n, v) ==
  IF n < 0 \/ n >= Len(q) THEN Append(q, v) ELSE InsertAt(q, n + 1, v)

\* The value with its part at the end of `parts` replaced.
RECURSIVE Replace(_, _, _)
Replace(v, parts, new) ==
  LET Put(below) == IF Is(v, "array") THEN Array(With(v.array, Head(parts), below))
                    ELSE List(ReplaceAt(v.list, Atoi(Head(parts)) + 1, below))
  IN  IF parts = <<>> THEN new ELSE Put(Replace(Child(v, Head(parts)), Tail(parts), new))

JoinPath(parts) == IF parts = <<>> THEN "" ELSE FoldLeft(LAMBDA s, p : s \o "/" \o p, Head(parts), Tail(parts))

\* setStorePath and deleteStorePath look the parent up by its parts joined without their
\* escapes, and change it if they can; Null if not.
ChangeParent(store, up, new) ==
  IF new = Null THEN [ok |-> FALSE, store |-> store]
  ELSE [ok |-> TRUE, store |-> Replace(store, Steps(up), new)]

SetIn(parent, key, value) ==
  CASE Is(parent, "array") -> Array(With(parent.array, key, value))
    [] Is(parent, "list") -> List(PushNth(parent.list, Atoi(key), value))
    [] OTHER -> Null
SetBelow(store, up, key, value) ==
  ChangeParent(store, up, SetIn(GetStorePath(store, up), key, value))
SetByParts(store, parts, value) == SetBelow(store, JoinPath(Front(parts)), Last(parts), value)
SetStorePath(store, path, value) == SetByParts(store, SplitStorePath(path), value)

RemoveNth(q, n) == IF n \in 0 .. (Len(q) - 1) THEN List(RemoveAt(q, n + 1)) ELSE Null
DeleteIn(parent, key) ==
  CASE Is(parent, "array") -> IF key \in DOMAIN parent.array THEN Array(Without(parent.array, key)) ELSE Null
    [] Is(parent, "list") -> RemoveNth(parent.list, Atoi(key))
    [] OTHER -> Null
DeleteBelow(store, up, key) == ChangeParent(store, up, DeleteIn(GetStorePath(store, up), key))
DeleteByParts(store, parts) == DeleteBelow(store, JoinPath(Front(parts)), Last(parts))
DeleteStorePath(store, path) == DeleteByParts(store, SplitStorePath(path))

-----------------------------------------------------------------------------
(* Copies *)

\* cloneStore: nothing of the copy is shared with the original.
RECURSIVE CloneStore(_)
CloneStore(v) ==
  CASE Is(v, "array") -> Array([k \in DOMAIN v.array |-> CloneStore(v.array[k])])
    [] Is(v, "list") -> List([i \in DOMAIN v.list |-> CloneStore(v.list[i])])
    [] OTHER -> v

\* mutant: what is in the target already stays
RECURSIVE MergeOlder(_, _)
MergeOlder(target, import) ==
  CASE ~ Mergeable(target, import) -> target
    [] Is(target, "list") -> List(target.list \o CloneStore(import).list)
    [] OTHER -> Array([k \in DOMAIN target.array \cup DOMAIN import.array |->
         IF k \notin DOMAIN target.array THEN CloneStore(import.array[k])
         ELSE IF k \notin DOMAIN import.array THEN target.array[k]
         ELSE MergeOlder(target.array[k], import.array[k])])

\* In an array, a value that cannot be merged is replaced.
RECURSIVE MergeStore(_, _)
MergeStore(target, import) ==
  CASE ~ Mergeable(target, import) -> target
    [] Is(target, "list") -> List(target.list \o CloneStore(import).list)
    [] OTHER -> Array([k \in DOMAIN target.array \cup DOMAIN import.array |->
         IF k \notin DOMAIN import.array THEN target.array[k]
         ELSE IF k \in DOMAIN target.array /\ Mergeable(target.array[k], import.array[k])
           THEN MergeStore(target.array[k], import.array[k])
         ELSE CloneStore(import.array[k])])
=============================================================================
