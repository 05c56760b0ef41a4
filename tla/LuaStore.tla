------------------------------ MODULE LuaStore ------------------------------
(***************************************************************************)
(* Stores in Lua (src/src/modules/lua/store.c).  A Lua value is a number,  *)
(* a string or a table; a table is [keys |-> its keys in the order in which *)
(* lua_next gives them, values |-> ...].  A number that is read back is an  *)
(* integer if it has no fraction, and Lua takes a string for a number where *)
(* it reads as one.                                                         *)
(***************************************************************************)
EXTENDS Store

\* mutant: the elements of a list are counted from 0
RECURSIVE ToLuaZero(_)
ToLuaZero(v) ==
  CASE Is(v, "array") ->
         [keys |-> SetToSeq(DOMAIN v.array),
          values |-> LET q == SetToSeq(DOMAIN v.array) IN [i \in DOMAIN q |-> ToLuaZero(v.array[q[i]])]]
    [] Is(v, "list") ->
         [keys |-> [i \in DOMAIN v.list |-> ToString(i - 1)],
          values |-> [i \in DOMAIN v.list |-> ToLuaZero(v.list[i])]]
    [] OTHER -> v

\* parseStoreToLua: the keys of a list are numbers; the order of the strings that are
\* the keys of an array is Lua's.
RECURSIVE ToLua(_)
ToLua(v) ==
  CASE Is(v, "array") ->
         [keys |-> SetToSeq(DOMAIN v.array),
          values |-> LET q == SetToSeq(DOMAIN v.array) IN [i \in DOMAIN q |-> ToLua(v.array[q[i]])]]
    [] Is(v, "list") ->
         [keys |-> [i \in DOMAIN v.list |-> ToString(i)],
          values |-> [i \in DOMAIN v.list |-> ToLua(v.list[i])]]
    [] OTHER -> v

\* lua_isnumber and the comparison of the two readings of a number.
Fraction(f) == \E n \in 1 .. Len(f) : Char(f, n) = "." /\ SubSeq(f, n + 1, Len(f)) # "0"
IsNumeric(s) == \E n \in Numbers : ToString(n) = s
LeafFromLua(v) ==
  CASE Is(v, "string") -> IF IsNumeric(v.string) THEN Int32(Atoi(v.string)) ELSE v
    [] Is(v, "float") -> IF Fraction(v.float) THEN v ELSE Int32(Atoi(v.float))
    [] OTHER -> v

\* parseLuaToStoreRec: a table is a list as long as its keys are 1, 2, and so on, and
\* becomes an array, with what was read so far, at the first that is not; the root is
\* never a list.
RECURSIVE FromLua(_, _)
FromLua(v, allowList) ==
  LET n == Len(v.keys)
      AsList == allowList /\ \A i \in 1 .. n : v.keys[i] = ToString(i)
  IN  CASE ~ Is(v, "keys") -> LeafFromLua(v)
        [] AsList -> List([i \in 1 .. n |-> FromLua(v.values[i], TRUE)])
        [] OTHER -> Array([k \in Range(v.keys) |->
             FromLua(v.values[CHOOSE i \in 1 .. n : v.keys[i] = k], TRUE)])

\* What Lua can tell from something else: no array is empty or has a number for a key,
\* no string is a number, no float is a whole number.
RECURSIVE LuaKnows(_, _)
LuaKnows(v, isRoot) ==
  CASE Is(v, "array") -> /\ isRoot \/ DOMAIN v.array # {}
                         /\ \A k \in DOMAIN v.array : ~ IsNumeric(k) /\ LuaKnows(v.array[k], FALSE)
    [] Is(v, "list") -> \A i \in DOMAIN v.list : LuaKnows(v.list[i], FALSE)
    [] OTHER -> LeafFromLua(v) = v
=============================================================================
