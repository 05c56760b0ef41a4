----------------------------- MODULE StoreValue -----------------------------
(***************************************************************************)
(* The values of stores (src/src/modules/store): trees of arrays, lists    *)
(* and leaves, and a step down in them.  A value is a record with one      *)
(* field, named for its type; a float number is the text that "%f" writes  *)
(* for it.  Strings are TLA+ strings; Char(s, i) is a character.           *)
(***************************************************************************)
EXTENDS Integers, Sequences, FiniteSets, SequencesExt, FiniteSetsExt, TLC

Str(s) == [string |-> s]
Int32(n) == [integer |-> n]
List(q) == [list |-> q]
Array(f) == [array |-> f]

EmptyArray == Array([k \in {} |-> 0])
Null == [null |-> TRUE]

Is(v, type) == type \in DOMAIN v

Char(s, i) == SubSeq(s, i, i)

\* atoi: the number a string starts with, or 0.
Numbers == -12 .. 12
Numeral == [n \in Numbers |-> ToString(n)]
Atoi(s) ==
  LET read == {n \in Numbers : Numeral[n] = SubSeq(s, 1, Min({Len(Numeral[n]), Len(s)}))}
  IN  IF read = {} THEN 0 ELSE CHOOSE n \in read : \A m \in read : Len(Numeral[m]) <= Len(Numeral[n])

-----------------------------------------------------------------------------
(* A step down, and arrays *)

Element(q, n) == IF n \in 0 .. (Len(q) - 1) THEN q[n + 1] ELSE Null
Child(v, name) ==
  CASE Is(v, "array") -> IF name \in DOMAIN v.array THEN v.array[name] ELSE Null
    [] Is(v, "list") -> Element(v.list, Atoi(name))
    [] OTHER -> Null

With(f, key, v) == [k \in DOMAIN f \cup {key} |-> IF k = key THEN v ELSE f[k]]
Without(f, key) == [k \in DOMAIN f \ {key} |-> f[k]]

\* mergeStore fails for leaves and for values of different types.
Leaf(v) == ~ Is(v, "array") /\ ~ Is(v, "list")
Mergeable(v, w) == DOMAIN v = DOMAIN w /\ ~ Leaf(v)
=============================================================================
