-------------------------------- MODULE Text --------------------------------
(***************************************************************************)
(* Texts, and the ways in which the modules of the repository cut what     *)
(* arrives on a socket into lines.  A text is a sequence of symbols; "LF", *)
(* "CR" and "SP" stand for the characters of these names, any other symbol *)
(* for a piece of text without one of them.                                *)
(***************************************************************************)
EXTENDS Selection, SequencesExt, FiniteSetsExt

\* g_strsplit: the parts between separators; an empty text has no part.
Split(s, sep) ==
  LET cuts == {i \in DOMAIN s : s[i] = sep}
      Cut(k) == IF k = 0 THEN 0 ELSE IF k > Cardinality(cuts) THEN Len(s) + 1 ELSE Nth(cuts, k)
  IN IF s = <<>> THEN <<>>
     ELSE [k \in 1..(Cardinality(cuts) + 1) |-> SubSeq(s, Cut(k - 1) + 1, Cut(k) - 1)]

Has(s, sym) == \E i \in DOMAIN s : s[i] = sym

\* g_strdelimit(part, "\r", ' ') and g_strstrip(part).
Strip(s) ==
  LET t == [i \in DOMAIN s |-> IF s[i] = "CR" THEN "SP" ELSE s[i]]
      ink == {i \in DOMAIN t : t[i] # "SP"}
  IN IF ink = {} THEN <<>> ELSE SubSeq(t, Min(ink), Max(ink))

\* Clients of the line server (processClientBuffer).
ServerLines(buf) ==
  LET parts == Split(buf, "LF") IN
  IF parts = <<>> THEN [lines |-> <<>>, rest |-> <<>>]
  ELSE [lines |-> [i \in 1..(Len(parts) - 1) |-> Strip(parts[i])], rest |-> Last(parts)]
=============================================================================
