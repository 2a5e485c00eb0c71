----------------------------- MODULE Selection -----------------------------
(***************************************************************************)
(* Parts of sequences, told by their places, and sequences made of parts.  *)
(* Unlike those of Sequences and SequencesExt, these operators take no     *)
(* operator as an argument and are no folds, so that theorems can be       *)
(* proved of them.                                                         *)
(***************************************************************************)
EXTENDS Naturals, Sequences, FiniteSetsExt

\* The elements of s at some of its places, in order.
Selected(s, places) ==
  LET upTo[n \in 0 .. Len(s)] ==
        IF n = 0 THEN <<>>
        ELSE IF n \in places THEN Append(upTo[n - 1], s[n]) ELSE upTo[n - 1]
  IN  upTo[Len(s)]

\* The elements of all the parts, one part after the other.
Concatenated(parts) ==
  LET upTo[n \in 0 .. Len(parts)] == IF n = 0 THEN <<>> ELSE upTo[n - 1] \o parts[n]
  IN  upTo[Len(parts)]

\* The last of some places, 0 if there is none.
LastPlace(places) == IF places = {} THEN 0 ELSE Max(places)

\* The elements of one of the types.
OfType(s, types) == Selected(s, {k \in DOMAIN s : s[k].type \in types})
=============================================================================
