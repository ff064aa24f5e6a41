----------------------------- MODULE MCArchive -----------------------------
(* Small directories: digits to base 2, bytes that look like headers, and a *)
(* name that begins with the archive's.                                     *)
EXTENDS Archive

Letter == Base + 1
NamesApart == {<<Letter>>, <<Letter, 1>>, <<1>>, <<0, Letter>>}
NameOfArchive == <<0>>
SmallContents == {<<>>, <<Base, Letter>>, <<1, Base, 1, Base>>, <<Letter, Letter, Base>>}

\* None; of one file; of two, longer than most.
Older ==
  LET one == <<Letter, Base, 1, 0, Base, 1, 1>>
  IN {<<>>, one, one \o <<1, Base, 1, 0, 0, Base, Letter, Base, 0, Base>>}
OlderFiles == {[n \in {} |-> <<>>], [n \in {<<Letter>>} |-> <<1, 1, 1>>]}
=============================================================================
