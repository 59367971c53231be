---------------------------- MODULE MCHybridIndex ----------------------------
(* A model-checking instance of HybridIndex.                                 *)
EXTENDS HybridIndex, TLC

Doc(title, body) == [title |-> title, body |-> body]

SomeContents ==
    {Doc(<<"a">>, <<"a">>), Doc(<<"a">>, <<"a", "b">>), Doc(<<"b">>, <<"b">>),
     Doc(<<"b">>, <<"a", "b", "b", "b">>), Doc(<<"z">>, <<"a">>)}

SomeQueries == {<< >>, <<"a">>, <<"b", "b">>, <<"b", "c", "a">>, <<"z">>}

\* Texts with more "b" are further from the start of the half circle.
AngleOf(text) == Cardinality({i \in DOMAIN text : text[i] = "b"})

\* The features of this term cancel each other.
HasZ(text) == \E i \in DOMAIN text : text[i] = "z"

\* Some node is on a higher level than those before and after it.
LevelOf(id) == IF id = 2 THEN 2 ELSE IF id = 4 THEN 1 ELSE 0

\* Title terms weigh more than body terms, rare terms more than common ones, and
\* terms of a short document more than those of a long one.
Relevance(posting, lengths, frequency, stats) ==
    ((5 * posting.titleFrequency + 2 * posting.bodyFrequency) * (1 + stats.documents - frequency)
        * (stats.title + stats.body + 1))
    \div (stats.documents * (lengths.title + lengths.body + 1))
=============================================================================
