-------------------------- MODULE MCRekordboxApps ---------------------------
(***************************************************************************)
(* A small instance of the thirteen rekordbox applications for TLC: a      *)
(* behaviour is one of one of them.                                        *)
(***************************************************************************)
EXTENDS RekordboxApps

WheelOnly == {"key-wheel"}

-----------------------------------------------------------------------------
\* A database with more tracks than rows, a shorter one and an empty one.
SmallDatabases == [large |-> <<"a", "b", "c", "d">>, small |-> <<"e">>, empty |-> <<>>]

\* Every kind of data is missing for some track.
SmallAnalysed == [cues |-> {"a", "c", "e"}, structure |-> {"a", "b"},
                  grid |-> {"a", "b", "c"}, waveforms |-> {"b", "e"}]

SmallLength == [a |-> 3, b |-> 1, c |-> 2, d |-> 1, e |-> 1]

\* A track without loops, and two with equally many; two with the same title.
SmallLoops == [a |-> 0, b |-> 2, c |-> 1, d |-> 2, e |-> 1]
SmallTitle == [a |-> 2, b |-> 1, c |-> 2, d |-> 3, e |-> 1]

\* Artists, albums and genres: more than rows, one, none.
SmallItems == [large |-> <<<<>>, <<"p", "q", "r">>, <<"s">>, <<>>>>,
               small |-> <<<<>>, <<"p">>, <<>>, <<"g">>>>,
               empty |-> <<<<>>, <<>>, <<>>, <<>>>>]

SmallBpm == [a |-> 2, b |-> 4, c |-> 5, d |-> 4, e |-> 7]

\* Panels: x has children with and without children of their own, y has none.
SmallTop == [large |-> <<"x", "y", "z">>, small |-> <<"z">>, empty |-> <<>>]
SmallChildren == [x |-> <<"t", "u">>, y |-> <<>>, z |-> <<"u", "t", "v">>,
                  t |-> <<"1", "2", "3">>, u |-> <<>>, v |-> <<"3">>]

\* Keys beside each other across the top of the wheel, some without tracks.
Key(name, tracks) == [name |-> name, tracks |-> tracks]
SmallKeys == [large |-> {Key(<<"A", "b", "m">>, <<"1", "2", "3">>), Key(<<"D", "b", "m">>, <<>>),
                         Key(<<"A", "m">>, <<"4">>), Key(<<"C">>, <<>>)},
              small |-> {Key(<<"E", "m">>, <<"1">>), Key(<<"C", "#", "m">>, <<>>)},
              empty |-> {}]

\* Keys called as in the table, one in each ring.
TwoKeys == [large |-> {Key(<<"A", "m">>, <<>>), Key(<<"E">>, <<>>)}]
=============================================================================
