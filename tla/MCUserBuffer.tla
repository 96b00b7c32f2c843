---------------------------- MODULE MCUserBuffer ----------------------------
(* Two processes; the first has three pages on frames in another order, so *)
(* that virtual neighbours are not physical neighbours.                    *)
EXTENDS UserBuffer

MC_PageTable == <<[n \in {0, 1, 2} |-> IF n = 0 THEN 5 ELSE n + 2],
                  [n \in {1, 2} |-> n]>>

\* One- and two-byte characters, up to more than a page.
MC_Text == {<<>>, <<"a", "a">>, <<"L", "C">>, <<"a", "L", "C">>,
            <<"L", "C", "L", "C">>, <<"a", "L", "C", "a", "a", "a">>}

=============================================================================
