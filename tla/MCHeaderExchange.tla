------------------------- MODULE MCHeaderExchange -------------------------
(***************************************************************************)
(* Schemas and requests for HeaderExchange.                                *)
(***************************************************************************)
EXTENDS HeaderExchange

Zeros(n) == [i \in 1..n |-> 0]

\* One chain of 8 namespaces of the same name under a root with 17 siblings,
\* of which the last has the name of the one before it.
DeepNested ==
    [p \in {<<>>} \cup {Zeros(n) : n \in 1..8} \cup {<<i>> : i \in 1..17}
            \cup {<<0, 1>>, <<15, 0>>, <<15, 1>>} |->
        IF p = <<>> THEN <<"a">> \o [i \in 1..15 |-> "n" \o ToString(i)]
                                 \o <<"n16", "n16">>
        ELSE IF p = <<0>> THEN <<"a", "b">>
        ELSE IF p = <<15>> THEN <<"c", "d">>
        ELSE IF p \in {Zeros(n) : n \in 2..7} THEN <<"a">>
        ELSE <<>>]

\* Every namespace there is, an absent one, and no name at all.
DeepNameLists ==
    {NamesAlong(p) : p \in Paths} \cup {<<"x">>, <<"a", "x">>}

\* 257 siblings at the root, asked for by the names at the boundaries.
WideNested ==
    [p \in {<<>>} \cup {<<i>> : i \in 0..256} |->
        IF p = <<>> THEN [i \in 1..257 |-> "n" \o ToString(i - 1)] ELSE <<>>]

WideNameLists == {<<"n" \o ToString(i)>> : i \in {0, 15, 16, 127, 128, 255, 256}}

============================================================================
