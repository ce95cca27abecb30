------------------------------ MODULE MCPrintf ------------------------------
(***************************************************************************)
(* Single directives in every combination of flag, width, precision and    *)
(* size, and pairs of which the first sets everything that the second must *)
(* not see.  An int has 8 bits here, a long long 12.                       *)
(***************************************************************************)
EXTENDS Printf

Item(before, fl, w, p, longs, conv, stars, value) ==
  [before |-> before, flags |-> fl, width |-> w, precision |-> p, longs |-> longs,
   conv |-> conv, stars |-> stars, value |-> value]

Characters ==
  Known \cup {Hexdigits[k] : k \in 1 .. 16}
    \cup {NUL, " ", "(", "n", ")", "r", "?", "E", "X", "\t", "z"}

Plain(conv, value) == Item(<<"a">>, <<>>, None, None, 0, conv, <<>>, value)

Strings ==
  {Item(<<>>, fl, w, p, 0, "s", stars, v) :
     fl \in {<<>>, <<"-">>, <<"0">>, <<"#">>}, w \in {None, 3, Star}, p \in {None, 1, Star},
     stars \in {<<4, 2>>, <<0, 0>>, <<-1, -1>>},
     v \in {NULL, <<NUL>>, <<"a", "\t", NUL>>, <<"a", "b", "c", "d", NUL>>}}

Numbers(fl) ==
  {Item(<<"a">>, fl, w, None, longs, conv, <<4>>, v) :
     w \in {None, 2, 12, Star}, longs \in 0 .. 2, conv \in {"d", "u", "x", "p"},
     v \in {-5, 0, 7, 10, 113}}
  \cup {Item(<<>>, fl, w, None, 2, conv, <<4>>, 2748) :
          w \in {None, 2, 5}, conv \in {"d", "u", "x"}}

Others ==
  {Plain(c, 0) : c \in {"%", "o", "z", NUL}}
  \cup {Plain("e", v) : v \in {-2, 0, 2, 3}}
  \cup {Plain("c", "b")}
  \cup {Item(<<>>, <<fl>>, w, p, 1, c, <<1, 1>>, 0) :
          fl \in {"0", "#"}, w \in {None, 12}, p \in {None, Star}, c \in {"z", NUL}}

Setting ==
  {Item(<<>>, <<fl>>, w, p, 2, conv, <<4, 1>>, v) :
     fl \in {"-", "0", "#"}, w \in {3, Star}, p \in {1, Star},
     conv \in {"s"}, v \in {<<"a", "\t", NUL>>}}
  \cup {Item(<<>>, <<"0">>, 3, None, 2, "x", <<>>, 2748)}
Unset ==
  {Plain("s", <<"\t", "b", NUL>>), Plain("d", 7), Plain("u", -1), Plain("z", 0),
   Item(<<>>, <<>>, 3, None, 0, "d", <<>>, 7), Item(<<>>, <<>>, 3, None, 0, "s", <<>>, <<"b", NUL>>)}

Printed ==
  {<<d>> : d \in Strings \cup Numbers(<<>>) \cup Numbers(<<"0">>) \cup Others}
  \cup {<<c, d>> : c \in Setting, d \in Unset}
BufferSizes == {0, 1, 4, 20}
=============================================================================
