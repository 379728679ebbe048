------------------------------- MODULE MCFormat -------------------------------
(* Numbers of eight bits with shorts of six and chars of four, so that every *)
(* kind overflows; one directive with every set of flags, a field narrower   *)
(* and wider than the text, given and passed precisions below, at and above  *)
(* the number of digits; and two directives in buffers that end anywhere.    *)
EXTENDS Format

None       == [kind |-> "none", n |-> 0]
Literal_(n) == [kind |-> "literal", n |-> n]
Star(n)    == [kind |-> "star", n |-> n]

Item(before, flags, width, prec, len, conv, arg) ==
    [before |-> before, flags |-> flags, width |-> width, prec |-> prec,
     len |-> len, conv |-> conv, arg |-> arg]
Calls_(seqs, tails, sizes) ==
    {[items |-> s, tail |-> t, bufsz |-> n, buffer |-> b] :
        s \in seqs, t \in tails, n \in sizes, b \in {TRUE}}

Flags == {<<>>, <<"-">>, <<"0">>, <<"+">>, <<" ">>, <<"#">>, <<"0", "#">>,
          <<"-", "0">>, <<"+", "0">>, <<"+", " ">>, <<"#", "+", "-">>}
Widths == {None, Literal_(3), Literal_(12), Star(5), Star(-5)}
Precs  == {None, Literal_(0), Literal_(3), Star(2), Star(-1)}

Numbers ==
    {Item(<<"a">>, f, w, p, l, c, <<Num(v)>>) :
        f \in Flags, w \in Widths, p \in Precs, l \in {<<>>, <<"h", "h">>},
        c \in {"d", "o", "X"}, v \in {0, 5, -128}}
    \cup {Item(<<>>, f, w, p, l, c, <<Num(v)>>) :
        f \in Flags, w \in {None, Star(-5)}, p \in {None, Literal_(3)},
        l \in {<<"h">>, <<"l">>}, c \in {"i", "u", "x"}, v \in {9, 40, -1}}
    \cup {Item(<<>>, f, w, None, <<>>, c, <<Num(v)>>) :
        f \in Flags, w \in Widths, c \in {"p", "b", "B"}, v \in {0, 10, 255}}

Texts ==
    {Item(<<>>, f, w, p, <<>>, "s", <<Str(v)>>) :
        f \in {<<>>, <<"-">>}, w \in Widths, p \in Precs,
        v \in {NULL, <<>>, <<"x", "y", "z", "w">>}}
    \cup {Item(<<>>, f, w, None, <<>>, "c", <<Str(<<"x">>)>>) :
        f \in {<<>>, <<"-">>}, w \in Widths}
Percent == Item(<<"%", "?">>, <<>>, None, None, <<>>, "%", <<>>)
Count(len) == Item(<<"a">>, <<>>, None, None, len, "n", <<>>)

\* The two calls of the program: "%s %s", and "%s root= 0x%x 0x%x ".
Two ==
    {<<x, y>> : x \in {Item(<<>>, <<>>, None, None, <<>>, "s", <<Str(v)>>) :
                          v \in {NULL, <<"x", "y", "z">>}},
                y \in {Item(<<" ">>, <<>>, None, None, <<>>, "s", <<Str(v)>>) :
                          v \in {NULL, <<"x", "y", "z">>}}
                    \cup {Item(<<" ", "0", "x">>, <<>>, None, None, <<>>, "x",
                               <<Num(v)>>) : v \in {0, 171}}
                    \cup {Item(<<"a">>, <<"0">>, Star(4), Star(-1), <<>>, "d",
                               <<Num(-3)>>)}
                    \cup {Percent, Count(<<>>), Count(<<"h", "h">>)}}
Three ==
    {<<x, Item(<<>>, <<>>, Literal_(w), None, <<>>, "u", <<Num(7)>>), y>> :
        x \in {Percent, Count(<<>>)}, y \in {Percent, Count(<<"h", "h">>)},
        w \in {2, 9}}

MCCharacters == ToSet(UpperDigits) \cup ToSet(Digits) \cup FlagChars
                \cup Conversions \cup {"?", "y", "z", "w"}

MCCalls ==
    Calls_({<<x>> : x \in Numbers \cup Texts}, {<<>>}, {24})
    \cup Calls_(Two \cup Three, {<<>>, <<"b", "%">>}, 0 .. 12)
    \cup {[items |-> s, tail |-> <<>>, bufsz |-> 4, buffer |-> FALSE] : s \in Two}
==============================================================================
