------------------------- MODULE MCChallengeHeaders -------------------------
(***************************************************************************)
(* The headers TLC gives to the readers of ChallengeHeaders: every short   *)
(* sequence of symbols, and every short list of fields a server may mean.  *)
(***************************************************************************)
EXTENDS ChallengeHeaders

CONSTANTS MaxSymbols, MaxFragments, MaxFields    \* bounds of the headers

MCLetters == {"a", "b", "c", "Bearer", "Uri"}

UpTo(n, S) == UNION {[1..k -> S] : k \in 0..n}

Symbols == {"a", " ", "=", ",", "\"", "\\"}
MCPKeyAuthHeaders == UpTo(MaxSymbols, Symbols)

Fragments ==
    {<<"Bearer", " ">>, <<"Uri", "=">>, <<"\"", "a", "\"">>, <<",">>, <<" ">>, <<"\"">>, <<"'">>}
MCBearerHeaders == {FlattenSeq(s) : s \in UpTo(MaxFragments, Fragments)}

Field(scheme, name, value, white, quoted) ==
    [scheme |-> scheme, name |-> name, value |-> value, white |-> white, quoted |-> quoted]

PKeyAuthFields ==
    {Field("", name, value, white, TRUE) :
        name \in {"a", "b"}, value \in {<<>>, <<"a", ",", " ", "a", "=">>}, white \in {<<>>, <<" ">>}}
    \cup {Field("", "a", <<"b">>, white, FALSE) : white \in {<<>>, <<" ">>}}

BearerFields ==
    {Field(scheme, "Uri", value, <<>>, TRUE) :
        scheme \in {"Bearer", "b"}, value \in {<<"a">>, <<"a", ",", "'">>, <<"a", " ">>}}
    \cup {Field("", name, value, <<" ">>, TRUE) :
        name \in {"Uri", "c"}, value \in {<<>>, <<"b", ",", "=">>}}

Lists(fields) == UpTo(MaxFields, fields) \ {<<>>}
MCPKeyAuthLists == Lists(PKeyAuthFields)
MCBearerLists == Lists(BearerFields)
=============================================================================
