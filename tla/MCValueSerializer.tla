------------------------- MODULE MCValueSerializer -------------------------
(* Model-checking instance of ValueSerializer: W = 4, so u64 is 0..15 and  *)
(* i64 is -8..7; strings over two characters; items nested two deep.      *)
EXTENDS ValueSerializer

S(x) == [k |-> "str", s |-> x]
IntD(ty, n) == [k |-> "int", ty |-> ty, n |-> n]
UV(x) == [k |-> "unit_variant", var |-> x]
NT(d) == [k |-> "newtype_struct", x |-> d]

\* Sequences of length 0..n over the set X.
UpTo(X, n) == UNION {[1..m -> X] : m \in 0..n}

Strings == {<<"a">>, <<"b">>}

Leaves ==
    {[k |-> "unit"], [k |-> "none"], [k |-> "unit_struct"], [k |-> "bool", b |-> TRUE],
     [k |-> "float", ty |-> "f32", f |-> "x"], [k |-> "float", ty |-> "f64", f |-> "x"],
     [k |-> "char", c |-> "a"], [k |-> "bytes", bs |-> <<0, 9>>], UV(<<"a">>)}
    \cup {S(x) : x \in Strings}
    \cup {IntD("i8", -1), IntD("u8", 3), IntD("i64", -8), IntD("i64", 7)}
    \cup {IntD("u64", n) : n \in {0, 7, 8, 15}}

\* Keys: the string-like ones and some a map must reject.
Keys == {S(<<"a">>), S(<<"b">>), UV(<<"b">>), NT(S(<<"a">>)),
         IntD("i64", 7), [k |-> "char", c |-> "a"], NT(IntD("u8", 3))}
EntryValues == {[k |-> "unit"], IntD("u64", 8), S(<<"a">>)}

Maps == {[k |-> "map", es |-> es] : es \in UpTo(Keys \X EntryValues, 2)}
Structs == {[k |-> "struct", es |-> fs] : fs \in UpTo(Strings \X EntryValues, 2)}
BadMap == [k |-> "map", es |-> <<<<IntD("i64", 7), [k |-> "unit"]>>>>]
GoodMap == [k |-> "map", es |-> <<<<S(<<"a">>), IntD("u64", 15)>>>>]

Compound ==
    {[k |-> kind, xs |-> xs] : kind \in {"seq", "tuple", "tuple_struct"},
                               xs \in UpTo(Leaves, 2)}
    \cup {[k |-> "tuple_variant", var |-> <<"b">>, xs |-> xs] : xs \in UpTo(Leaves, 1)}
    \cup {[k |-> "newtype_variant", var |-> <<"a">>, x |-> x] : x \in Leaves}
    \cup {[k |-> "struct_variant", var |-> <<"a">>, es |-> fs]
            : fs \in UpTo(Strings \X EntryValues, 2)}

\* Errors and values nested inside other items.
Nested ==
    {[k |-> "some", x |-> BadMap], NT(GoodMap),
     [k |-> "seq", xs |-> <<GoodMap, BadMap>>],
     [k |-> "newtype_variant", var |-> <<"a">>, x |-> BadMap],
     [k |-> "tuple_variant", var |-> <<"a">>, xs |-> <<BadMap>>],
     [k |-> "struct", es |-> <<<<<<"a">>, BadMap>>>>],
     [k |-> "struct_variant", var |-> <<"a">>, es |-> <<<<<<"b">>, BadMap>>>>],
     [k |-> "map", es |-> <<<<S(<<"b">>), GoodMap>>, <<S(<<"b">>), BadMap>>>>]}

MCInputs == Leaves \cup Maps \cup Structs \cup Compound \cup Nested

\* tremor Values fed back through to_value: numbers of both kinds, nested.
Nums == {U64(n) : n \in {0, 7, 8, 15}} \cup {I64(n) : n \in {-8, 7}}
MCValues ==
    Nums \cup {Null, Bool(FALSE), F64("x"), Str(<<"a">>)}
    \cup {Arr(xs) : xs \in UpTo(Nums, 1)}
    \cup {Obj([x \in {<<"a">>} |-> v]) : v \in Nums}

MCValueInputs == {FromValue(v) : v \in MCValues}
=============================================================================
