--------------------------- MODULE ValueSerializer ---------------------------
(***************************************************************************)
(* tremor-value's serde Serializer (src/tremor-value/src/serde/value/      *)
(* se.rs): to_value turns anything serde can serialize into a tremor       *)
(* Value, and Value's own Serialize impl feeds a Value back through it.    *)
(*                                                                         *)
(* A serde data-model item is a record whose field k names the serde       *)
(* method the Serialize impl calls (serialize_bool, serialize_seq, ...),   *)
(* with its arguments as further fields. A tremor Value is a record whose  *)
(* field t names its variant. Strings are sequences of characters. Numbers *)
(* keep their width, scaled down to W bits so that TLC can enumerate them. *)
(***************************************************************************)
EXTENDS Integers, Sequences, SequencesExt

CONSTANTS
    W,        \* bits of u64 / i64 (64 in the code)
    Inputs,   \* the serde data-model items the checked Serialize impls emit
    Values    \* tremor Values among them, fed through impl Serialize for Value

ASSUME W \in Nat \ {0, 1}

VARIABLES
    input,    \* the item handed to to_value
    output    \* what to_value returned

vars == <<input, output>>

UMax == 2^W - 1        \* u64::MAX
IMax == 2^(W - 1) - 1  \* i64::MAX
IMin == -(2^(W - 1))   \* i64::MIN

\* tremor Values (Value::Static(..), String, Array, Object, Bytes).
Null == [t |-> "null"]
Bool(b) == [t |-> "bool", b |-> b]
I64(n) == [t |-> "i64", n |-> n]
U64(n) == [t |-> "u64", n |-> n]
F64(f) == [t |-> "f64", f |-> f]
Str(s) == [t |-> "str", s |-> s]
Arr(xs) == [t |-> "arr", xs |-> xs]
Obj(m) == [t |-> "obj", m |-> m]
Bytes(bs) == [t |-> "bytes", bs |-> bs]

\* Result<Value>; the only error message is "Key must be a String.".
Ok(v) == [ok |-> TRUE, v |-> v]
Err == [ok |-> FALSE, v |-> Null]
NotYet == [ok |-> FALSE, v |-> [t |-> "pending"]]

\* Object::insert: a later insert under the same key replaces the value.
Insert(m, k, v) == [x \in DOMAIN m \cup {k} |-> IF x = k THEN v ELSE m[x]]

\* A single-entry object {name: v}, as the variant serializers build.
Wrap(name, v) == Obj([x \in {name} |-> v])

-----------------------------------------------------------------------------
(* `value as i64` on a u64: the bit pattern is reinterpreted, so values    *)
(* above i64::MAX become negative.                                         *)
AsI64(n) == IF n > IMax THEN n - 2^W ELSE n

\* Mutant: serialize_u64 keeps the value without the cast.
SerializeU64NoCast(n) == Ok(I64(n))

(* serialize_u64 (and u8/u16/u32 through u64::from).                       *)
SerializeU64(n) == Ok(I64(AsI64(n)))

(* The scalar methods of impl serde::Serializer for Serializer: integers   *)
(* widen to i64 or u64, f32 widens to f64, a char becomes a one-character  *)
(* string, bytes are collected into an array of numbers (u8 into Value),   *)
(* unit, unit structs and None are Null, a unit variant is its name.       *)
SerializeScalar(d) ==
    CASE d.k = "bool" -> Ok(Bool(d.b))
      [] d.k = "int" /\ d.ty \in {"i8", "i16", "i32", "i64"} -> Ok(I64(d.n))
      [] d.k = "int" /\ d.ty \in {"u8", "u16", "u32", "u64"} -> SerializeU64(d.n)
      [] d.k = "float" -> Ok(F64(d.f))
      [] d.k = "char" -> Ok(Str(<<d.c>>))
      [] d.k = "str" -> Ok(Str(d.s))
      [] d.k = "bytes" -> Ok(Arr([i \in DOMAIN d.bs |-> U64(d.bs[i])]))
      [] d.k \in {"unit", "unit_struct", "none"} -> Ok(Null)
      [] d.k = "unit_variant" -> Ok(Str(d.var))

ScalarKinds == {"bool", "int", "float", "char", "str", "bytes", "unit",
                "unit_struct", "none", "unit_variant"}

\* Mutant: integer keys are accepted, as the commented-out value.to_string() would.
RECURSIVE MapKeyIntToString(_)
MapKeyIntToString(d) ==
    CASE d.k = "str" -> Ok(d.s)
      [] d.k = "unit_variant" -> Ok(d.var)
      [] d.k = "newtype_struct" -> MapKeyIntToString(d.x)
      [] d.k = "int" -> Ok(<<"0">>)
      [] OTHER -> Err

(* MapKeySerializer: a key must serialize as a string (str, a unit         *)
(* variant's name, or a newtype around one); every other method returns    *)
(* key_must_be_a_string().                                                 *)
RECURSIVE MapKey(_)
MapKey(d) ==
    CASE d.k = "str" -> Ok(d.s)
      [] d.k = "unit_variant" -> Ok(d.var)
      [] d.k = "newtype_struct" -> MapKey(d.x)
      [] OTHER -> Err

(* SerializeVec (seq, tuple, tuple struct): push each element's to_value,  *)
(* stopping at the first error; end yields the Array.                      *)
SerializeVecEnd(rs) ==
    IF \E i \in DOMAIN rs : ~rs[i].ok THEN Err
    ELSE Ok(Arr([i \in DOMAIN rs |-> rs[i].v]))

(* SerializeTupleVariant: the same vector, wrapped as {variant: [..]}.      *)
TupleVariantEnd(name, rs) ==
    LET r == SerializeVecEnd(rs)
    IN IF r.ok THEN Ok(Wrap(name, r.v)) ELSE Err

(* serialize_map / serialize_struct: SerializeMap::Map, no pending key.    *)
MapStart == [map |-> <<>>, nextKey |-> <<>>, st |-> "ok"]

(* SerializeMap::serialize_key: next_key = Some(key) once MapKeySerializer *)
(* accepted it.                                                            *)
SerializeKey(s, kr) ==
    CASE s.st # "ok" -> s
      [] ~kr.ok -> [s EXCEPT !.st = "err"]
      [] OTHER -> [s EXCEPT !.nextKey = <<kr.v>>]

\* Mutant: the insert keeps the first value stored under a key.
SerializeValueKeepFirst(s, vr) ==
    CASE s.st # "ok" -> s
      [] s.nextKey = <<>> -> [s EXCEPT !.st = "panic"]
      [] ~vr.ok -> [s EXCEPT !.st = "err", !.nextKey = <<>>]
      [] Head(s.nextKey) \in DOMAIN s.map -> [s EXCEPT !.nextKey = <<>>]
      [] OTHER -> [s EXCEPT !.map = Insert(s.map, Head(s.nextKey), vr.v),
                            !.nextKey = <<>>]

(* SerializeMap::serialize_value: take next_key (panic if None), insert    *)
(* the value's to_value under it.                                          *)
SerializeValue(s, vr) ==
    CASE s.st # "ok" -> s
      [] s.nextKey = <<>> -> [s EXCEPT !.st = "panic"]
      [] ~vr.ok -> [s EXCEPT !.st = "err", !.nextKey = <<>>]
      [] OTHER -> [s EXCEPT !.map = Insert(s.map, Head(s.nextKey), vr.v),
                            !.nextKey = <<>>]

(* serialize_entry (serde's default) and SerializeStruct::serialize_field: *)
(* serialize_key, then serialize_value.                                    *)
SerializeEntry(s, kv) == SerializeValue(SerializeKey(s, kv[1]), kv[2])

(* SerializeMap::end: the Object.                                          *)
MapEnd(s) == IF s.st = "ok" THEN Ok(Obj(s.map)) ELSE Err

(* SerializeStructVariant: fields go straight into its map; end wraps it   *)
(* as {variant: {..}}.                                                     *)
StructVariantEnd(name, fs) ==
    IF \E i \in DOMAIN fs : ~fs[i][2].ok THEN Err
    ELSE Ok(Wrap(name, Obj(FoldLeft(LAMBDA m, f : Insert(m, f[1], f[2].v), <<>>, fs))))

(* to_value: d.serialize(Serializer). Newtypes and Some serialize their    *)
(* content with the same serializer; a newtype variant is {variant: v}.    *)
RECURSIVE ToValue(_)
ToValue(d) ==
    LET Conv(xs) == [i \in DOMAIN xs |-> ToValue(xs[i])]
        Entries(es) == [i \in DOMAIN es |-> <<MapKey(es[i][1]), ToValue(es[i][2])>>]
        Fields(fs) == [i \in DOMAIN fs |-> <<Ok(fs[i][1]), ToValue(fs[i][2])>>]
    IN CASE d.k \in ScalarKinds -> SerializeScalar(d)
         [] d.k \in {"some", "newtype_struct"} -> ToValue(d.x)
         [] d.k = "newtype_variant" ->
                LET r == ToValue(d.x) IN IF r.ok THEN Ok(Wrap(d.var, r.v)) ELSE Err
         [] d.k \in {"seq", "tuple", "tuple_struct"} -> SerializeVecEnd(Conv(d.xs))
         [] d.k = "tuple_variant" -> TupleVariantEnd(d.var, Conv(d.xs))
         [] d.k \in {"map", "struct"} ->
                MapEnd(FoldLeft(SerializeEntry, MapStart,
                                IF d.k = "map" THEN Entries(d.es) ELSE Fields(d.es)))
         [] d.k = "struct_variant" ->
                StructVariantEnd(d.var, [i \in DOMAIN d.es |-> <<d.es[i][1], ToValue(d.es[i][2])>>])

(* impl Serialize for Value: the serde calls a Value makes; an Object's    *)
(* entries come in its iteration order, here any order.                    *)
RECURSIVE FromValue(_)
FromValue(v) ==
    CASE v.t = "null" -> [k |-> "unit"]
      [] v.t = "bool" -> [k |-> "bool", b |-> v.b]
      [] v.t = "f64" -> [k |-> "float", ty |-> "f64", f |-> v.f]
      [] v.t = "u64" -> [k |-> "int", ty |-> "u64", n |-> v.n]
      [] v.t = "i64" -> [k |-> "int", ty |-> "i64", n |-> v.n]
      [] v.t = "str" -> [k |-> "str", s |-> v.s]
      [] v.t = "bytes" -> [k |-> "bytes", bs |-> v.bs]
      [] v.t = "arr" -> [k |-> "seq", xs |-> [i \in DOMAIN v.xs |-> FromValue(v.xs[i])]]
      [] v.t = "obj" ->
            LET ks == SetToSeq(DOMAIN v.m)
            IN [k |-> "map", es |-> [i \in DOMAIN ks |->
                    <<[k |-> "str", s |-> ks[i]], FromValue(v.m[ks[i]])>>]]

-----------------------------------------------------------------------------
Init ==
    /\ input \in Inputs
    /\ output = NotYet

(* One call of to_value(input).                                            *)
Convert ==
    /\ output = NotYet
    /\ output' = ToValue(input)
    /\ UNCHANGED input

Next == Convert

Spec == Init /\ [][Next]_vars

-----------------------------------------------------------------------------
RECURSIVE IsValue(_)
IsValue(v) ==
    CASE v.t \in {"null", "bool", "f64", "str"} -> TRUE
      [] v.t = "i64" -> v.n \in IMin..IMax
      [] v.t = "u64" -> v.n \in 0..UMax
      [] v.t = "arr" -> \A i \in DOMAIN v.xs : IsValue(v.xs[i])
      [] v.t = "obj" -> \A x \in DOMAIN v.m : IsValue(v.m[x])
      [] OTHER -> FALSE

(* Every Value to_value produces is well formed: in particular every I64   *)
(* lies within i64's range.                                                *)
TypeOK ==
    output = NotYet \/ (output.ok => IsValue(output.v))

(* Reference: an item is convertible when every map key in it, at any      *)
(* depth, is a string, a unit variant or a newtype around one.             *)
RECURSIVE StringKey(_)
StringKey(d) ==
    \/ d.k \in {"str", "unit_variant"}
    \/ d.k = "newtype_struct" /\ StringKey(d.x)

RECURSIVE KeysAreStrings(_)
KeysAreStrings(d) ==
    CASE d.k \in {"some", "newtype_struct", "newtype_variant"} -> KeysAreStrings(d.x)
      [] d.k \in {"seq", "tuple", "tuple_struct", "tuple_variant"} ->
            \A i \in DOMAIN d.xs : KeysAreStrings(d.xs[i])
      [] d.k = "map" ->
            \A i \in DOMAIN d.es : StringKey(d.es[i][1]) /\ KeysAreStrings(d.es[i][2])
      [] d.k \in {"struct", "struct_variant"} ->
            \A i \in DOMAIN d.es : KeysAreStrings(d.es[i][2])
      [] OTHER -> TRUE

(* Errors propagate and nothing else fails: to_value fails exactly when    *)
(* some map key, however deeply nested, is not string-like; an error in a  *)
(* nested element, entry or field is never swallowed.                      *)
KeyErrorsExact ==
    output # NotYet => (output.ok <=> KeysAreStrings(input))

(* The key an entry of a map or struct is stored under.                    *)
KeyOf(d, e) == IF d.k = "map" THEN MapKey(e[1]).v ELSE e[1]

(* Entries with the same key: the object holds exactly the keys of the     *)
(* entries, and for each key the value of the LAST entry carrying it.      *)
LastKeyWins ==
    (output # NotYet /\ output.ok /\ input.k \in {"map", "struct"}) =>
        LET es == input.es
            m == output.v.m
        IN /\ DOMAIN m = {KeyOf(input, es[i]) : i \in DOMAIN es}
           /\ \A i \in DOMAIN es :
                (\A j \in DOMAIN es : j > i => KeyOf(input, es[j]) # KeyOf(input, es[i]))
                    => m[KeyOf(input, es[i])] = ToValue(es[i][2]).v

\* Equality of Values that compares numbers by value, whichever of I64/U64 holds them.
RECURSIVE SameValue(_, _)
SameValue(a, b) ==
    CASE a.t \in {"i64", "u64"} -> b.t \in {"i64", "u64"} /\ a.n = b.n
      [] a.t = "arr" -> b.t = "arr" /\ DOMAIN a.xs = DOMAIN b.xs
                        /\ \A i \in DOMAIN a.xs : SameValue(a.xs[i], b.xs[i])
      [] a.t = "obj" -> b.t = "obj" /\ DOMAIN a.m = DOMAIN b.m
                        /\ \A x \in DOMAIN a.m : SameValue(a.m[x], b.m[x])
      [] OTHER -> a = b

(* to_value on a tremor Value (through impl Serialize for Value) gives the *)
(* same Value back: every number keeps its value, every nesting its shape. *)
ValueRoundTrip ==
    output # NotYet =>
        \A v \in Values : FromValue(v) = input => output.ok /\ SameValue(v, output.v)

=============================================================================
