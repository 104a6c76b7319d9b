--------------------------------- MODULE Auth ---------------------------------
(***************************************************************************)
(* Auth::as_header_value (src/src/connectors/impls/http/auth.rs): the      *)
(* Authorization header value each strategy produces. A string is its      *)
(* byte sequence; a header value "<scheme> <payload>" is the record        *)
(* [scheme, payload]. The Gcp token comes from gouth, outside the          *)
(* repository: it is one of GcpTokens, or fetching it fails.               *)
(***************************************************************************)
EXTENDS Base64

CONSTANTS
    Strings,     \* the usernames, passwords, tokens, ids and api keys
    GcpTokens    \* tokens gouth::Token may return

VARIABLES auth, header
vars == <<auth, header>>

\* enum Auth; its Default is Auth::None.
AuthKinds ==
    [k : {"basic"}, username : Strings, password : Strings]
    \cup [k : {"bearer"}, token : Strings]
    \cup [k : {"elastic_api_key"}, id : Strings, api_key : Strings]
    \cup [k : {"gcp"}] \cup [k : {"none"}]
Default == [k |-> "none"]

\* Result<Option<String>>: not asked yet, Err, Ok(None) or Ok(Some(value)).
Pending == [st |-> "pending"]
Err == [st |-> "err"]
NoHeader == [st |-> "none"]
Some(scheme, payload) == [st |-> "some", scheme |-> scheme, payload |-> payload]

\* A Basic header over the two fields without the ':' between them.
BasicHeaderNoColon(username, password) == Some("Basic", Encode(username \o password))
\* A Basic header whose scheme is written in lower case.
BasicHeaderLower(username, password) == Some("basic", Encode(username \o <<Colon>> \o password))

(* Auth::Basic: encode "username:password" once; "Basic " before it.       *)
BasicHeader(username, password) ==
    Some("Basic", Encode(username \o <<Colon>> \o password))

\* An ApiKey header that encodes the joined string "id:api_key" once.
ApiKeyHeaderJoint(id, api_key) == Some("ApiKey", Encode(id \o <<Colon>> \o api_key))

(* Auth::ElasticsearchApiKey: "ApiKey " and then three encode_config_buf   *)
(* calls appending base64(id), base64(":") and base64(api_key).            *)
ApiKeyHeader(id, api_key) ==
    Some("ApiKey", Encode(id) \o Encode(<<Colon>>) \o Encode(api_key))

(* as_header_value: the set of results it can return for a.                *)
AsHeaderValue(a) ==
    CASE a.k = "gcp" -> {Some("Bearer", t) : t \in GcpTokens} \cup {Err}
      [] a.k = "basic" -> {BasicHeader(a.username, a.password)}
      [] a.k = "bearer" -> {Some("Bearer", a.token)}
      [] a.k = "elastic_api_key" -> {ApiKeyHeader(a.id, a.api_key)}
      [] a.k = "none" -> {NoHeader}

Init ==
    /\ auth \in AuthKinds
    /\ header = Pending

\* The connector asks for the header value of its configured strategy.
AsHeader ==
    /\ header = Pending
    /\ header' \in AsHeaderValue(auth)
    /\ UNCHANGED auth

Next == AsHeader
Spec == Init /\ [][Next]_vars

-----------------------------------------------------------------------------
TypeOK ==
    /\ auth \in AuthKinds
    /\ \/ header \in {Pending, Err, NoHeader}
       \/ header \in [st : {"some"}, scheme : {"Basic", "Bearer", "ApiKey"}, payload : Seq(0..255)]

Ok(v) == [ok |-> TRUE, v |-> v]

(* Basic: the payload of the header is base64 text that decodes back to    *)
(* exactly "username:password" (the format! and encode at auth.rs:45).     *)
BasicDecodes ==
    auth.k = "basic" /\ header.st = "some" =>
        Decode(header.payload) = Ok(auth.username \o <<Colon>> \o auth.password)

(* ApiKey: the payload is three separately padded base64 texts, decoding   *)
(* to the id, to ":" and to the api key (the three encode_config_buf calls *)
(* at auth.rs:50-53, spec section 4.3).                                     *)
ApiKeyFieldsSeparate ==
    auth.k = "elastic_api_key" /\ header.st = "some" =>
        LET p == header.payload
            Seg(i, j) == Decode(SubSeq(p, i + 1, j))
        IN \E i, j \in 0..Len(p) :
              /\ i <= j /\ i % 4 = 0 /\ j % 4 = 0
              /\ Seg(0, i) = Ok(auth.id)
              /\ Seg(i, j) = Ok(<<Colon>>)
              /\ Seg(j, Len(p)) = Ok(auth.api_key)
====
