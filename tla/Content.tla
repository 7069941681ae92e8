------------------------------- MODULE Content -------------------------------
(***************************************************************************)
(* What handlers get of a request and what becomes of their answers: the   *)
(* conversions of http_request.h, content_traits.h, websocket_message.h,   *)
(* websocket_content_traits.h, http_response.h, response_traits.h and      *)
(* mapper.h, and the types of the application (message.h, user.h).         *)
(***************************************************************************)
EXTENDS Integers, SequencesExt

-----------------------------------------------------------------------------
(* Forms (content_traits.h).  A text is a sequence of characters.          *)

(* boost::algorithm::split, character by character: a separator begins the *)
(* next token, except that with token_compress_on those side by side count *)
(* as one, so that only the first token and the last can be empty.         *)
Split(text, separator, compress) ==
  LET tokens[n \in 0 .. Len(text)] ==
        IF n = 0 THEN << <<>> >>
        ELSE LET before == tokens[n - 1]
             IN  IF text[n] # separator
                 THEN [before EXCEPT ![Len(before)] = Append(@, text[n])]
                 ELSE IF compress /\ n > 1 /\ text[n - 1] = separator THEN before
                 ELSE Append(before, <<>>)
  IN  tokens[Len(text)]

(* HttpContentTraits<XWWWFormUrlencoded>::deserialize, the loop's body: a  *)
(* name alone has the value "", and anything with more than one "=" is     *)
(* dropped.  Escapes stay as they are.                                     *)
FieldsOf_ValueUpToNext(pair) ==
  LET kv == Split(pair, "=", FALSE)
  IN  CASE Len(kv) >= 2 -> {<<kv[1], kv[2]>>}
        [] Len(kv) = 1 /\ kv[1] # <<>> -> {<<kv[1], <<>> >>}
        [] OTHER -> {}

FieldsOf(pair) ==
  LET kv == Split(pair, "=", FALSE)
  IN  CASE Len(kv) = 2 -> {kv}
        [] Len(kv) = 1 /\ kv[1] # <<>> -> {<<kv[1], <<>> >>}
        [] OTHER -> {}

(* The loop: the multimap has each field as often as pairs emplace it.     *)
DecodeForm_LastPairWins(body) ==
  LET pairs == Split(body, "&", TRUE)
  IN  [field \in UNION {FieldsOf(pairs[i]) : i \in DOMAIN pairs} |-> 1]

DecodeForm(body) ==
  LET pairs == Split(body, "&", TRUE)
  IN  [field \in UNION {FieldsOf(pairs[i]) : i \in DOMAIN pairs} |->
         Cardinality({i \in DOMAIN pairs : field \in FieldsOf(pairs[i])})]

-----------------------------------------------------------------------------
(* Fields and parameters (http_request.h).                                 *)

(* std::map: map[key] = value, and map.emplace(key, value).                *)
Nothing == [key \in {} |-> key]
Assigned(map, key, value) ==
  [k \in DOMAIN map \cup {key} |-> IF k = key THEN value ELSE map[k]]
Emplaced(map, key, value) ==
  IF key \in DOMAIN map THEN map ELSE Assigned(map, key, value)

(* The names that boost::beast::http::field has; all others are "unknown". *)
KnownFields == {"content_type", "host"}
FieldName(name) == IF name \in KnownFields THEN name ELSE "unknown"

(* Beast keeps the fields in the order in which their names came up, those *)
(* of one name side by side.                                               *)
Insert(list, field) ==
  LET same == {i \in DOMAIN list : list[i].name = field.name}
  IN  IF same = {} THEN Append(list, field)
      ELSE InsertAt(list, 1 + CHOOSE i \in same : i + 1 \notin same, field)

Stored(fields) ==
  LET list[n \in 0 .. Len(fields)] ==
        IF n = 0 THEN <<>> ELSE Insert(list[n - 1], fields[n])
  IN  list[Len(fields)]

(* field.value().data(), read as a C string: the end of the value is not   *)
(* marked, so that its line end follows, and what lies in memory behind it.*)
CString(value, memory) == <<value, "CRLF">> \o memory

(* from_request, the loop over the fields: under each name the last value. *)
Headers_FirstWins(fields, memory) ==
  LET stored == Stored(fields)
      map[n \in 0 .. Len(stored)] ==
        IF n = 0 THEN Nothing
        ELSE Emplaced(map[n - 1], FieldName(stored[n].name),
                      CString(stored[n].value, memory))
  IN  map[Len(stored)]

Headers(fields, memory) ==
  LET stored == Stored(fields)
      map[n \in 0 .. Len(stored)] ==
        IF n = 0 THEN Nothing
        ELSE Assigned(map[n - 1], FieldName(stored[n].name),
                      CString(stored[n].value, memory))
  IN  map[Len(stored)]

(* from_request, req[content_type]: the first, "" if there is none.        *)
ContentTypeHeader(fields, memory) ==
  LET stored == Stored(fields)
      types  == {i \in DOMAIN stored : stored[i].name = "content_type"}
  IN  IF types = {} THEN <<>> ELSE CString(stored[Min(types)].value, memory)

(* from_request, emplace of the parameters: of one name the first counts.  *)
QueryParams(params) ==
  LET map[n \in 0 .. Len(params)] ==
        IF n = 0 THEN Nothing
        ELSE Emplaced(map[n - 1], params[n].name, params[n].value)
  IN  map[Len(params)]

-----------------------------------------------------------------------------
(* JSON documents, and texts that are none.                                *)

Null == <<"null">>
WithMessage(text) == <<"message", text>>
WithUsers(users) == <<"users", users>>
Malformed == <<"malformed">>
Empty == <<"">>

(* HttpContentTraits<JsonContent>::deserialize: no body and no document    *)
(* are null.                                                               *)
DecodeJson_Unparsed(body) == IF body = Empty THEN Null ELSE body

DecodeJson(body) == IF body \in {Empty, Malformed} THEN Null ELSE body

Nullptr == <<"nullptr">>

(* JsonMapper<Message>: an object whose member "message" is a string, or   *)
(* at() or get_to() throws, which from_message reports as nullptr.         *)
FromMessage(raw) == IF raw[1] = "message" THEN raw ELSE Nullptr

(* The echo, through to_message.  It cannot fail: a text that was parsed   *)
(* is valid UTF-8, as dump() demands.                                      *)
WsHelloJson_EmptyMessage(message) ==
  WithMessage(<<"Echo: ", IF message = Nullptr THEN "" ELSE message[2]>>)

WsHelloJson(message) ==
  IF message = Nullptr THEN Nullptr ELSE WithMessage(<<"Echo: ", message[2]>>)

-----------------------------------------------------------------------------
(* Responses.                                                              *)

Fails == <<"error_code">>

(* HttpResponseTraits<T>::serialize.  dump() throws on a text that is not  *)
(* valid UTF-8, here "invalid".  Types without a JsonMapper of their own,  *)
(* std::string and const char* among them, map to null.  std::to_string    *)
(* has one text of digits for each number.                                 *)
Serialize(type, value) ==
  CASE type = "empty" -> Empty
    [] type = "int"   -> <<"digits", value>>
    [] type = "json"  -> IF value = WithMessage("invalid") THEN Fails ELSE value
    [] type = "users" -> IF "invalid" \in ToSet(value) THEN Fails ELSE WithUsers(value)
    [] type = "text"  -> Null

(* HttpResponse::build.  Its own failure is answered in the type of the    *)
(* text, that cannot fail again.                                           *)
Build_KeepsStatus(status, type, value) ==
  <<"response", status,
    IF Serialize(type, value) = Fails THEN Empty ELSE Serialize(type, value)>>

Build(status, type, value) ==
  IF Serialize(type, value) = Fails
  THEN <<"response", 500, Serialize("text", "500 Serialization failed")>>
  ELSE <<"response", status, Serialize(type, value)>>

(* HttpResponse<T>::bad_request and internal_server_error deduce the type  *)
(* from their argument, which is a text wherever they are called.          *)
BadRequest(text) == Build(400, "text", text)
InternalServerError(text) == Build(500, "text", text)

(* hello_json, by what the database has answered: a list of users, by      *)
(* whether their names are valid UTF-8, or nullopt.                        *)
HelloJson(users) ==
  IF users = Nullptr THEN BadRequest("Users not found!") ELSE Build(200, "users", users)

=============================================================================
