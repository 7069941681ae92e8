------------------------------ MODULE Requests ------------------------------
(***************************************************************************)
(* Requests that grow one piece at a time: a body, character by character, *)
(* or a form whose client encodes it, or parameters and header fields; and *)
(* what a handler may expect to find in them.                              *)
(***************************************************************************)
EXTENDS Content

CONSTANTS
  Chars,                \* the characters of bodies
  Keys,                 \* the names of header fields and parameters
  Values,               \* and their values
  MaxBody,              \* bound: characters of a body
  MaxWord,              \* bound: characters of a name or a value in a form
  MaxForm,              \* bound: fields of a form
  MaxFields             \* bound: header fields, and parameters

VARIABLES body, form, fields, params
requestVars == <<body, form, fields, params>>

Words == UNION {[1 .. n -> Chars \ {"&", "="}] : n \in 0 .. MaxWord}
Named == [name : Keys, value : Values]

RequestInit ==
  /\ body = <<>>
  /\ form = <<>>
  /\ fields = <<>>
  /\ params = <<>>

(* The parts do not influence one another, so one request has one of them. *)
GrowBody ==
  /\ form = <<>> /\ fields = <<>> /\ params = <<>>
  /\ Len(body) < MaxBody
  /\ \E c \in Chars : body' = Append(body, c)
  /\ UNCHANGED <<form, fields, params>>

GrowForm ==
  /\ body = <<>> /\ fields = <<>> /\ params = <<>>
  /\ Len(form) < MaxForm
  /\ \E k, v \in Words : form' = Append(form, <<k, v>>)
  /\ UNCHANGED <<body, fields, params>>

GrowFields ==
  /\ body = <<>> /\ form = <<>> /\ params = <<>>
  /\ Len(fields) < MaxFields
  /\ \E f \in Named : fields' = Append(fields, f)
  /\ UNCHANGED <<body, form, params>>

GrowParams ==
  /\ body = <<>> /\ form = <<>> /\ fields = <<>>
  /\ Len(params) < MaxFields
  /\ \E p \in Named : params' = Append(params, p)
  /\ UNCHANGED <<body, form, fields>>

RequestNext == GrowBody \/ GrowForm \/ GrowFields \/ GrowParams

RequestSpec == RequestInit /\ [][RequestNext]_requestVars

-----------------------------------------------------------------------------
(* The reference definition of a form: a pair is what stands between two   *)
(* "&" or the ends of the body, p[1] the place before it, p[2] the one     *)
(* behind.                                                                 *)
Bounds(text) == {0, Len(text) + 1} \cup {i \in DOMAIN text : text[i] = "&"}
Gaps(text) ==
  {p \in Bounds(text) \X Bounds(text) :
     p[1] < p[2] /\ \A n \in Bounds(text) : ~ (p[1] < n /\ n < p[2])}
Between(text, p) == SubSeq(text, p[1] + 1, p[2] - 1)

PairPlaces(text, k, v) ==
  {p \in Gaps(text) :
     \/ Between(text, p) = k \o <<"=">> \o v
     \/ v = <<>> /\ k # <<>> /\ Between(text, p) = k}

Texts(text) == {SubSeq(text, i + 1, j) : i, j \in 0 .. Len(text)}
Copies(field, decoded) == IF field \in DOMAIN decoded THEN decoded[field] ELSE 0
Plain(text) == {"&", "="} \cap ToSet(text) = {}

(* Whatever the body, the handler gets exactly the pairs that stand in it, *)
(* each as often as it stands there, wherever separators pile up or are    *)
(* missing (content_traits.h:81-106).                                      *)
FormReference ==
  LET names == {t \in Texts(body) : Plain(t)}
  IN  /\ DOMAIN DecodeForm(body) \subseteq names \X names
      /\ \A k, v \in names :
           Copies(<<k, v>>, DecodeForm(body)) = Cardinality(PairPlaces(body, k, v))

EncodeField(f) == f[1] \o <<"=">> \o f[2]
Encoded ==
  LET text[n \in 0 .. Len(form)] ==
        IF n = 0 THEN <<>>
        ELSE IF n = 1 THEN EncodeField(form[n])
        ELSE text[n - 1] \o <<"&">> \o EncodeField(form[n])
  IN  text[Len(form)]

(* A form of words without separators arrives as it was filled in: fields  *)
(* of one name all, equal ones as often as they were there, and also those *)
(* without name or value (content_traits.h:84-100).                        *)
FormRoundTrip ==
  \A f \in DOMAIN DecodeForm(Encoded) \cup ToSet(form) :
    Copies(f, DecodeForm(Encoded)) = Cardinality({i \in DOMAIN form : form[i] = f})

(* What has been read of parameters and of the content type stays as it    *)
(* is when more follows; under any other known name there is the latest    *)
(* value; and under "unknown" the latest of some custom field.  Of a value *)
(* no more is sure than that the text begins with it, whatever lies behind *)
(* it in memory (http_request.h:40-51).                                    *)
Memory == {<<>>, <<"1">>}
Latest(list, i) == \A j \in DOMAIN list : list[j].name = list[i].name => j <= i

HeadersLatest(list, m) ==
  LET headers == Headers(list, m)
  IN  /\ DOMAIN headers = {FieldName(f.name) : f \in ToSet(list)}
      /\ \A n \in DOMAIN headers :
           \E i \in DOMAIN list :
             /\ Latest(list, i)
             /\ FieldName(list[i].name) = n
             /\ Head(headers[n]) = list[i].value

LatestCounts ==
  [][/\ \A p \in DOMAIN QueryParams(params) :
          QueryParams(params')[p] = QueryParams(params)[p]
     /\ \A m, n \in Memory :
          ContentTypeHeader(fields, m) # <<>>
            => Head(ContentTypeHeader(fields', n)) = Head(ContentTypeHeader(fields, m))
     /\ \A m \in Memory : HeadersLatest(fields', m)]_requestVars

=============================================================================
