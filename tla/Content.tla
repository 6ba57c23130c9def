------------------------------- MODULE Content -------------------------------
(***************************************************************************)
(* The two walks over the body of a request: the one that makes its cache  *)
(* key (normalize.go) and the one that replaces its images by text         *)
(* (extract.go, image.go).  They are written separately and must agree on  *)
(* what an image is, wherever it is nested and however it is wrapped.      *)
(*                                                                         *)
(* One group serves one request after the other with the cache enabled;    *)
(* concurrency is the subject of Gateway.  A request carries, besides the  *)
(* body, what its client meant: the body without volatile fields and with  *)
(* a leaf Picture(p) for each image.  No action reads the meaning.         *)
(***************************************************************************)
EXTENDS Naturals, Sequences, SequencesExt

CONSTANTS
    Requests,       \* the requests that may come: names to endpoint, body and meaning
    MainModel,      \* the model name of the group's main model
    Nil,
    MaxDepth,       \* bound on the nesting of a body (the decoder and the size limit bound it)
    MaxRequests     \* bound on the requests of a behaviour

ASSUME BoundsAssumption == MaxDepth \in Nat \ {0} /\ MaxRequests \in Nat

-----------------------------------------------------------------------------
(* JSON values.  Strings come in the kinds the code tells apart: text, a   *)
(* base64 data URL (its payload is a string), the URL of a picture, and a  *)
(* string that itself holds JSON; Desc(p) is the text that a model gave    *)
(* for picture p.  Numbers and booleans are Text.                          *)

Text(s) == [text |-> s]
DataUrl(s, m) == [dataurl |-> s, media |-> m]
Link(p) == [link |-> p]
Json(v) == [json |-> v]
Desc(p) == [desc |-> p]
Obj(f) == [obj |-> f]
Arr(s) == [arr |-> s]

Is(kind, v) == kind \in DOMAIN v
IsString(v) == \E kind \in {"text", "dataurl", "link", "json", "desc"} : Is(kind, v)

\* The field k of an object, as a set: empty when it is absent or of another kind.
Field(f, k) == {f[j] : j \in {k} \cap DOMAIN f}
Strings(f, k) == {v \in Field(f, k) : IsString(v)}
Objects(f, k) == {v.obj : v \in {w \in Field(f, k) : Is("obj", w)}}

-----------------------------------------------------------------------------
(* What an image is (image.go), common to both walks.                      *)

IsImageContentItem(f) ==
    IF Strings(f, "type") # {}
    THEN Strings(f, "type") \cap {Text("image_url"), Text("input_image"), Text("image")} # {}
    ELSE "source" \in DOMAIN f

\* A reference is a URL, or base64 as a data URL.
UrlRef(s) == IF Is("dataurl", s) THEN [b64 |-> s] ELSE [url |-> s]
DataRef(s) == IF Is("dataurl", s) THEN [b64 |-> s] ELSE [b64 |-> DataUrl(s, "detected")]

SourceRefs(src) ==
    CASE Strings(src, "type") = {Text("base64")} ->
            {[b64 |-> DataUrl(s, "given")] : s \in Strings(src, "data")}
      [] Strings(src, "type") = {Text("url")} -> {[url |-> s] : s \in Strings(src, "url")}
      [] OTHER -> {}

\* extractImageRef: the first field that gives a reference; a set with at most one.
ExtractImageRef(f) ==
    LET places == << {UrlRef(s) : s \in Strings(f, "image_url")
                                      \cup UNION {Strings(o, "url") : o \in Objects(f, "image_url")}},
                     {UrlRef(s) : s \in Strings(f, "url")},
                     {DataRef(s) : s \in Strings(f, "data")},
                     {DataRef(s) : s \in Strings(f, "image")},
                     UNION {SourceRefs(o) : o \in Objects(f, "source")} >>
    IN  UNION {places[i] : i \in {j \in 1 .. 5 : \A h \in 1 .. j - 1 : places[h] = {}}}

IsImage(v) == Is("obj", v) /\ IsImageContentItem(v.obj) /\ ExtractImageRef(v.obj) # {}
RefOf(v) == CHOOSE ref \in ExtractImageRef(v.obj) : TRUE

-----------------------------------------------------------------------------
(* The key (normalize.go).                                                 *)

StripDataURLPrefix(s) == IF Is("dataurl", s) THEN s.dataurl ELSE s

\* Mutated form of ContentHash: the media type goes in.
ContentHashWithMedia(ref) == [img |-> ref]

\* imageContentHash and hashDataURL
ContentHash(ref) ==
    [img |-> IF "b64" \in DOMAIN ref THEN [b64 |-> StripDataURLPrefix(ref.b64)] ELSE ref]

VolatileKeys == {"id", "created", "created_at", "timestamp", "updated_at"}

\* canonicalizeValue, given what it makes of the values directly inside
CanonicalStep(v, of) ==
    CASE IsImage(v) -> ContentHash(RefOf(v))
      [] Is("obj", v) /\ ~IsImage(v) -> Obj([k \in DOMAIN v.obj \ VolatileKeys |-> of[v.obj[k]]])
      [] Is("arr", v) -> Arr([i \in DOMAIN v.arr |-> of[v.arr[i]]])
      [] Is("json", v) -> Json(of[v.json])
      [] Is("dataurl", v) -> ContentHash([b64 |-> v])
      [] OTHER -> v

-----------------------------------------------------------------------------
(* The replacement of images (extract.go), when every image is recognised. *)

\* The picture behind a string that refers to one; its base64 may be a data URL itself.
PictureAt(s) ==
    LET inner == StripDataURLPrefix(StripDataURLPrefix(s))
    IN  IF Is("link", inner) THEN inner.link ELSE inner.text

PictureOf(ref) == PictureAt(IF "b64" \in DOMAIN ref THEN ref.b64 ELSE ref.url)

\* recognizeImage, as the text it makes of a reference
Recognised(ref) == Desc(PictureOf(ref))

TextType(endpoint) == IF endpoint = "responses" THEN "input_text" ELSE "text"
TextItem(v, type) == Obj([type |-> Text(type), text |-> Recognised(RefOf(v))])

\* processImagesInValueCfg: only an element of an array can be kept beside its text.
ProcessedStep(v, of, replace, type) ==
    CASE IsImage(v) -> TextItem(v, type)
      [] Is("obj", v) /\ ~IsImage(v) -> Obj([k \in DOMAIN v.obj |-> of[v.obj[k]]])
      [] Is("arr", v) ->
            Arr(FlattenSeq([i \in DOMAIN v.arr |->
                IF IsImage(v.arr[i]) /\ ~replace THEN <<v.arr[i], TextItem(v.arr[i], type)>>
                ELSE <<of[v.arr[i]]>>]))
      [] Is("json", v) -> Json(of[v.json])
      [] Is("dataurl", v) -> Recognised([b64 |-> v])
      [] OTHER -> v

-----------------------------------------------------------------------------
(* What the client meant, and what the main model gets to read.            *)

Picture(p) == [picture |-> p]

\* A picture for every image; volatile fields are no part of a meaning.
MeaningStep(v, of) ==
    CASE IsImage(v) -> Picture(PictureOf(RefOf(v)))
      [] Is("obj", v) /\ ~IsImage(v) -> Obj([k \in DOMAIN v.obj \ VolatileKeys |-> of[v.obj[k]]])
      [] Is("arr", v) -> Arr([i \in DOMAIN v.arr |-> of[v.arr[i]]])
      [] Is("json", v) -> Json(of[v.json])
      [] Is("dataurl", v) -> Picture(PictureOf([b64 |-> v]))
      [] OTHER -> v

\* A description stands for its picture; an image kept in an array, which the main
\* model can see only next to its description, does not count.
ReadingStep(v, of) ==
    CASE Is("obj", v) /\ (\E t \in Field(v.obj, "text") : Is("desc", t)) -> of[v.obj["text"]]
      [] Is("obj", v) /\ (\A t \in Field(v.obj, "text") : ~Is("desc", t)) ->
            Obj([k \in DOMAIN v.obj \ VolatileKeys |-> of[v.obj[k]]])
      [] Is("arr", v) ->
            Arr(FlattenSeq([i \in DOMAIN v.arr |->
                IF IsImage(v.arr[i]) THEN <<>> ELSE <<of[v.arr[i]]>>]))
      [] Is("json", v) -> Json(of[v.json])
      [] Is("desc", v) -> Picture(v.desc)
      [] OTHER -> v

-----------------------------------------------------------------------------
(* The walks.  A walk goes down to the leaves of a value; what it makes of *)
(* a value is a step from what it makes of the values directly inside.     *)

Components(v) ==
    CASE Is("obj", v) -> {v.obj[k] : k \in DOMAIN v.obj}
      [] Is("arr", v) -> {v.arr[i] : i \in DOMAIN v.arr}
      [] Is("json", v) -> {v.json}
      [] OTHER -> {}

\* The values n levels inside v.
Level(v, n) ==
    LET at[m \in Nat] == IF m = 0 THEN {v} ELSE UNION {Components(w) : w \in at[m - 1]}
    IN  at[n]

\* A value and all values inside it.
Parts(v) == UNION {Level(v, n) : n \in 0 .. MaxDepth}

Step(walk, v, of) ==
    CASE walk.to = "canonical" -> CanonicalStep(v, of)
      [] walk.to = "processed" -> ProcessedStep(v, of, walk.replace, walk.type)
      [] walk.to = "meaning" -> MeaningStep(v, of)
      [] walk.to = "reading" -> ReadingStep(v, of)

Walk(walk, v) ==
    LET of[w \in Parts(v)] == Step(walk, w, [c \in Components(w) |-> of[c]])
    IN  of[v]

Canonical(v) == Walk([to |-> "canonical"], v)
Processed(v, replace, type) == Walk([to |-> "processed", replace |-> replace, type |-> type], v)
Meaning(v) == Walk([to |-> "meaning"], v)
Reading(v) == Walk([to |-> "reading"], v)

-----------------------------------------------------------------------------
(* The key of a request (normalize.go).                                    *)

OutputAffectingKeys == {
    "stream", "stream_options", "max_tokens", "max_output_tokens", "max_completion_tokens",
    "temperature", "top_p", "top_k", "stop", "stop_sequences", "tools", "tool_choice",
    "parallel_tool_calls", "reasoning", "response_format", "seed", "n", "frequency_penalty",
    "presence_penalty", "logit_bias", "logprobs", "top_logprobs", "modalities", "audio",
    "prediction", "instructions", "previous_response_id", "prompt_cache_key", "store", "include" }

CanonicalFields(body, fields) == [k \in DOMAIN body \cap fields |-> Canonical(body[k])]

\* Mutated form of ParamsFingerprint: the parameters are left out of the key.
ParamsFingerprintEmpty(body) == <<>>

ParamsFingerprint(body) == CanonicalFields(body, OutputAffectingKeys)

\* normalizeResponsesInput, normalizeForCache(messages), normalizeMessagesForCache
KeyedFields(endpoint) ==
    CASE endpoint = "responses" -> {"instructions", "input"}
      [] endpoint = "chat" -> {"messages"}
      [] endpoint = "messages" -> {"system", "messages"}

\* composeCacheCanonical and cache.Key, for the one group of the model
Key(r) ==
    << r.endpoint, ParamsFingerprint(r.body),
       CanonicalFields(r.body, KeyedFields(r.endpoint)) >>

\* The keys of all requests, computed once.
KeyOf == [i \in DOMAIN Requests |-> Key(Requests[i])]

-----------------------------------------------------------------------------
(* The body that is sent on.                                               *)

MainField(endpoint) == IF endpoint = "responses" THEN "input" ELSE "messages"

\* Mutated form of WalkedFields: the system prompt is not looked at.
WalkedFieldsMain(endpoint) == {MainField(endpoint)}

\* processImagesForInput, processImagesForChatMessages, processImagesForMessagesValue
WalkedFields(endpoint) ==
    {MainField(endpoint)} \cup (IF endpoint = "messages" THEN {"system"} ELSE {})

HasImages(r) ==
    \E k \in DOMAIN r.body \cap WalkedFields(r.endpoint) :
        Processed(r.body[k], TRUE, "text") # r.body[k]

\* rebuild*Body: without a main field the body goes out as it came, for the group's name.
Rebuilt(r, replace) ==
    IF MainField(r.endpoint) \notin DOMAIN r.body THEN r.body
    ELSE [k \in DOMAIN r.body |->
            CASE k = "model" -> Text(MainModel)
              [] k \in WalkedFields(r.endpoint) ->
                    Processed(r.body[k], replace, TextType(r.endpoint))
              [] OTHER -> r.body[k]]

-----------------------------------------------------------------------------
VARIABLES
    replaceImage,   \* the group's setting
    left,           \* how many requests may still come
    req,            \* the request that missed the cache and is being served
    cache,          \* the requests whose responses are cached
    sent,           \* the request forwarded since the last arrival, and the body sent
    answer          \* the request answered since then, and the one its response was made for

vars == <<replaceImage, left, req, cache, sent, answer>>

TypeOK ==
    /\ replaceImage \in BOOLEAN
    /\ left \in 0 .. MaxRequests
    /\ req \in DOMAIN Requests \cup {Nil}
    /\ cache \subseteq DOMAIN Requests
    /\ sent = Nil \/ sent.req \in DOMAIN Requests
    /\ answer = Nil \/ {answer.req, answer.from} \subseteq DOMAIN Requests

Init ==
    /\ replaceImage \in BOOLEAN
    /\ left = MaxRequests
    /\ req = Nil
    /\ cache = {}
    /\ sent = Nil
    /\ answer = Nil

Entries(r) == {e \in cache : KeyOf[e] = KeyOf[r]}

Arrive == req = Nil /\ left > 0 /\ left' = left - 1 /\ sent' = Nil

Hit(r) ==
    /\ Arrive
    /\ \E e \in Entries(r) : answer' = [req |-> r, from |-> e]
    /\ UNCHANGED <<replaceImage, req, cache>>

Miss(r) ==
    /\ Arrive
    /\ Entries(r) = {}
    /\ req' = r
    /\ answer' = Nil
    /\ UNCHANGED <<replaceImage, cache>>

\* Mutated form of RecogniseFails: a cache entry without a response is left behind.
RecogniseFailsCached ==
    /\ req # Nil /\ HasImages(Requests[req])
    /\ req' = Nil
    /\ cache' = cache \cup {Nil}
    /\ UNCHANGED <<replaceImage, left, sent, answer>>

\* One image that cannot be recognised fails the request.
RecogniseFails ==
    /\ req # Nil /\ HasImages(Requests[req])
    /\ req' = Nil
    /\ UNCHANGED <<replaceImage, left, cache, sent, answer>>

Forward ==
    /\ req # Nil
    /\ sent' = [req |-> req, body |-> Rebuilt(Requests[req], replaceImage)]
    /\ req' = Nil
    /\ UNCHANGED <<replaceImage, left>>

MainFails == Forward /\ UNCHANGED <<cache, answer>>

MainAnswers ==
    /\ Forward
    /\ cache' = cache \cup {req}
    /\ answer' = [req |-> req, from |-> req]

Terminated == left = 0 /\ req = Nil /\ UNCHANGED vars

Next ==
    \/ \E r \in DOMAIN Requests : Hit(r) \/ Miss(r)
    \/ RecogniseFails
    \/ MainFails
    \/ MainAnswers
    \/ Terminated

Spec == Init /\ [][Next]_vars

-----------------------------------------------------------------------------
SameMeaning(r, s) ==
    Requests[r].endpoint = Requests[s].endpoint /\ Requests[r].means = Requests[s].means

(***************************************************************************)
(* A request answered from the cache gets the response to a request that   *)
(* meant the same: the images, their places and order, the text around     *)
(* them and the parameters are all in the key (normalize.go:35-36,         *)
(* 120-121).                                                               *)
(***************************************************************************)
HitsMeanTheSame == answer # Nil => SameMeaning(answer.req, answer.from)

(***************************************************************************)
(* Requests that mean the same share one entry of the cache, however their *)
(* images are wrapped and whatever volatile fields they carry              *)
(* (normalize.go:16-19, image.go:90-93).                                   *)
(***************************************************************************)
OneEntryPerMeaning == \A e, f \in cache : SameMeaning(e, f) => e = f

(***************************************************************************)
(* The main model reads what the client meant: every image that is in the  *)
(* key is described, at its place and in its order, in strings that hold   *)
(* JSON and outside arrays too, and nothing else is changed                *)
(* (extract.go:36-165, responses.go:123-170).                              *)
(***************************************************************************)
MainModelReadsImages ==
    sent # Nil => Reading(Obj([k \in DOMAIN sent.body \ {"model"} |-> sent.body[k]]))
                      = Requests[sent.req].means

-----------------------------------------------------------------------------
(* What the documentation promises and the code does not keep.             *)

(***************************************************************************)
(* normalize.go:120-121: different parameters and different contents never *)
(* collide.  (Fields named id or timestamp are dropped everywhere, from    *)
(* the schemas of tools and the arguments of their calls too,              *)
(* normalize.go:143-146.)                                                  *)
(***************************************************************************)
DifferentNeverCollide ==
    \A r \in DOMAIN Requests, e \in cache : KeyOf[r] = KeyOf[e] => SameMeaning(r, e)

(***************************************************************************)
(* README.md:202: the same picture makes the same key whether it comes as  *)
(* a URL or as base64; image.go:90-93: every data URL counts as base64.    *)
(* (The url of a Claude source is never looked into, image.go:149-152.)    *)
(***************************************************************************)
AnyFormatSameKey == \A e, f \in cache : SameMeaning(e, f) => KeyOf[e] = KeyOf[f]
=============================================================================
