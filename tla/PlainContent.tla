---------------------------- MODULE PlainContent ----------------------------
(***************************************************************************)
(* The requests for which the walks of Content agree: bodies that are JSON *)
(* and no deeper than the bound, whose images stand where the endpoint     *)
(* looks for them and are base64 (this only for one entry per meaning),    *)
(* and that mean what Meaning says of their fields.  What happens to       *)
(* others is the subject of the properties at the end of Content.          *)
(***************************************************************************)
EXTENDS Content

\* One JSON value, whatever is inside.  A client sends no descriptions, and a text
\* that is a data URL belongs to no item of its own.
Plain(v) ==
    \/ Is("text", v) /\ v = Text(v.text)
    \/ Is("link", v) /\ v = Link(v.link)
    \/ Is("dataurl", v) /\ v = DataUrl(v.dataurl, v.media)
    \/ Is("json", v) /\ v = Json(v.json)
    \/ Is("obj", v) /\ v = Obj(v.obj) /\ \A t \in Field(v.obj, "text") : ~Is("dataurl", t)
    \/ Is("arr", v) /\ v = Arr(v.arr) /\ v.arr \in Seq(Components(v))

Pictured(v) == IsImage(v) \/ Is("dataurl", v)
SourceOf(v) == IF IsImage(v) THEN RefOf(v) ELSE [b64 |-> v]

\* v is nested at most n levels deep.
Shallow(v, n) == Level(v, n + 1) = {}

\* A whole value, one level below the bound since it is a field of a body.
PlainValue(v) == Shallow(v, MaxDepth - 1) /\ \A w \in Parts(v) : Plain(w)

\* The image is given as base64, so that its payload names the picture.
IsBase64(ref) == "b64" \in DOMAIN ref /\ StripDataURLPrefix(ref.b64) = Text(PictureOf(ref))

Given(r) == DOMAIN r.body \ {"model"}

\* The fields in which clients send images.
PictureFields == {"input", "messages", "system"}

PlainRequest(r) ==
    /\ r.endpoint \in {"responses", "chat", "messages"}
    /\ MainField(r.endpoint) \in Given(r)
    /\ Given(r) \subseteq OutputAffectingKeys \cup KeyedFields(r.endpoint)
    /\ \A k \in Given(r) : PlainValue(r.body[k])
    /\ \A k \in Given(r) \ PictureFields : \A w \in Parts(r.body[k]) : ~Pictured(w)
    /\ r.means = Obj([k \in Given(r) |-> Meaning(r.body[k])])

Base64Request(r) ==
    \A k \in Given(r) : \A w \in Parts(r.body[k]) : Pictured(w) => IsBase64(SourceOf(w))

ASSUME RequestsAssumption == \A i \in DOMAIN Requests : PlainRequest(Requests[i])

ASSUME Base64Assumption == \A i \in DOMAIN Requests : Base64Request(Requests[i])
=============================================================================
