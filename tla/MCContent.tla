------------------------------ MODULE MCContent ------------------------------
(* Requests for Content: pictures in every wrapping the clients use, in     *)
(* contexts composed of the frames below, each with its meaning.            *)
EXTENDS Content, TLC

Pictures == {"p1", "p2"}

Base64(p) == Obj([type |-> Text("base64"), media_type |-> Text("image/png"), data |-> Text(p)])
UrlSource(s) == Obj([type |-> Text("url"), url |-> s])

Wraps(p) == [
    chat    |-> Obj([type |-> Text("image_url"),
                     image_url |-> Obj([url |-> DataUrl(Text(p), "png")])]),
    input   |-> Obj([type |-> Text("input_image"), detail |-> Text("low"),
                     image_url |-> DataUrl(Text(p), "jpeg")]),
    claude  |-> Obj([type |-> Text("image"), source |-> Base64(p)]),
    untyped |-> Obj([source |-> Base64(p)]),
    data    |-> Obj([type |-> Text("image"), data |-> Text(p)]),
    url     |-> Obj([type |-> Text("image"), url |-> DataUrl(Text(p), "png")]),
    bare    |-> DataUrl(Text(p), "webp"),
    link    |-> Obj([type |-> Text("input_image"), image_url |-> Link(p)]),
    wrapped |-> Obj([type |-> Text("image"), source |-> UrlSource(DataUrl(Text(p), "png"))]),
    means   |-> Picture(p) ]

Base64Wraps == {"chat", "input", "claude", "untyped", "data", "url", "bare"}

\* A volatile field that differs from one wrapping to the next.
Stamp(w) == IF w = "means" THEN <<>> ELSE [id |-> Text(w)]

Frame(name, x, w) ==
    CASE name = "message" ->
            Obj(Stamp(w) @@ [role |-> Text("user"),
                             content |-> Arr(<<Obj([type |-> Text("text"), text |-> Text("q")]), x>>)])
      [] name = "result" -> Obj(Stamp(w) @@ [type |-> Text("tool_result"), content |-> x])
      [] name = "pair" -> Arr(<<x, Wraps("p1")[IF w = "means" THEN w ELSE "input"]>>)
      [] name = "json" -> Json(Obj([output |-> x]))

Frames == {"message", "result", "pair", "json"}
Paths(n) == [1 .. n -> Frames]

Fill(path, p, w) == FoldRight(LAMBDA name, x : Frame(name, x, w), path, Wraps(p)[w])

Request(endpoint, body, means) == [endpoint |-> endpoint, means |-> Obj(means),
                                   body |-> [model |-> Text("group")] @@ body]

Chat(path, p, w) ==
    Request("chat", [messages |-> Arr(<<Fill(path, p, w)>>)],
                    [messages |-> Arr(<<Fill(path, p, "means")>>)])

Params == [
    none   |-> <<>>,
    stream |-> [stream |-> Text("true")],
    cool   |-> [temperature |-> Text("0")] ]

Responses(params, path, p, w) ==
    Request("responses", params @@ [input |-> Fill(path, p, w)],
                         params @@ [input |-> Fill(path, p, "means")])

\* A picture in the messages and one in the system prompt.
Messages(path, p, w, q) ==
    Request("messages",
        [messages |-> Arr(<<Fill(path, p, w)>>), system |-> Arr(<<Wraps(q)[w]>>)],
        [messages |-> Arr(<<Fill(path, p, "means")>>), system |-> Arr(<<Picture(q)>>)])

\* Names of requests: endpoint, picture, wrapping, path, and a last part for the endpoint.
MCNames ==
    ({"chat"} \X Pictures \X Base64Wraps \X Paths(1) \X {"none"})
        \cup ({"chat"} \X Pictures \X {"chat", "untyped", "bare"} \X Paths(2) \X {"none"})
        \cup ({"responses"} \X Pictures \X {"input", "bare"} \X {<<"message">>} \X DOMAIN Params)
        \cup ({"messages"} \X Pictures \X {"claude", "untyped", "data"} \X {<<"message">>} \X Pictures)

Named(n) ==
    CASE n[1] = "chat" -> Chat(n[4], n[2], n[3])
      [] n[1] = "responses" -> Responses(Params[n[5]], n[4], n[2], n[3])
      [] n[1] = "messages" -> Messages(n[4], n[2], n[3], n[5])

MCRequests == [n \in MCNames |-> Named(n)]

\* A tool with a parameter called id, and a call of it.
Tool(n) == Arr(<<Obj([parameters |-> Obj([properties |-> Obj([id |-> Text(n)])])])>>)
Call(n) == Arr(<<Obj([arguments |-> Json(Obj([id |-> Text(n)]))])>>)
ToolUse(n) == [tools |-> Tool(n[1]), messages |-> Call(n[2])]

MCToolRequests ==
    [n \in {"number", "string"} \X {"1", "2"} |-> Request("chat", ToolUse(n), ToolUse(n))]

MCUrlRequests == [w \in {"chat", "link", "wrapped"} |-> Chat(<<"message">>, "p1", w)]
=============================================================================
