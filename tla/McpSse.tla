------------------------------- MODULE McpSse -------------------------------
(***************************************************************************)
(* The client for MCP over server-sent events (crates/mcp sse_client.rs):  *)
(* the handshake of SseClientTransport::connect and the loop of its        *)
(* worker, which takes one happening at a time: an event of the stream, a  *)
(* message its handler sends, a cancellation.                              *)
(***************************************************************************)
EXTENDS Naturals, Sequences, FiniteSets

\* An event of the stream, or the end of it: "error" is also what the stream
\* yields 15 s after the request, which `timeout` bounds as a whole.
Event(kind, data) == [kind |-> kind, data |-> data]
Send(id, posted)  == [kind |-> "send", data |-> <<id, posted>>]

\* SseUrl::resolve_endpoint: absolute, joined to the base URL, or an error.
ResolveEndpoint(raw) == IF raw \in {"absolute", "relative"} THEN "post" ELSE "BadEndpointUrl"

\* SseClientTransport::connect and await_endpoint_event: whatever precedes the
\* endpoint event is passed over; the rest is the worker's.
Handshake(reached, status, stream) ==
  LET stops == {i \in DOMAIN stream : stream[i].kind \in {"endpoint", "error"}}
      first == CHOOSE i \in stops : \A j \in stops : i <= j
      Failed(e) == [end |-> e, rest |-> <<>>]
  IN  CASE ~reached  -> Failed("Connect")
        [] reached /\ status # 200 -> Failed("BadStatus")
        [] reached /\ status = 200 /\ stops = {} -> Failed("MissingEndpointEvent")
        [] OTHER -> IF stream[first].kind = "error" THEN Failed("Stream")
                    ELSE [end |-> ResolveEndpoint(stream[first].data),
                          rest |-> SubSeq(stream, first + 1, Len(stream))]

\* What the worker has done: why it quit, if it has; messages handed to the
\* handler; the outcome of each message the handler sent.
Running == [quit |-> "", delivered |-> <<>>, answered |-> <<>>]

\* Only unnamed and `message` events carry JSON-RPC; a blank one is skipped, one
\* that is no JSON-RPC is fatal.
OnEvent(w, data) ==
  CASE data = "blank" -> w
    [] data = "junk"  -> [w EXCEPT !.quit = "Serialize"]
    [] OTHER          -> [w EXCEPT !.delivered = Append(@, data)]

\* post_message, whose failure is the sender's and does not end the worker.
OnSend(w, send) == [w EXCEPT !.answered = Append(@, send)]

\* A bug for the checks: a message that cannot be posted ends the worker.
StepFatal(w, h) ==
  IF w.quit # "" THEN w
  ELSE CASE h.kind = "message" -> OnEvent(w, h.data)
         [] h.kind = "send" -> IF h.data[2] = "ok" THEN OnSend(w, h.data) ELSE [w EXCEPT !.quit = "Post"]
         [] h.kind \in {"error", "end", "cancel", "handler"} -> [w EXCEPT !.quit = h.kind]
         [] OTHER -> w

\* One turn of the loop in Worker::run.
Step(w, h) ==
  IF w.quit # "" THEN w
  ELSE CASE h.kind = "message" -> OnEvent(w, h.data)
         [] h.kind = "send" -> OnSend(w, h.data)
         [] h.kind \in {"error", "end", "cancel", "handler"} -> [w EXCEPT !.quit = h.kind]
         [] OTHER -> w

Run(happenings) ==
  LET after[k \in 0..Len(happenings)] ==
        IF k = 0 THEN Running ELSE Step(after[k - 1], happenings[k])
  IN  after[Len(happenings)]
-----------------------------------------------------------------------------
SomeHappenings ==
  {Event("endpoint", "relative"), Event("endpoint", "bad"), Event("ping", ""), Event("message", "m1"),
   Event("message", "m2"), Event("message", "blank"), Event("message", "junk"), Event("error", ""),
   Send("r1", "ok"), Send("r2", "PostStatus")}

\* No message is sent before the endpoint is known.
SomeStreams ==
  {s \in UNION {[1..n -> SomeHappenings] : n \in 0..5} :
     \A i \in DOMAIN s : s[i].kind = "send" => \E j \in 1..(i - 1) : s[j].kind = "endpoint"}

\* "Keep looping for the real one" and "Worker swallows responder errors":
\* the session opens whatever precedes the endpoint event, short of an error;
\* from there to the first thing that ends it, every message reaches the handler
\* once and in order, and every request is answered once and in order with the
\* outcome of its own POST; afterwards nothing does.
FaithfulOn(s) ==
  LET Stops(i) == s[i].kind \in {"endpoint", "error"}
      start == {i \in DOMAIN s : /\ s[i].kind = "endpoint" /\ s[i].data \in {"absolute", "relative"}
                                 /\ \A j \in 1..(i - 1) : ~Stops(j)}
      opened == Handshake(TRUE, 200, s)
      w == Run(opened.rest)
  IN  /\ opened.end = "post" <=> start # {}
      /\ \A n \in start :
             LET Fatal(i) == \/ s[i].kind \in {"error", "end", "cancel", "handler"}
                             \/ s[i].kind = "message" /\ s[i].data = "junk"
                 Counts(kind, i) ==
                   /\ s[i].kind = kind /\ (kind = "message" => s[i].data # "blank")
                   /\ \A j \in (n + 1)..i : ~Fatal(j)
                 Upto(kind, k) == Cardinality({i \in (n + 1)..k : Counts(kind, i)})
                 InTurn(seq, kind) ==
                   /\ Len(seq) = Upto(kind, Len(s))
                   /\ \A i \in (n + 1)..Len(s) : Counts(kind, i) => seq[Upto(kind, i)] = s[i].data
             IN  /\ w.quit = "" <=> \A i \in (n + 1)..Len(s) : ~Fatal(i)
                 /\ InTurn(w.delivered, "message")
                 /\ InTurn(w.answered, "send")
=============================================================================
