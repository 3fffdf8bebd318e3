----------------------------- MODULE NodePayload ----------------------------
(***************************************************************************)
(* nodejs/httppayload: POST /payload/<kind> parses its body, sends it on   *)
(* to /echo/<kind> of the same process, and answers with what came in and  *)
(* what came back.                                                         *)
(*                                                                         *)
(* A parsed value is a string, an array of strings, an object, or bytes    *)
(* that are not text; a form is a function from its keys to values, sent   *)
(* as a sequence of pairs.  "absent" is a request without a body of its    *)
(* kind, which the parsers leave as an empty object.                       *)
(*                                                                         *)
(* Bodies are within the limits of the parsers on their way in and to the  *)
(* echo.  One that outgrows them in between is left out: the echo of a     *)
(* form then ends in 502, and that of a multipart body in a JSON.parse     *)
(* that throws in the callback of 'end', where nothing catches it.         *)
(***************************************************************************)
EXTENDS NodeProcess, Sequences

Val(type, v) == [type |-> type, v |-> v]
Str(v)  == Val("string", v)
Absent  == Val("object", "{}")
Two     == Val("array", "xy")   \* a repeated key
One     == Val("array", "x")    \* a[]=x
Texts   == {"text", "html", "xml"}
Kinds   == Texts \union {"json", "form", "multipart", "binary"}

\* Bodies of each kind.
Bodies(kind) ==
  CASE kind = "json"   -> {Val("object", "o"), Val("array", "x"), Absent}
    [] kind \in Texts  -> {Str("text"), Str("empty"), Absent}
    [] kind = "binary" -> {Val("bytes", "b"), Absent}
    [] kind = "form"   -> [{"a"} -> {Str("x"), Two, One, Val("object", "o")}] \union [{} -> {Str("x")}]
    [] kind = "multipart" ->
         [{"a"} -> {Str("x"), Two, One}] \union [{"a", "file"} -> {Str("x"), Val("bytes", "b")}]

Requests == UNION {{kind} \X Bodies(kind) : kind \in Kinds}

\* querystring.stringify, then qs: a repeated key is an array again, but an array of
\* one comes back as its element; a nested object is sent as an empty string.
FormEcho(body) ==
  [k \in DOMAIN body |-> IF body[k] = One THEN Str("x")
                         ELSE IF body[k].type = "object" THEN Str("empty") ELSE body[k]]

\* A part holds the value as a string: an array is joined, bytes that are not text
\* are replaced.
PartEcho(body) ==
  [k \in DOMAIN body |-> IF body[k].type = "string" THEN body[k]
                         ELSE IF body[k].type = "array" THEN Str("joined")
                         ELSE Val("bytes", "replaced")]

\* Mutant of Echo: objects are not made JSON.
EchoAnyObject(kind, body) ==
  CASE kind = "form"      -> FormEcho(body)
    [] kind = "multipart" -> PartEcho(body)
    [] kind \notin {"form", "multipart"} /\ body.type = "object" -> Str("[object Object]")
    [] OTHER              -> body

\* postToSelf and the echo handlers: an object goes out as JSON, which the parser of
\* a text or of bytes returns as it is.
Echo(kind, body) ==
  CASE kind = "form"      -> FormEcho(body)
    [] kind = "multipart" -> PartEcho(body)
    [] kind \in Texts \union {"binary"} /\ body.type = "object" ->
         Val(IF kind = "binary" THEN "bytes" ELSE "string", "{}")
    [] OTHER              -> body

PayloadArrives(s) ==
  /\ listening
  /\ \E r \in Requests : Begin(s, "payload", r, 1)
  /\ UNCHANGED <<app, own, listening, code, told, timers, peer, faults, answer>>

\* The echo answers, or the connection is refused and the answer is 502.
EchoSettles(s) ==
  /\ job[s].does = "payload"
  /\ End(s)
  /\ LET echoed == Echo(job[s].req[1], job[s].req[2])
     IN answer' \in [req : {job[s].req},
                     says : {<<"200", echoed>>} \union
                            (IF listening THEN {} ELSE {<<"502">>})]
  /\ UNCHANGED <<app, own, listening, code, told, timers, peer, faults>>

PayloadNext == Sigterm({"deadline"}, TRUE)
            \/ \E s \in Slot : PayloadArrives(s) \/ EchoSettles(s)

-----------------------------------------------------------------------------

\* "receive payload and return it as-is": what came back is what came in unless the
\* request had no body of its kind, nested a form field or made it an array of one,
\* repeated a part, or sent a file that is not text.
EchoIsIncoming ==
  (answer.req \in Requests /\ answer.says[1] = "200") =>
    LET kind == answer.req[1]
        body == answer.req[2]
        Kept == CASE kind = "json" -> TRUE
                  [] kind = "form" -> \A k \in DOMAIN body : body[k] = Two \/ body[k].type = "string"
                  [] kind = "multipart" -> \A k \in DOMAIN body : body[k].type = "string"
                  [] OTHER -> body # Absent
    IN (answer.says[2] = body) <=> Kept
=============================================================================
