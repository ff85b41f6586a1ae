------------------------------- MODULE Fercc -------------------------------
(***************************************************************************)
(* One run of the command line against a device (fercc/src/lib.rs): ask it *)
(* which YANG catalog it has, encode the input, send it, and print what    *)
(* the answer says.                                                        *)
(*                                                                         *)
(* A payload is the sequence of its CBOR items.  Acquiring the catalog is  *)
(* module CatalogCache, exchanging messages CoapExchange: here they        *)
(* succeed or fail.  JSON and YAML are the same JSON value.                *)
(***************************************************************************)
EXTENDS YangCodec

CONSTANTS
    Invocations, \* set of [method, input, continue_on_error, use_workspace]
    Answers      \* set of [methods, resp, meant]: what a device may answer, and the data it
                 \* means by it: None for no data, Err for an answer that means nothing

VARIABLES
    opts,    \* what fercc is called with
    sent,    \* the items of the request, or None
    answer,  \* the device's answer, or None
    output,  \* what is printed or written to -o
    step     \* "checksum", "request", "waiting", "ok", "failed"

ferccVars == <<opts, sent, answer, output, step>>

SID_CHECKSUM == 29304

\* fercc returns an error.
Fails == step' = "failed" /\ UNCHANGED <<opts, sent, answer, output>>

fetch_yang_lib_checksum_from_dut(resp) ==
    IF resp.code_class # 2 \/ resp.code_detail # 5 THEN Err
    ELSE IF resp.payload = <<>> THEN Err
    ELSE IF resp.payload[1][1] # "Map" THEN Err
    ELSE IF resp.payload[1][2] = <<>> THEN Err
    ELSE LET val == resp.payload[1][2][1][2]
         IN  IF val[1] = "Bytes" THEN Ok(val[2]) ELSE Err

\* Mutant: the request as it was written.
normalize_fetch_request_items_Not(items) == items

\* A path with null for a value is a path: devices refuse the first.
normalize_fetch_request_items(items) ==
    [i \in DOMAIN items |->
        IF items[i][1] = "Object" /\ Len(items[i][2]) = 1 /\ items[i][2][1][2] = JNull
        THEN JString(items[i][2][1][1]) ELSE items[i]]

SuccessFormat(method) ==
    CASE method = "fetch" -> "Fetch" [] method = "ipatch" -> "Ipatch" [] method = "get" -> "Get"
      [] method = "put" -> "Put" [] method = "post" -> "Post" [] method = "delete" -> "Yang"

\* coap_method_run: the payload of the request.
RequestItems ==
    LET cf == SuccessFormat(opts.method)
        Items == IF opts.method = "fetch" THEN normalize_fetch_request_items(opts.input[2]) ELSE opts.input[2]
    IN  CASE opts.method \in {"get", "delete"} -> Ok(<<>>)
          [] opts.method = "put" ->
               Then(json_to_cbor(opts.input, cf, opts.continue_on_error), LAMBDA tree : Ok(<<tree>>))
          [] OTHER -> IF opts.input[1] # "Array" THEN Err
                      ELSE json_seq_to_cbor(Items, cf, opts.continue_on_error)

\* Mutant: the format of the method, whatever the answer says.
EffectiveFormat_Method(resp, success_format) == success_format

EffectiveFormat(resp, success_format) ==
    CASE resp.content_format = 140 -> "Yang"
      [] resp.content_format \in {141, 142} -> "Fetch"
      [] OTHER -> success_format

Shown(json) == <<"json", json>>
NoDefinedShape == <<"bytes">>
CouldNotDecode == <<"could not decode">>

\* What is printed of a payload; None if nothing is.
decode_response_payload(resp, success_format) ==
    LET is_success == resp.code_class = 2
        is_bad_request == resp.code_class = 4 /\ resp.code_detail = 0
        format == EffectiveFormat(resp, success_format)
        Decoded == IF is_sequence(format) THEN cbor_seq_to_json(resp.payload, format)
                   ELSE Then(cbor_to_json(resp.payload, format), LAMBDA tree : Ok(<<tree>>))
        AsOutput(list) == Ok(Shown(IF Len(list) = 1 THEN list[1] ELSE JArray(list)))
    IN  IF resp.payload = <<>> THEN None
        ELSE IF (is_success /\ success_format \in {"Put", "Ipatch"}) \/ (~is_success /\ ~is_bad_request)
        THEN NoDefinedShape
        ELSE OrElse(Then(Decoded, AsOutput), CouldNotDecode)

\* write_output writes nothing for an empty list or object.
NonEmpty(out) == IF out \in {Shown(JNull), Shown(JArray(<<>>)), Shown(JObject(<<>>))} THEN None ELSE out

-----------------------------------------------------------------------------
FerccInit ==
    /\ opts \in Invocations
    /\ sent = None /\ answer = None /\ output = None
    /\ step = IF opts.use_workspace THEN "request" ELSE "checksum"

\* load_downloaded_schema
Checksum(resp) ==
    /\ step = "checksum"
    /\ IF fetch_yang_lib_checksum_from_dut(resp) = Err THEN Fails
       ELSE step' = "request" /\ UNCHANGED <<opts, sent, answer, output>>

\* No catalog, no input file, no answer: whatever fails before the answer.
RunFails == step \in {"checksum", "request", "waiting"} /\ Fails

Request ==
    /\ step = "request"
    /\ sent' = OrElse(RequestItems, None)
    /\ step' = IF sent' = None THEN "failed" ELSE "waiting"
    /\ UNCHANGED <<opts, answer, output>>

\* The device answers, and the answer is printed, whatever its code.
Respond(a) ==
    /\ step = "waiting" /\ opts.method \in a.methods
    /\ answer' = a
    /\ output' = NonEmpty(decode_response_payload(a.resp, SuccessFormat(opts.method)))
    /\ step' = "ok"
    /\ UNCHANGED <<opts, sent>>

FerccNext ==
    \/ \E a \in Answers : Checksum(a.resp)
    \/ RunFails
    \/ Request
    \/ \E a \in Answers : Respond(a)

-----------------------------------------------------------------------------
(* Correctness.                                                            *)

\* An entry of a fetch that has no value to it, in any of its spellings, is
\* sent as an identifier alone, which is all that devices take.
FetchesAreBare ==
    sent # None /\ opts.method = "fetch" =>
        \A i \in DOMAIN opts.input[2] :
            LET item == opts.input[2][i]
            IN  item[1] = "String" \/ item[2][1][2] = JNull => sent[i][1] # "Map"

\* What the device says is what is printed, for every method, code and content
\* format that the firmware answers with.
AnswersAreShown ==
    (IF answer = None THEN FALSE ELSE answer.meant # Err) =>
        output = IF answer.meant = None THEN None
                 ELSE IF Len(answer.meant) = 1 THEN Shown(answer.meant[1]) ELSE Shown(JArray(answer.meant))
=============================================================================
