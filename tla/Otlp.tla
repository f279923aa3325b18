------------------------------- MODULE Otlp -------------------------------
(* otlp.py: what the validation of a connection makes of the endpoint, and  *)
(* of the answer to the empty export it sends.                              *)

Protocols == {"grpc", "http"}

(* Endpoints, known by what the code tells of them: without "://", http://, *)
(* https://, another scheme or no host, and what urlsplit cannot take apart.*)
Endpoints == {"bare", "http_url", "https_url", "other_url", "unparsable"}

(* What comes back: gRPC status codes or HTTP statuses; "unreachable" is an *)
(* RpcError or RequestException for any other reason; "raised" is any other *)
(* exception, e.g. a header that cannot be encoded.                         *)
Answers == {"OK", "UNAUTHENTICATED", "PERMISSION_DENIED", "unreachable", "raised"}

Rejected == {"UNAUTHENTICATED", "PERMISSION_DENIED"}    \* HTTP: 401, 403

Outcomes == {"accepted", "OtelAuthenticationError", "OtelConnectionError", "unexpected"}

(* _resolve_grpc_endpoint: what it raises, or "accepted".                   *)
ResolveGrpcEndpoint(endpoint) ==
    CASE endpoint = "other_url"  -> "OtelConnectionError"
      [] endpoint = "unparsable" -> "unexpected"        \* ValueError
      [] OTHER                   -> "accepted"

(* _validate_grpc_connection: the channel is made before the try, every     *)
(* exception inside it becomes one of the two errors.                       *)
ValidateGrpc(endpoint, answer) ==
    IF ResolveGrpcEndpoint(endpoint) # "accepted" THEN ResolveGrpcEndpoint(endpoint)
    ELSE IF answer = "OK" THEN "accepted"
    ELSE IF answer \in Rejected THEN "OtelAuthenticationError"
    ELSE "OtelConnectionError"

(* _validate_http_connection catches only what requests raises; requests    *)
(* refuses what is not an http(s) URL with an exception of its own.         *)
ValidateHttp(endpoint, answer) ==
    IF endpoint \notin {"http_url", "https_url"} THEN "OtelConnectionError"
    ELSE CASE answer = "OK"          -> "accepted"
           [] answer \in Rejected    -> "OtelAuthenticationError"
           [] answer = "unreachable" -> "OtelConnectionError"
           [] answer = "raised"      -> "unexpected"

(* validate_trace_exporter_connection                                       *)
ValidateConnection(settings, answer) ==
    IF settings.protocol = "grpc" THEN ValidateGrpc(settings.endpoint, answer)
    ELSE ValidateHttp(settings.endpoint, answer)

(* create_trace_exporter resolves the endpoint of gRPC once more.           *)
ExporterRaises(settings) ==
    settings.protocol = "grpc" /\ ResolveGrpcEndpoint(settings.endpoint) # "accepted"
=============================================================================
