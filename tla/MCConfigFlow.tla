--------------------------- MODULE MCConfigFlow ---------------------------
(* A small instance of ConfigFlow: one header, and inputs with and without  *)
(* it, one for each protocol.                                               *)
EXTENDS ConfigFlow

CONSTANT token

MCHeader == {token}

MCInputs == {[endpoint |-> "http_url",  protocol |-> "grpc", auth_header |-> token],
             [endpoint |-> "https_url", protocol |-> "http", auth_header |-> " "]}
=============================================================================
