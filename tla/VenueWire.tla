----------------------------- MODULE VenueWire -----------------------------
(***************************************************************************)
(* What comes back for a request and what the typed clients make of it:    *)
(* okx_rest_client.cpp (HTTP), binance_ws_client.cpp and binance_api.cpp   *)
(* (WebSocket), and the conversions of the connectors.                     *)
(*                                                                         *)
(* A reply is its status (0 when none comes, 1 when it has none), the code *)
(* of its envelope or error object, what it carries as data or result, and *)
(* the code of the item in it.  A code is written the way the clients      *)
(* report it.                                                              *)
(***************************************************************************)
EXTENDS Naturals

VenueCodes == {"venue:-4116", "venue:-2010", "venue:-2011", "venue:-2013", "venue:-1021",
               "venue:51000", "venue:51016", "venue:51017", "venue:51603",
               "venue:0", "venue:1", "venue:other"}

\* Errors that do not say whether the request was executed.
UnknownOutcome == {"venue:-1006", "venue:-1007"}

reply(status, code, data, sCode) ==
    [status |-> status, code |-> code, data |-> data, sCode |-> sCode]

-----------------------------------------------------------------------------
(* OKX: an envelope of code and data *)

parse_envelope(r) ==
    IF r.code = "none" THEN "protocol"
    ELSE IF r.code # "0" THEN r.code
    ELSE IF r.data = "none" THEN "protocol" ELSE "ok"

\* Faulty variant: only a server error is one of transport.
classify_http_error_strict(r) ==
    IF r.status >= 500 THEN "transport" ELSE "venue:other"

classify_http_error(r) ==
    IF r.status >= 500 \/ r.status = 429 THEN "transport"
    ELSE IF parse_envelope(r) \in VenueCodes THEN parse_envelope(r) ELSE "protocol"

signed_request(r) ==
    IF r.status = 0 THEN "transport"
    ELSE IF r.status = 200 THEN parse_envelope(r) ELSE classify_http_error(r)

\* place_order, cancel_order, amend_order.
okx_order_ack(r) ==
    IF signed_request(r) = "ok" /\ r.data # "item" THEN "protocol" ELSE signed_request(r)

\* What a lookup concludes; a lookup that ends in transport is tried again.
okx_get_order(r) ==
    LET e == signed_request(r) IN
    IF e = "ok" /\ r.data = "item" THEN "Found"
    ELSE IF (e = "ok" /\ r.data = "empty") \/ e = "venue:51603" THEN "Absent"
    ELSE IF e = "transport" THEN e ELSE "Inconclusive"

\* The connector looks at the item's code when the adapter has returned.
ack_to_placement(r) == IF r.sCode \in {"", "0"} THEN "ok" ELSE r.sCode

-----------------------------------------------------------------------------
(* Binance: a status with a result or an error *)

\* The tail of BinanceWsClient::call.
binance_response(r) ==
    IF r.status = 0 THEN "transport"
    ELSE IF r.status = 1 THEN "protocol"
    ELSE IF r.status = 200 THEN IF r.data = "none" THEN "protocol" ELSE "ok"
    ELSE IF r.status >= 500 \/ r.code \in UnknownOutcome THEN "transport"
    ELSE IF r.code = "none" THEN "venue:0" ELSE r.code

\* BinanceApi and placement_from: the result is parsed and names the order.
binance_order_ack(r) ==
    IF binance_response(r) = "ok" /\ r.data # "item" THEN "protocol" ELSE binance_response(r)

binance_get_order(r) ==
    LET e == binance_order_ack(r) IN
    IF e = "ok" THEN "Found"
    ELSE IF e = "venue:-2013" THEN "Absent"
    ELSE IF e = "transport" THEN e ELSE "Inconclusive"

\* The second -1021 of one request is given up.
call_signed(e, resigned) == IF e = "venue:-1021" /\ resigned THEN "protocol" ELSE e

-----------------------------------------------------------------------------
(* What both tell the adapters: the code of a call, the code of the item in its *)
(* reply, and what a lookup has found                                           *)

Received(kind, r, resigned) ==
    IF kind = "okx" THEN okx_order_ack(r) ELSE call_signed(binance_order_ack(r), resigned)

Placement(kind, r) == IF kind = "okx" THEN ack_to_placement(r) ELSE "ok"

Concluded(kind, r) == IF kind = "okx" THEN okx_get_order(r) ELSE binance_get_order(r)

-----------------------------------------------------------------------------
(* The venue and the network (external) *)

\* The venue's own reply.  OKX refuses in the envelope, with either status, or
\* in the item, under either code of the envelope.
Says(kind, code) ==
    IF kind = "okx"
    THEN IF code = "ok" THEN {reply(200, "0", "item", s) : s \in {"", "0"}}
         ELSE {reply(s, code, "empty", "") : s \in {200, 400}}
                \cup {reply(200, e, "item", code) : e \in {"0", "venue:1"}}
    ELSE IF code = "ok" THEN {reply(200, "none", "item", "")}
         ELSE {reply(400, e, "none", "") : e \in {code, "none"}}

\* No reply, or one that says that the venue is in trouble.
Trouble(kind) ==
    {reply(s, "none", "none", "") : s \in {0, 503}}
      \cup IF kind = "okx" THEN {reply(429, "none", "none", "")}
                           ELSE {reply(408, "venue:-1007", "none", "")}

\* A reply that is none of the venue's own, or not what the client expects.
Garbled(kind) ==
    IF kind = "okx" THEN {reply(s, "none", "none", "") : s \in {200, 403}}
                           \cup {reply(200, "0", d, "") : d \in {"none", "empty"}}
                    ELSE {reply(1, "none", "none", "")}
                           \cup {reply(200, "none", d, "") : d \in {"none", "odd"}}

\* Binance checks the timestamp before it executes anything.
Skewed(kind) == IF kind = "okx" THEN {} ELSE {reply(400, "venue:-1021", "none", "")}

\* What may come back when code is the venue's answer; "none" when there is none.
Replies(kind, code) ==
    Trouble(kind) \cup Garbled(kind)
      \cup IF code = "none" THEN Skewed(kind) ELSE Says(kind, code)

\* What may come back for a lookup: an order that exists is not denied, and the
\* item of an envelope without an error is the order.
LookupReplies(kind, exists) ==
    Trouble(kind) \cup (Garbled(kind) \ {reply(200, "0", "empty", "")})
      \cup IF exists THEN Says(kind, "ok")
           ELSE IF kind = "okx"
           THEN {reply(200, "0", "empty", "")}
                  \cup (Says(kind, "venue:51603") \ {reply(200, "0", "item", "venue:51603")})
           ELSE Says(kind, "venue:-2013")

\* What the adapters get to see of it.
Arrivals ==
    [k \in {"binance", "okx"} |-> [e \in VenueCodes \cup {"ok", "none"} |-> [b \in BOOLEAN |->
        {[code |-> Received(k, r, b), item |-> Placement(k, r)] : r \in Replies(k, e)}]]]

Findings ==
    [k \in {"binance", "okx"} |-> [b \in BOOLEAN |->
        {Concluded(k, r) : r \in LookupReplies(k, b)}]]

=============================================================================
