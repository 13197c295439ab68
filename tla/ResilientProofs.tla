-------------------------- MODULE ResilientProofs --------------------------
(***************************************************************************)
(* Proofs about resolve-then-retry, for any number of calls, attempts and  *)
(* values, on both venues, as long as no request outlives its call.        *)
(***************************************************************************)
EXTENDS Resilient, SequenceTheorems, TLAPS

VenueAnswers == VenueCodes \cup {"ok", "none"}

Idle(c) == call[c].pc = "idle"
IsPlace(c) == call[c].op = "place" /\ ~Idle(c)

\* The registry places an id once.
OnePlace == \A c, d \in Calls : IsPlace(c) /\ IsPlace(d) => c = d

\* Only calls bring orders to the venue.
NothingUnasked == (\A c \in Calls : Idle(c)) => orders = <<>>

\* What a place knows: it is about to send, or waits and has not been
\* accepted, or was refused, or has seen the absence of the order.
KnowsAbsent(k) ==
    \/ k.pc = "send"
    \/ k.pc = "wait" /\ k.answer.code # "ok"
    \/ k.pc \in {"lookup", "decide"} /\ k.answer.code # "transport"
    \/ k.pc = "decide" /\ k.found.outcome = "Absent"

\* What it knows is so.
KnowledgeTrue == \A c \in Calls : call[c].op = "place" /\ KnowsAbsent(call[c]) => Placed = {}

\* A call waits for the venue's answer.
WaitsForVenue == \A c \in Calls : call[c].pc = "wait" => call[c].answer.code \in VenueAnswers

Inv == TypeOK /\ WaitsForVenue /\ OnePlace /\ NothingUnasked /\ KnowledgeTrue /\ PlacedOnce

-----------------------------------------------------------------------------
(* What the typed clients make of a reply *)

Kinds == {"binance", "okx"}

\* What the OKX client makes of a reply: the code of the request, what the reply
\* carries and the code of the item in it.
Heard(r, q, d, i) == signed_request(r) = q /\ r.data = d /\ ack_to_placement(r) = i

LEMMA OkxTrouble ==
    ASSUME NEW r \in Trouble("okx")
    PROVE  Heard(r, "transport", "none", "ok")
<1>0. ASSUME NEW s \in {0, 503, 429}, r = reply(s, "none", "none", "")
      PROVE  Heard(r, "transport", "none", "ok")
  <2>1. r.status = s /\ r.data = "none" /\ r.sCode = ""
    BY <1>0 DEF reply
  <2>2. r.status \in {0, 503, 429}
    BY <2>1
  <2>3. signed_request(r) = "transport"
    BY <2>2 DEF signed_request, classify_http_error
  <2>4. ack_to_placement(r) = "ok"
    BY <2>1 DEF ack_to_placement
  <2> QED
    BY <2>1, <2>3, <2>4 DEF Heard
<1>1. r = reply(0, "none", "none", "") \/ r = reply(503, "none", "none", "")
      \/ r = reply(429, "none", "none", "")
  BY ZenonT(60) DEF Trouble
<1> QED
  BY <1>0, <1>1, ZenonT(60)

LEMMA OkxOk ==
    ASSUME NEW d \in {"none", "empty", "item"}, NEW i
    PROVE  Heard(reply(200, "0", d, i), IF d = "none" THEN "protocol" ELSE "ok", d,
                 IF i \in {"", "0"} THEN "ok" ELSE i)
<1> DEFINE r == reply(200, "0", d, i)
<1>1. r.status = 200 /\ r.code = "0" /\ r.data = d /\ r.sCode = i
  BY DEF reply
<1> HIDE DEF r
<1>2. signed_request(r) = IF d = "none" THEN "protocol" ELSE "ok"
  BY <1>1 DEF signed_request, parse_envelope
<1>3. ack_to_placement(r) = IF i \in {"", "0"} THEN "ok" ELSE i
  BY <1>1 DEF ack_to_placement
<1> QED
  BY <1>1, <1>2, <1>3 DEF Heard, r

LEMMA OkxCode ==
    ASSUME NEW e \in VenueCodes, NEW d, NEW i, NEW r,
           r = reply(200, e, d, i) \/ r = reply(400, e, d, i)
    PROVE  /\ i \in {"", "0"} => Heard(r, e, d, "ok")
           /\ i \notin {"", "0"} => Heard(r, e, d, i)
<1>1. (r.status = 200 \/ r.status = 400) /\ r.code = e /\ r.data = d /\ r.sCode = i
  BY DEF reply
<1>2. r.status \in {200, 400} /\ r.code \in VenueCodes
  BY <1>1
<1>3. signed_request(r) = r.code
  BY <1>2 DEF signed_request, classify_http_error, parse_envelope, VenueCodes
<1>4. ack_to_placement(r) = IF i \in {"", "0"} THEN "ok" ELSE i
  BY <1>1 DEF ack_to_placement
<1> QED
  BY <1>1, <1>3, <1>4 DEF Heard

LEMMA OkxGarbled ==
    ASSUME NEW r \in Garbled("okx")
    PROVE  \/ Heard(r, "protocol", "none", "ok")
           \/ Heard(r, "ok", "empty", "ok") /\ r = reply(200, "0", "empty", "")
<1>0. ASSUME NEW s \in {200, 403}, r = reply(s, "none", "none", "")
      PROVE  Heard(r, "protocol", "none", "ok")
  <2>1. r.status = s /\ r.code = "none" /\ r.data = "none" /\ r.sCode = ""
    BY <1>0 DEF reply
  <2>2. r.status \in {200, 403} /\ r.code = "none"
    BY <2>1
  <2>3. signed_request(r) = "protocol"
    BY <2>2 DEF signed_request, classify_http_error, parse_envelope, VenueCodes
  <2>4. ack_to_placement(r) = "ok"
    BY <2>1 DEF ack_to_placement
  <2> QED
    BY <2>1, <2>3, <2>4 DEF Heard
<1>1. \/ r = reply(200, "none", "none", "") \/ r = reply(403, "none", "none", "")
      \/ r = reply(200, "0", "none", "") \/ r = reply(200, "0", "empty", "")
  BY ZenonT(60) DEF Garbled
<1>2. CASE r = reply(200, "none", "none", "") \/ r = reply(403, "none", "none", "")
  BY <1>0, <1>2
<1>3. CASE r = reply(200, "0", "none", "")
  <2>1. Heard(reply(200, "0", "none", ""), "protocol", "none", "ok")
    BY OkxOk
  <2> QED
    BY <1>3, <2>1
<1>4. CASE r = reply(200, "0", "empty", "")
  <2>1. Heard(reply(200, "0", "empty", ""), "ok", "empty", "ok")
    BY OkxOk
  <2> QED
    BY <1>4, <2>1
<1> QED
  BY <1>1, <1>2, <1>3, <1>4

LEMMA OkxAccepts ==
    ASSUME NEW r \in Says("okx", "ok")
    PROVE  Heard(r, "ok", "item", "ok")
<1>1. r = reply(200, "0", "item", "") \/ r = reply(200, "0", "item", "0")
  BY DEF Says
<1>2. Heard(reply(200, "0", "item", ""), "ok", "item", "ok")
  BY OkxOk
<1>3. Heard(reply(200, "0", "item", "0"), "ok", "item", "ok")
  BY OkxOk
<1> QED
  BY <1>1, <1>2, <1>3

LEMMA OkxRefuses ==
    ASSUME NEW e \in VenueCodes, NEW r \in Says("okx", e)
    PROVE  \/ Heard(r, e, "empty", "ok")
           \/ Heard(r, "venue:1", "item", e)
           \/ Heard(r, "ok", "item", e) /\ r = reply(200, "0", "item", e)
<1>0. e \notin {"ok", "", "0"} /\ "venue:1" \in VenueCodes
  BY DEF VenueCodes
<1>1. \/ r = reply(200, e, "empty", "") \/ r = reply(400, e, "empty", "")
      \/ r = reply(200, "0", "item", e) \/ r = reply(200, "venue:1", "item", e)
  BY <1>0, ZenonT(60) DEF Says
<1>2. CASE r = reply(200, e, "empty", "") \/ r = reply(400, e, "empty", "")
  <2>1. Heard(r, e, "empty", "ok")
    BY <1>2, OkxCode, ZenonT(60)
  <2> QED
    BY <2>1
<1>3. CASE r = reply(200, "0", "item", e)
  <2>1. Heard(reply(200, "0", "item", e), "ok", "item", e)
    BY <1>0, OkxOk
  <2> QED
    BY <1>3, <2>1
<1>4. CASE r = reply(200, "venue:1", "item", e)
  <2>1. Heard(r, "venue:1", "item", e)
    BY <1>0, <1>4, OkxCode
  <2> QED
    BY <2>1
<1> QED
  BY <1>1, <1>2, <1>3, <1>4

\* What follows for orders and for lookups.
LEMMA OkxConcludes ==
    ASSUME NEW r, NEW q, NEW d, NEW i, Heard(r, q, d, i)
    PROVE  /\ okx_order_ack(r) = IF q = "ok" /\ d # "item" THEN "protocol" ELSE q
           /\ ack_to_placement(r) = i
           /\ okx_get_order(r) = IF q = "ok" /\ d = "item" THEN "Found"
                                 ELSE IF (q = "ok" /\ d = "empty") \/ q = "venue:51603" THEN "Absent"
                                 ELSE IF q = "transport" THEN q ELSE "Inconclusive"
<1>1. signed_request(r) = q /\ r.data = d
  BY DEF Heard
<1>2. okx_order_ack(r) = IF q = "ok" /\ d # "item" THEN "protocol" ELSE q
  BY <1>1 DEF okx_order_ack
<1>3. okx_get_order(r) = IF q = "ok" /\ d = "item" THEN "Found"
                         ELSE IF (q = "ok" /\ d = "empty") \/ q = "venue:51603" THEN "Absent"
                         ELSE IF q = "transport" THEN q ELSE "Inconclusive"
  BY <1>1 DEF okx_get_order
<1> QED
  BY <1>2, <1>3 DEF Heard

\* What the Binance client makes of the replies there are.
LEMMA BinanceTrouble ==
    ASSUME NEW r \in Trouble("binance")
    PROVE  binance_order_ack(r) = "transport"
<1>1. \/ r = reply(0, "none", "none", "") \/ r = reply(503, "none", "none", "")
      \/ r = reply(408, "venue:-1007", "none", "")
  BY DEF Trouble
<1>2. binance_order_ack(reply(0, "none", "none", "")) = "transport"
  BY DEF reply, binance_order_ack, binance_response
<1>3. binance_order_ack(reply(503, "none", "none", "")) = "transport"
  BY DEF reply, binance_order_ack, binance_response
<1>4. binance_order_ack(reply(408, "venue:-1007", "none", "")) = "transport"
  BY DEF reply, binance_order_ack, binance_response, UnknownOutcome
<1> QED
  BY <1>1, <1>2, <1>3, <1>4, ZenonT(60)

LEMMA BinanceGarbled ==
    ASSUME NEW r \in Garbled("binance")
    PROVE  binance_order_ack(r) = "protocol"
<1>1. \/ r = reply(1, "none", "none", "") \/ r = reply(200, "none", "none", "")
      \/ r = reply(200, "none", "odd", "")
  BY DEF Garbled
<1>2. binance_order_ack(reply(1, "none", "none", "")) = "protocol"
  BY DEF reply, binance_order_ack, binance_response
<1>3. binance_order_ack(reply(200, "none", "none", "")) = "protocol"
  BY DEF reply, binance_order_ack, binance_response
<1>4. binance_order_ack(reply(200, "none", "odd", "")) = "protocol"
  BY DEF reply, binance_order_ack, binance_response
<1> QED
  BY <1>1, <1>2, <1>3, <1>4

LEMMA BinanceSkewed ==
    ASSUME NEW r \in Skewed("binance")
    PROVE  binance_order_ack(r) = "venue:-1021"
<1>1. r = reply(400, "venue:-1021", "none", "")
  BY DEF Skewed
<1>2. binance_order_ack(reply(400, "venue:-1021", "none", "")) = "venue:-1021"
  BY DEF reply, binance_order_ack, binance_response, UnknownOutcome
<1> QED
  BY <1>1, <1>2

LEMMA BinanceAccepts ==
    ASSUME NEW r \in Says("binance", "ok")
    PROVE  binance_order_ack(r) = "ok"
<1>1. r = reply(200, "none", "item", "")
  BY DEF Says
<1>2. binance_order_ack(reply(200, "none", "item", "")) = "ok"
  BY DEF reply, binance_order_ack, binance_response
<1> QED
  BY <1>1, <1>2

LEMMA BinanceRefuses ==
    ASSUME NEW e \in VenueCodes, NEW r \in Says("binance", e)
    PROVE  binance_order_ack(r) = e \/ binance_order_ack(r) = "venue:0"
<1>0. e \notin {"ok", "none"} \cup UnknownOutcome
  BY DEF VenueCodes, UnknownOutcome
<1>1. r = reply(400, e, "none", "") \/ r = reply(400, "none", "none", "")
  BY <1>0 DEF Says
<1>2. binance_order_ack(reply(400, e, "none", "")) = e
  BY <1>0 DEF reply, binance_order_ack, binance_response
<1>3. binance_order_ack(reply(400, "none", "none", "")) = "venue:0"
  BY DEF reply, binance_order_ack, binance_response, UnknownOutcome
<1> QED
  BY <1>1, <1>2, <1>3

\* A reply of OKX is reported as one of transport or a protocol error, unless
\* it is the venue's own.
LEMMA OkxTold ==
    ASSUME NEW e \in VenueAnswers, NEW r \in Replies("okx", e)
    PROVE  /\ okx_order_ack(r) \in VenueCodes \cup {"ok", "transport", "protocol"}
           /\ ack_to_placement(r) \in VenueCodes \cup {"ok"}
           /\ okx_order_ack(r) \in VenueCodes => e # "ok"
           /\ okx_order_ack(r) = "ok" => (e = "ok" <=> ack_to_placement(r) = "ok")
<1>0. "ok" \notin VenueCodes /\ "transport" \notin VenueCodes /\ "protocol" \notin VenueCodes
      /\ "venue:1" \in VenueCodes
  BY DEF VenueCodes
<1>1. CASE r \in Trouble("okx")
  BY <1>0, <1>1, OkxTrouble, OkxConcludes
<1>2. CASE r \in Garbled("okx")
  <2>1. CASE Heard(r, "protocol", "none", "ok")
    BY <1>0, <2>1, OkxConcludes
  <2>2. CASE Heard(r, "ok", "empty", "ok")
    BY <1>0, <2>2, OkxConcludes
  <2> QED
    BY <1>2, <2>1, <2>2, OkxGarbled
<1>3. CASE e = "ok" /\ r \in Says("okx", "ok")
  BY <1>0, <1>3, OkxAccepts, OkxConcludes
<1>4. CASE e \in VenueCodes /\ r \in Says("okx", e)
  BY <1>0, <1>4, OkxRefuses, OkxConcludes
<1> QED
  BY <1>1, <1>2, <1>3, <1>4 DEF Replies, Skewed, VenueAnswers

\* So is a reply of Binance.
LEMMA BinanceTold ==
    ASSUME NEW e \in VenueAnswers, NEW r \in Replies("binance", e), NEW b \in BOOLEAN
    PROVE  /\ call_signed(binance_order_ack(r), b) \in VenueCodes \cup {"ok", "transport", "protocol"}
           /\ call_signed(binance_order_ack(r), b) \in VenueCodes => e # "ok"
           /\ call_signed(binance_order_ack(r), b) = "ok" => e = "ok"
<1>0. \/ call_signed(binance_order_ack(r), b) = binance_order_ack(r)
      \/ binance_order_ack(r) = "venue:-1021" /\ call_signed(binance_order_ack(r), b) = "protocol"
  BY DEF call_signed
<1>1. CASE r \in Trouble("binance")
  BY <1>0, <1>1, BinanceTrouble DEF VenueCodes
<1>2. CASE r \in Garbled("binance")
  BY <1>0, <1>2, BinanceGarbled DEF VenueCodes
<1>3. CASE e = "none" /\ r \in Skewed("binance")
  BY <1>0, <1>3, BinanceSkewed DEF VenueCodes
<1>4. CASE e = "ok" /\ r \in Says("binance", "ok")
  BY <1>0, <1>4, BinanceAccepts DEF VenueCodes
<1>5. CASE e \in VenueCodes /\ r \in Says("binance", e)
  <2>1. e # "ok" /\ "venue:0" \in VenueCodes /\ "ok" \notin VenueCodes
    BY <1>5 DEF VenueCodes
  <2> QED
    BY <1>0, <1>5, <2>1, BinanceRefuses
<1> QED
  BY <1>1, <1>2, <1>3, <1>4, <1>5 DEF Replies, VenueAnswers

\* An error of the venue is reported only for a request that it has not
\* executed, and a success only for one that it has.
LEMMA ToldTruly ==
    ASSUME NEW k \in Kinds, NEW e \in VenueAnswers, NEW b \in BOOLEAN, NEW r \in Arrivals[k][e][b]
    PROVE  /\ r.code \in VenueCodes \cup {"ok", "transport", "protocol"}
           /\ r.item \in VenueCodes \cup {"ok"}
           /\ r.code \in VenueCodes => e # "ok"
           /\ r.code = "ok" => (e = "ok" <=> r.item = "ok")
<1>0. Arrivals[k][e][b] =
        {[code |-> Received(k, p, b), item |-> Placement(k, p)] : p \in Replies(k, e)}
  BY DEF Arrivals, Kinds, VenueAnswers
<1>1. PICK p \in Replies(k, e) : r = [code |-> Received(k, p, b), item |-> Placement(k, p)]
  BY <1>0
<1>2. r.code = Received(k, p, b) /\ r.item = Placement(k, p)
  BY <1>1
<1>3. CASE k = "okx"
  <2>1. r.code = okx_order_ack(p) /\ r.item = ack_to_placement(p) /\ p \in Replies("okx", e)
    BY <1>2, <1>3 DEF Received, Placement
  <2> QED
    BY <2>1, OkxTold
<1>4. CASE k = "binance"
  <2>1. /\ r.code = call_signed(binance_order_ack(p), b) /\ r.item = "ok"
        /\ p \in Replies("binance", e)
    BY <1>2, <1>4 DEF Received, Placement
  <2> QED
    BY <2>1, BinanceTold
<1> QED
  BY <1>3, <1>4 DEF Kinds

\* A lookup finds no absence where there is an order, and no order where there
\* is none.
LEMMA OkxLookupTrue ==
    ASSUME NEW b \in BOOLEAN, NEW r \in LookupReplies("okx", b)
    PROVE  okx_get_order(r) # IF b THEN "Absent" ELSE "Found"
<1>1. CASE r \in Trouble("okx")
  BY <1>1, OkxTrouble, OkxConcludes
<1>2. CASE r \in Garbled("okx") \ {reply(200, "0", "empty", "")}
  <2>1. Heard(r, "protocol", "none", "ok")
    BY <1>2, OkxGarbled
  <2> QED
    BY <2>1, OkxConcludes
<1>3. CASE b /\ r \in Says("okx", "ok")
  BY <1>3, OkxAccepts, OkxConcludes
<1>4. CASE ~b /\ r = reply(200, "0", "empty", "")
  <2>1. Heard(reply(200, "0", "empty", ""), "ok", "empty", "ok")
    BY OkxOk
  <2>2. Heard(r, "ok", "empty", "ok")
    BY <1>4, <2>1
  <2> QED
    <3>1. okx_get_order(r) = "Absent"
      BY <2>2, OkxConcludes
    <3> QED
      BY <1>4, <3>1
<1>5. CASE ~b /\ r \in Says("okx", "venue:51603") \ {reply(200, "0", "item", "venue:51603")}
  <2>0. "venue:51603" \in VenueCodes
    BY DEF VenueCodes
  <2>1. Heard(r, "venue:51603", "empty", "ok") \/ Heard(r, "venue:1", "item", "venue:51603")
    BY <1>5, <2>0, OkxRefuses
  <2> QED
    BY <1>5, <2>1, OkxConcludes
<1> QED
  BY <1>1, <1>2, <1>3, <1>4, <1>5 DEF LookupReplies

LEMMA BinanceLookupTrue ==
    ASSUME NEW b \in BOOLEAN, NEW r \in LookupReplies("binance", b)
    PROVE  binance_get_order(r) # IF b THEN "Absent" ELSE "Found"
<1>1. CASE r \in Trouble("binance")
  BY <1>1, BinanceTrouble DEF binance_get_order
<1>2. CASE r \in Garbled("binance")
  BY <1>2, BinanceGarbled DEF binance_get_order
<1>3. CASE b /\ r \in Says("binance", "ok")
  BY <1>3, BinanceAccepts DEF binance_get_order
<1>4. CASE ~b /\ r \in Says("binance", "venue:-2013")
  <2>1. binance_order_ack(r) = "venue:-2013" \/ binance_order_ack(r) = "venue:0"
    BY <1>4, BinanceRefuses DEF VenueCodes
  <2> QED
    BY <1>4, <2>1 DEF binance_get_order
<1> QED
  BY <1>1, <1>2, <1>3, <1>4 DEF LookupReplies

LEMMA LookupTrue ==
    ASSUME NEW k \in Kinds
    PROVE  "Absent" \notin Findings[k][TRUE] /\ "Found" \notin Findings[k][FALSE]
<1>0. \A b \in BOOLEAN : Findings[k][b] = {Concluded(k, r) : r \in LookupReplies(k, b)}
  BY DEF Findings, Kinds
<1>1. ASSUME NEW b \in BOOLEAN, NEW r \in LookupReplies(k, b)
      PROVE  Concluded(k, r) # IF b THEN "Absent" ELSE "Found"
  <2>1. CASE k = "okx"
    BY <1>1, <2>1, OkxLookupTrue DEF Concluded
  <2>2. CASE k = "binance"
    BY <1>1, <2>2, BinanceLookupTrue DEF Concluded
  <2> QED
    BY <2>1, <2>2 DEF Kinds
<1> QED
  BY <1>0, <1>1

-----------------------------------------------------------------------------
(* Orders on the venue *)

\* Changing the newest order leaves the orders typed and the placed ones as
\* they are.
LEMMA ChangeKeepsPlaced ==
    ASSUME NEW o \in Seq(Order), NEW x \in Order, o # <<>>, x.op = o[Len(o)].op
    PROVE  LET p == [o EXCEPT ![Len(o)] = x] IN
           p \in Seq(Order) /\ Len(p) = Len(o) /\ p # <<>> /\ PlacedIn(p) = PlacedIn(o)
<1> DEFINE p == [o EXCEPT ![Len(o)] = x]
<1>1. Len(o) \in 1..Len(o)
  OBVIOUS
<1>2. p \in Seq(Order) /\ Len(p) = Len(o)
  BY <1>1, ExceptSeq
<1>3. \A i \in 1..Len(o) : p[i].op = o[i].op
  BY <1>1
<1>4. PlacedIn(p) = PlacedIn(o)
  BY <1>2, <1>3 DEF PlacedIn
<1> QED
  BY <1>2, <1>4

\* A new order is the only change of the placed ones.
LEMMA AppendPlaced ==
    ASSUME NEW o \in Seq(Order), NEW x \in Order
    PROVE  /\ Append(o, x) \in Seq(Order)
           /\ x.op # "place" => PlacedIn(Append(o, x)) = PlacedIn(o)
           /\ x.op = "place" => PlacedIn(Append(o, x)) = PlacedIn(o) \cup {Len(o) + 1}
<1> DEFINE p == Append(o, x)
<1>1. p \in Seq(Order) /\ Len(p) = Len(o) + 1
  OBVIOUS
<1>2. p[Len(o) + 1] = x /\ \A i \in 1..Len(o) : p[i] = o[i]
  OBVIOUS
<1>3. DOMAIN p = 1..(Len(o) + 1) /\ DOMAIN o = 1..Len(o)
  BY <1>1
<1>4. x.op # "place" => PlacedIn(p) = PlacedIn(o)
  BY <1>2, <1>3 DEF PlacedIn
<1>5. x.op = "place" => PlacedIn(p) = PlacedIn(o) \cup {Len(o) + 1}
  BY <1>2, <1>3 DEF PlacedIn
<1> QED
  BY <1>1, <1>4, <1>5

\* An order that ends is still the order it was.
LEMMA EndKeepsPlaced ==
    ASSUME TypeOK, Live, NEW s \in Statuses
    PROVE  LET p == [orders EXCEPT ![Newest].status = s] IN
           p \in Seq(Order) /\ Len(p) = Newest /\ PlacedIn(p) = Placed
<1>1. orders \in Seq(Order) /\ orders # <<>> /\ orders[Newest] \in Order
  BY DEF TypeOK, Live, Newest
<1>2. [orders[Newest] EXCEPT !.status = s] \in Order
  BY <1>1 DEF Order
<1>3. [orders[Newest] EXCEPT !.status = s].op = orders[Newest].op
  BY <1>1 DEF Order
<1> QED
  BY <1>1, <1>2, <1>3, ChangeKeepsPlaced DEF Placed, Newest

\* An order that is amended in place is still the order it was.
LEMMA AmendKeepsPlaced ==
    ASSUME TypeOK, Live, NEW v \in Values
    PROVE  LET p == [orders EXCEPT ![Newest].value = v] IN
           p \in Seq(Order) /\ PlacedIn(p) = Placed
<1>1. orders \in Seq(Order) /\ orders # <<>> /\ orders[Newest] \in Order
  BY DEF TypeOK, Live, Newest
<1>2. [orders[Newest] EXCEPT !.value = v] \in Order
  BY <1>1 DEF Order
<1>3. [orders[Newest] EXCEPT !.value = v].op = orders[Newest].op
  BY <1>1 DEF Order
<1> QED
  BY <1>1, <1>2, <1>3, ChangeKeepsPlaced DEF Placed, Newest

\* A request adds a placed order only if it is a place that is accepted, and
\* the venue always answers.
LEMMA ExecuteEffect ==
    ASSUME TypeOK, NEW op \in Ops, NEW v \in Values, NEW a \in Answers, Execute(op, v, a)
    PROVE  /\ orders' \in Seq(Order)
           /\ IF op = "place" /\ a.code = "ok" THEN Placed' = Placed \cup {Newest + 1}
                                               ELSE Placed' = Placed
           /\ a.code \notin {"none", "transport"}
<1>0. orders \in Seq(Order) /\ \A o \in {"place", "amend"} : NewOrder(o, v) \in Order
  BY DEF TypeOK, NewOrder, Order, Statuses
<1>1. CASE op = "place" /\ ExecutePlace(v, a)
  <2>1. CASE orders' = Append(orders, NewOrder("place", v)) /\ a = Ack(Newest + 1)
    BY <1>0, <1>1, <2>1, AppendPlaced DEF NewOrder, Ack, Placed, Newest
  <2>2. CASE orders' = orders /\ \E e \in VenueCodes : a = Failure(e)
    BY <1>0, <1>1, <2>2 DEF Placed, VenueCodes, Failure
  <2> QED
    BY <1>1, <2>1, <2>2 DEF ExecutePlace, Refusal, Duplicate, VenueCodes
<1>2. CASE op = "cancel" /\ ExecuteCancel(a)
  <2>1. CASE Live /\ orders' = [orders EXCEPT ![Newest].status = "Canceled"] /\ a = Ack(Newest)
    BY <1>2, <2>1, EndKeepsPlaced DEF Statuses, Placed, Ack
  <2>2. CASE orders' = orders /\ a = Failure(AlreadyDone)
    BY <1>0, <1>2, <2>2 DEF Placed, AlreadyDone, Failure
  <2> QED
    BY <1>2, <2>1, <2>2 DEF ExecuteCancel
<1>3. CASE op = "amend" /\ ExecuteAmend(v, a)
  <2>1. CASE Live /\ orders' = [orders EXCEPT ![Newest].value = v] /\ a = Ack(Newest)
    BY <1>3, <2>1, AmendKeepsPlaced DEF Placed, Ack
  <2>2. CASE Live /\ \E rest : /\ rest = [orders EXCEPT ![Newest].status = "Canceled"]
                               /\ orders' = Append(rest, NewOrder("amend", v))
                               /\ a = Ack(Newest + 1)
    <3>1. PICK rest : /\ rest = [orders EXCEPT ![Newest].status = "Canceled"]
                      /\ orders' = Append(rest, NewOrder("amend", v))
                      /\ a = Ack(Newest + 1)
      BY <2>2
    <3>2. rest \in Seq(Order) /\ PlacedIn(rest) = Placed
      BY <2>2, <3>1, EndKeepsPlaced DEF Statuses
    <3>3. orders' \in Seq(Order) /\ PlacedIn(orders') = PlacedIn(rest)
      BY <1>0, <3>1, <3>2, AppendPlaced DEF NewOrder
    <3> QED
      BY <1>3, <3>1, <3>2, <3>3 DEF Placed, Ack
  <2>3. CASE Live /\ orders' = [orders EXCEPT ![Newest].status = "Canceled"]
                  /\ a = Failure("venue:other")
    BY <1>3, <2>3, EndKeepsPlaced DEF Statuses, Placed, Failure
  <2>4. CASE orders' = orders /\ a \in {Failure("venue:other"), Failure(AlreadyDone)}
    BY <1>0, <1>3, <2>4 DEF Placed, AlreadyDone, Failure
  <2> QED
    BY <1>3, <2>1, <2>2, <2>3, <2>4 DEF ExecuteAmend
<1> QED
  BY <1>1, <1>2, <1>3 DEF Execute

-----------------------------------------------------------------------------
(* The invariant *)

\* The records the actions write are calls.
LEMMA CallTyped ==
    /\ IdleCall \in Call /\ \A o \in {"Absent", "Inconclusive"} : Blank(o) \in Lookup
    /\ NoOutcome \in Outcome /\ \A e \in Codes : Failure(e) \in Outcome
    /\ \A i \in Nat : Ack(i) \in Outcome
  BY ValuesAssumption DEF IdleCall, Call, Blank, Lookup, Statuses, Ops, NoOutcome, Outcome,
     Codes, Failure, Ack

\* A verdict is a typed outcome.  A place is sent again only on absence and
\* refused only on the word of the venue.
LEMMA VerdictOfCall ==
    ASSUME kind \in Venues, NEW k \in Call
    PROVE  /\ Verdict(k).result \in Outcome
           /\ k.op = "place" /\ Verdict(k).resend => Absent(k.found)
           /\ k.op = "place" /\ Verdict(k).result.code \in VenueCodes
                => k.answer.code # "transport"
<1>1. kind \in {"binance", "okx"} /\ k.op \in {"place", "cancel", "amend"}
  BY VenuesAssumption DEF Call, Ops
<1>2. k.answer.code \in Codes /\ k.found.order \in Nat
  BY DEF Call, Outcome, Lookup
<1>3. /\ \A e \in Codes : Final(Failure(e)).result \in Outcome
      /\ \A i \in Nat : Final(Ack(i)).result \in Outcome
      /\ Resend.result \in Outcome /\ Unresolved.result \in Outcome
  BY CallTyped DEF Final, Resend, Unresolved, Codes
<1> DEFINE e == k.answer.code
<1>4. ASSUME NEW d \in BOOLEAN, d => e # "transport"
      PROVE  LET w == PlaceVerdict(e, d, k.found) IN
             /\ w.result \in Outcome
             /\ w.resend => Absent(k.found)
             /\ w.result.code \in VenueCodes => e # "transport"
  <2>1. CASE Found(k.found)
    BY <1>2, <1>3, <2>1 DEF Found, Absent, PlaceVerdict, Final, Ack, VenueCodes
  <2>2. CASE ~Found(k.found) /\ d
    BY <1>2, <1>3, <1>4, <2>2 DEF PlaceVerdict, Final, Failure
  <2>3. CASE ~Found(k.found) /\ Absent(k.found) /\ ~d
    BY <1>3, <2>3 DEF PlaceVerdict, Resend, Failure, VenueCodes
  <2>4. CASE ~Found(k.found) /\ ~Absent(k.found) /\ ~d
    BY <1>3, <2>4 DEF PlaceVerdict, Unresolved, Final, Failure, VenueCodes
  <2> QED
    BY <2>1, <2>2, <2>3, <2>4
<1>5. CASE k.op = "place"
  <2>1. /\ is_duplicate_reject(e) \in BOOLEAN /\ (is_duplicate_reject(e) => e # "transport")
        /\ (e = "venue:51000") \in BOOLEAN /\ (e = "venue:51000" => e # "transport")
    BY DEF is_duplicate_reject
  <2>2. CASE kind = "binance"
    BY <1>4, <1>5, <2>1, <2>2 DEF Verdict, binance_resilient_place
  <2>3. CASE kind = "okx"
    BY <1>4, <1>5, <2>1, <2>3 DEF Verdict, resilient_place
  <2> QED
    BY <1>1, <2>2, <2>3
<1>6. CASE k.op = "cancel"
  <2>1. binance_resilient_cancel(e, k.found).result \in Outcome
    BY <1>2, <1>3 DEF binance_resilient_cancel, Codes, VenueCodes
  <2>2. resilient_cancel(e, k.found).result \in Outcome
    BY <1>2, <1>3 DEF resilient_cancel, Codes, VenueCodes
  <2> QED
    BY <1>1, <1>6, <2>1, <2>2 DEF Verdict
<1>7. CASE k.op = "amend"
  <2>1. binance_resilient_amend(k.value, k.found).result \in Outcome
    BY <1>2, <1>3 DEF binance_resilient_amend, Codes, VenueCodes
  <2>2. resilient_amend(k.value, k.verbatim, k.found).result \in Outcome
    BY <1>2, <1>3 DEF resilient_amend, Codes, VenueCodes
  <2> QED
    BY <1>1, <1>7, <2>1, <2>2 DEF Verdict
<1> QED
  BY <1>1, <1>5, <1>6, <1>7

\* Every step of a call keeps the orders and changes the call alone.
LEMMA CallStepShape ==
    ASSUME TypeOK, WaitsForVenue, NEW c \in Calls, CallStep(c)
    PROVE  /\ orders' = orders /\ kind' = kind /\ late' = late
           /\ \E k \in Call : /\ call' = [call EXCEPT ![c] = k]
                              /\ k.op = call[c].op /\ k.pc # "idle" /\ call[c].pc # "idle"
                              /\ k.pc = "wait" => k.answer.code \in VenueAnswers
                              /\ k.op = "place" /\ KnowsAbsent(k)
                                   => KnowsAbsent(call[c]) \/ orders = <<>>
                              /\ k.pc = "done" /\ k.op = "place" /\ k.result.code \in VenueCodes
                                   => KnowsAbsent(call[c])
<1> DEFINE m == call[c]
<1>0. m \in Call
  BY DEF TypeOK
<1>k. kind \in Kinds
  BY VenuesAssumption DEF TypeOK, Kinds
<1>w. ASSUME m.pc = "wait"
      PROVE  /\ m.resigned \in BOOLEAN /\ m.answer.code \in VenueAnswers
             /\ m.op = "place" /\ m.answer.code # "ok" => KnowsAbsent(m)
             /\ \A r \in Arriving(c) :
                   /\ r.code \in VenueCodes \cup {"ok", "transport", "protocol"}
                   /\ r.item \in VenueCodes \cup {"ok"}
                   /\ r.code \in VenueCodes => m.answer.code # "ok"
                   /\ r.code = "ok" => (m.answer.code = "ok" <=> r.item = "ok")
  <2>1. m.resigned \in BOOLEAN /\ m.answer.code \in VenueAnswers
    BY <1>0, <1>w DEF Call, WaitsForVenue
  <2>2. \A r \in Arriving(c) :
                   /\ r.code \in VenueCodes \cup {"ok", "transport", "protocol"}
                   /\ r.item \in VenueCodes \cup {"ok"}
                   /\ r.code \in VenueCodes => m.answer.code # "ok"
                   /\ r.code = "ok" => (m.answer.code = "ok" <=> r.item = "ok")
    BY <1>k, <2>1, ToldTruly DEF Arriving
  <2> QED
    BY <1>w, <2>1, <2>2 DEF KnowsAbsent
<1>1. CASE Send(c)
  <2> DEFINE k == [m EXCEPT !.pc = "wait", !.tries = @ + 1, !.answer = NoOutcome,
                            !.resigned = FALSE]
  <2>0. m.tries + 1 \in Nat /\ NoOutcome \in Outcome
    BY <1>0, CallTyped DEF Call
  <2>1. k \in Call /\ k.op = m.op /\ k.pc = "wait" /\ k.answer.code \in VenueAnswers
    BY <1>0, <2>0 DEF Call, NoOutcome, VenueAnswers
  <2>2. call' = [call EXCEPT ![c] = k]
    BY <1>1, <1>0 DEF Send, Call
  <2>3. KnowsAbsent(m) /\ m.pc # "idle"
    BY <1>1 DEF Send, KnowsAbsent
  <2> QED
    BY <1>1, <2>1, <2>2, <2>3 DEF Send
<1>r. ASSUME NEW o \in Outcome, call' = Return(c, o)
      PROVE  \E k \in Call : /\ call' = [call EXCEPT ![c] = k]
                             /\ k.op = m.op /\ k.pc = "done" /\ ~KnowsAbsent(k)
                             /\ k.op = "place" => k.result = o
  <2> DEFINE k == [IdleCall EXCEPT !.op = m.op, !.pc = "done", !.result = Kept(m.op, o)]
  <2>1. Kept(m.op, o) \in Outcome /\ (m.op = "place" => Kept(m.op, o) = o)
    BY CallTyped DEF Kept, Codes
  <2>2. k \in Call /\ k.op = m.op /\ k.pc = "done" /\ k.result = Kept(m.op, o)
    BY <1>0, <2>1, CallTyped DEF Call
  <2>3. call' = [call EXCEPT ![c] = k]
    BY <1>r DEF Return
  <2> QED
    BY <2>1, <2>2, <2>3 DEF KnowsAbsent
<1>2. CASE Acknowledged(c)
  <2>1. PICK r \in Arriving(c) :
           /\ r.code = "ok"
           /\ call' = Return(c, IF r.item = "ok" THEN m.answer ELSE Failure(r.item))
    BY <1>2 DEF Acknowledged
  <2> DEFINE o == IF r.item = "ok" THEN m.answer ELSE Failure(r.item)
  <2>2. m.pc = "wait"
    BY <1>2 DEF Acknowledged
  <2>3. o \in Outcome /\ (m.op = "place" /\ o.code \in VenueCodes => KnowsAbsent(m))
    <3>1. CASE r.item = "ok"
      BY <1>0, <1>w, <2>1, <2>2, <3>1 DEF Call, VenueCodes
    <3>2. CASE r.item # "ok"
      BY <1>w, <2>1, <2>2, <3>2, CallTyped DEF Codes, Failure
    <3> QED
      BY <3>1, <3>2
  <2>4. call' = Return(c, o) /\ kind' = kind /\ orders' = orders /\ late' = late
    BY <1>2, <2>1 DEF Acknowledged
  <2> HIDE DEF o
  <2>5. PICK k \in Call : /\ call' = [call EXCEPT ![c] = k]
                          /\ k.op = m.op /\ k.pc = "done" /\ ~KnowsAbsent(k)
                          /\ k.op = "place" => k.result = o
    BY <1>r, <2>3, <2>4
  <2> QED
    BY <2>2, <2>3, <2>4, <2>5
<1>3. CASE Refused(c)
  <2>1. PICK r \in Arriving(c) : r.code # "ok" /\ call' = Return(c, Failure(r.code))
    BY <1>3 DEF Refused
  <2>2. m.pc = "wait"
    BY <1>3 DEF Refused
  <2>3. /\ Failure(r.code) \in Outcome
        /\ m.op = "place" /\ Failure(r.code).code \in VenueCodes => KnowsAbsent(m)
    BY <1>w, <2>1, <2>2, CallTyped DEF Codes, Failure
  <2> QED
    BY <1>3, <1>r, <2>1, <2>2, <2>3 DEF Refused
<1>9. CASE Unclear(c)
  <2>1. PICK r \in Arriving(c) :
           NeedsLookup(m.op, r.code) /\ call' = Resolve(c, Failure(r.code))
    BY <1>9 DEF Unclear
  <2>2. m.pc = "wait"
    BY <1>9 DEF Unclear
  <2> DEFINE k == [m EXCEPT !.pc = "lookup", !.looks = 1, !.answer = Failure(r.code)]
  <2>3. Failure(r.code) \in Outcome /\ Failure(r.code).code = r.code
    BY <1>w, <2>2, CallTyped DEF Codes, Failure
  <2>4. k \in Call /\ k.op = m.op /\ k.pc = "lookup" /\ k.answer.code = r.code
    BY <1>0, <2>3 DEF Call
  <2>5. call' = [call EXCEPT ![c] = k]
    BY <1>0, <2>1 DEF Resolve, Call
  <2>6. m.op = "place" /\ KnowsAbsent(k) => KnowsAbsent(m)
    <3>1. m.op = "place" /\ r.code # "transport" => r.code \in VenueCodes
      BY <2>1 DEF NeedsLookup, is_duplicate_reject, VenueCodes
    <3> QED
      BY <1>w, <2>2, <2>4, <3>1 DEF KnowsAbsent
  <2> HIDE DEF k
  <2> QED
    BY <1>9, <2>2, <2>4, <2>5, <2>6 DEF Unclear
<1>10. CASE Resigns(c)
  <2> DEFINE k == [m EXCEPT !.resigned = TRUE]
  <2>1. /\ k \in Call /\ k.op = m.op /\ k.pc = m.pc /\ k.answer = m.answer
        /\ k.found = m.found /\ m.pc = "wait"
    BY <1>0, <1>10 DEF Call, Resigns
  <2>2. call' = [call EXCEPT ![c] = k]
    BY <1>10, <1>0 DEF Resigns, Call
  <2>3. KnowsAbsent(k) => KnowsAbsent(m)
    BY <2>1 DEF KnowsAbsent
  <2>4. k.answer.code \in VenueAnswers
    BY <1>w, <2>1
  <2> HIDE DEF k
  <2> QED
    BY <1>10, <2>1, <2>2, <2>3, <2>4 DEF Resigns
<1>4. CASE LookupAnswered(c)
  <2>0. PICK o \in {"Found", "Absent"} \cap Findings[kind][orders # <<>>] :
           call' = [call EXCEPT ![c].pc = "decide", ![c].looks = 0,
                      ![c].found = IF o = "Absent" THEN Blank("Absent")
                                   ELSE [outcome |-> "Found", order |-> Newest,
                                         status |-> orders[Newest].status,
                                         value |-> orders[Newest].value]]
    BY <1>4 DEF LookupAnswered
  <2> DEFINE f == IF o = "Absent" THEN Blank("Absent")
                  ELSE [outcome |-> "Found", order |-> Newest,
                        status |-> orders[Newest].status, value |-> orders[Newest].value]
             k == [m EXCEPT !.pc = "decide", !.looks = 0, !.found = f]
  <2>a. /\ o = "Absent" => orders = <<>>
        /\ o = "Found" => orders # <<>>
    BY <1>k, <2>0, LookupTrue
  <2>1. f \in Lookup
    <3>1. CASE o = "Absent"
      BY <3>1, CallTyped
    <3>2. CASE o # "Absent"
      <4>1. Newest \in Nat /\ orders[Newest] \in Order
        BY <3>2, <2>0, <2>a DEF TypeOK, Newest
      <4> QED
        BY <3>2, <4>1 DEF Lookup, Order
    <3> QED
      BY <3>1, <3>2
  <2>2. f.outcome = "Absent" => orders = <<>>
    BY <2>0, <2>a
  <2> HIDE DEF f
  <2>3. k \in Call /\ k.op = m.op /\ k.pc = "decide" /\ k.answer = m.answer /\ k.found = f
    BY <1>0, <2>1 DEF Call
  <2>4. call' = [call EXCEPT ![c] = k]
    BY <2>0, <1>0 DEF Call, f
  <2>5. KnowsAbsent(k) => KnowsAbsent(m) \/ orders = <<>>
    BY <1>4, <2>2, <2>3 DEF LookupAnswered, KnowsAbsent
  <2> HIDE DEF k
  <2> QED
    BY <1>4, <2>3, <2>4, <2>5 DEF LookupAnswered
<1>5. CASE LookupRetried(c)
  <2> DEFINE k == [m EXCEPT !.looks = @ + 1]
  <2>1. k \in Call /\ k.op = m.op /\ k.pc = m.pc /\ k.answer = m.answer /\ k.found = m.found
    BY <1>0 DEF Call
  <2>2. call' = [call EXCEPT ![c] = k]
    BY <1>5, <1>0 DEF LookupRetried, Call
  <2>3. KnowsAbsent(k) => KnowsAbsent(m)
    BY <2>1 DEF KnowsAbsent
  <2> QED
    BY <1>5, <2>1, <2>2, <2>3 DEF LookupRetried
<1>6. CASE LookupInconclusive(c)
  <2> DEFINE k == [m EXCEPT !.pc = "decide", !.looks = 0, !.found = Blank("Inconclusive")]
  <2>1. /\ k \in Call /\ k.op = m.op /\ k.pc = "decide" /\ k.answer = m.answer
        /\ k.found.outcome = "Inconclusive"
    BY <1>0, CallTyped DEF Call, Blank
  <2>2. call' = [call EXCEPT ![c] = k]
    BY <1>6, <1>0 DEF LookupInconclusive, Call
  <2>3. KnowsAbsent(k) => KnowsAbsent(m)
    BY <1>6, <2>1 DEF LookupInconclusive, KnowsAbsent
  <2> QED
    BY <1>6, <2>1, <2>2, <2>3 DEF LookupInconclusive
<1>7. CASE Retry(c)
  <2> DEFINE k == [m EXCEPT !.pc = "send", !.found = Blank("Inconclusive")]
  <2>1. k \in Call /\ k.op = m.op /\ k.pc = "send"
    BY <1>0, CallTyped DEF Call
  <2>2. call' = [call EXCEPT ![c] = k]
    BY <1>7, <1>0 DEF Retry, Call
  <2>3. m.op = "place" => KnowsAbsent(m)
    BY <1>0, <1>7, VerdictOfCall DEF TypeOK, Retry, KnowsAbsent, Absent
  <2> QED
    BY <1>7, <2>1, <2>2, <2>3 DEF Retry
<1>8. CASE Decide(c)
  <2>1. Verdict(m).result \in Outcome /\ call' = Return(c, Verdict(m).result)
    BY <1>0, <1>8, VerdictOfCall DEF TypeOK, Decide
  <2>2. m.op = "place" /\ Verdict(m).result.code \in VenueCodes => KnowsAbsent(m)
    BY <1>0, <1>8, VerdictOfCall DEF TypeOK, Decide, KnowsAbsent
  <2> QED
    BY <1>8, <1>r, <2>1, <2>2 DEF Decide
<1> QED
  BY <1>1, <1>2, <1>3, <1>4, <1>5, <1>6, <1>7, <1>8, <1>9, <1>10 DEF CallStep

\* A step of a call keeps the invariant.
LEMMA CallStepKeeps ==
    ASSUME Inv, NEW c \in Calls, CallStep(c)
    PROVE  Inv'
<1>1. PICK k \in Call : /\ call' = [call EXCEPT ![c] = k]
                        /\ k.op = call[c].op /\ k.pc # "idle" /\ call[c].pc # "idle"
                        /\ k.pc = "wait" => k.answer.code \in VenueAnswers
                        /\ k.op = "place" /\ KnowsAbsent(k)
                             => KnowsAbsent(call[c]) \/ orders = <<>>
  BY CallStepShape DEF Inv
<1>2. orders' = orders /\ kind' = kind /\ late' = late
  BY CallStepShape DEF Inv
<1>3. call \in [Calls -> Call]
  BY DEF Inv, TypeOK
<1>4. TypeOK'
  BY <1>1, <1>2 DEF Inv, TypeOK
<1>w. WaitsForVenue'
  BY <1>1, <1>3 DEF Inv, WaitsForVenue
<1>5. OnePlace'
  BY <1>1, <1>3 DEF Inv, OnePlace, IsPlace, Idle
<1>6. NothingUnasked'
  BY <1>1, <1>2, <1>3 DEF Inv, NothingUnasked, Idle
<1>7. Placed' = Placed /\ (orders = <<>> => Placed = {})
  BY <1>2 DEF Placed, PlacedIn
<1>8. KnowledgeTrue'
  <2> SUFFICES ASSUME NEW d \in Calls, call'[d].op = "place", KnowsAbsent(call'[d])
               PROVE  Placed = {}
    BY <1>7 DEF KnowledgeTrue
  <2>1. CASE d = c
    BY <1>1, <1>3, <1>7, <2>1 DEF Inv, KnowledgeTrue
  <2>2. CASE d # c
    BY <1>1, <1>3, <2>2 DEF Inv, KnowledgeTrue
  <2> QED
    BY <2>1, <2>2
<1>9. PlacedOnce'
  BY <1>7 DEF Inv, PlacedOnce
<1> QED
  BY <1>4, <1>w, <1>5, <1>6, <1>8, <1>9 DEF Inv

\* The begin of a call keeps the invariant.
LEMMA BeginKeeps ==
    ASSUME Inv, NEW c \in Calls, NEW op \in Ops, NEW v \in Values, NEW b \in BOOLEAN,
           Begin(c, op, v, b)
    PROVE  Inv'
<1> DEFINE k == [call[c] EXCEPT !.op = op, !.pc = "send", !.value = v, !.verbatim = b]
<1>1. call \in [Calls -> Call] /\ call[c] \in Call
  BY DEF Inv, TypeOK
<1>2. k \in Call /\ k.op = op /\ k.pc = "send"
  BY <1>1 DEF Call
<1>3. call' = [call EXCEPT ![c] = k] /\ orders' = orders /\ kind' = kind /\ late' = late
  BY <1>1 DEF Begin, Call
<1> HIDE DEF k
<1>4. op = "place" => orders = <<>> /\ \A d \in Calls : Idle(d)
  BY DEF Begin, MayBegin, Inv, NothingUnasked, Idle
<1>5. TypeOK'
  BY <1>2, <1>3 DEF Inv, TypeOK
<1>w. WaitsForVenue'
  BY <1>1, <1>2, <1>3 DEF Inv, WaitsForVenue
<1>6. OnePlace'
  BY <1>1, <1>2, <1>3, <1>4 DEF Inv, OnePlace, IsPlace, Idle
<1>7. NothingUnasked'
  BY <1>1, <1>2, <1>3 DEF NothingUnasked, Idle
<1>8. Placed' = Placed /\ (orders = <<>> => Placed = {})
  BY <1>3 DEF Placed, PlacedIn
<1>9. KnowledgeTrue'
  <2> SUFFICES ASSUME NEW d \in Calls, call'[d].op = "place", KnowsAbsent(call'[d])
               PROVE  Placed = {}
    BY <1>8 DEF KnowledgeTrue
  <2>1. CASE d = c
    BY <1>1, <1>2, <1>3, <1>4, <1>8, <2>1
  <2>2. CASE d # c
    BY <1>1, <1>3, <2>2 DEF Inv, KnowledgeTrue
  <2> QED
    BY <2>1, <2>2
<1>10. PlacedOnce'
  BY <1>8 DEF Inv, PlacedOnce
<1> QED
  BY <1>5, <1>w, <1>6, <1>7, <1>9, <1>10 DEF Inv

\* The execution of a request keeps the invariant: a place that is accepted
\* finds no placed order.
LEMMA VenueKeeps ==
    ASSUME Inv, NEW c \in Calls, VenueExecutes(c)
    PROVE  Inv'
<1>1. call \in [Calls -> Call] /\ call[c] \in Call
  BY DEF Inv, TypeOK
<1>2. PICK a \in Answers : /\ Execute(call[c].op, call[c].value, a)
                           /\ call' = [call EXCEPT ![c].answer = a]
  BY DEF VenueExecutes
<1>3. call[c].op \in Ops /\ call[c].value \in Values
  BY <1>1 DEF Call
<1>4. /\ orders' \in Seq(Order)
      /\ IF call[c].op = "place" /\ a.code = "ok" THEN Placed' = Placed \cup {Newest + 1}
                                                  ELSE Placed' = Placed
  BY <1>2, <1>3, ExecuteEffect DEF Inv
<1>5. a \in Outcome /\ a.code \in VenueAnswers
  BY CallTyped DEF Inv, TypeOK, Answers, Codes, Newest, NoOutcome, Failure, Ack, VenueAnswers
<1> DEFINE k == [call[c] EXCEPT !.answer = a]
<1>6. k \in Call /\ k.op = call[c].op /\ k.pc = "wait" /\ call[c].pc = "wait" /\ k.answer = a
  BY <1>1, <1>5 DEF Call, VenueExecutes
<1>7. call' = [call EXCEPT ![c] = k]
  BY <1>1, <1>2 DEF Call
<1> HIDE DEF k
<1>8. KnowsAbsent(call[c])
  BY DEF VenueExecutes, KnowsAbsent, NoOutcome
<1>9. TypeOK'
  BY <1>4, <1>6, <1>7 DEF Inv, TypeOK, VenueExecutes
<1>w. WaitsForVenue'
  BY <1>1, <1>5, <1>6, <1>7 DEF Inv, WaitsForVenue
<1>10. OnePlace'
  BY <1>1, <1>6, <1>7 DEF Inv, OnePlace, IsPlace, Idle
<1>11. NothingUnasked'
  BY <1>1, <1>6, <1>7 DEF NothingUnasked, Idle
<1>12. CASE call[c].op = "place" /\ a.code = "ok"
  <2>1. Placed' = {Newest + 1}
    BY <1>4, <1>8, <1>12 DEF Inv, KnowledgeTrue
  <2>2. ~KnowsAbsent(k)
    BY <1>6, <1>12 DEF KnowsAbsent
  <2>3. \A d \in Calls : d # c /\ call[d].op = "place" => call[d].pc = "idle"
    BY <1>6, <1>12 DEF Inv, OnePlace, IsPlace, Idle
  <2>4. KnowledgeTrue'
    <3> SUFFICES ASSUME NEW d \in Calls, call'[d].op = "place", KnowsAbsent(call'[d])
                 PROVE  FALSE
      BY DEF KnowledgeTrue
    <3>1. d # c /\ call'[d] = call[d]
      BY <1>1, <1>7, <2>2
    <3> QED
      BY <2>3, <3>1 DEF KnowsAbsent
  <2>5. PlacedOnce'
    BY <2>1 DEF PlacedOnce
  <2> QED
    BY <1>9, <1>w, <1>10, <1>11, <2>4, <2>5 DEF Inv
<1>13. CASE ~(call[c].op = "place" /\ a.code = "ok")
  <2>1. Placed' = Placed
    BY <1>4, <1>13
  <2>2. KnowledgeTrue'
    <3> SUFFICES ASSUME NEW d \in Calls, call'[d].op = "place", KnowsAbsent(call'[d])
                 PROVE  Placed = {}
      BY <2>1 DEF KnowledgeTrue
    <3>1. CASE d = c
      BY <1>1, <1>6, <1>7, <1>8, <3>1 DEF Inv, KnowledgeTrue
    <3>2. CASE d # c
      BY <1>1, <1>7, <3>2 DEF Inv, KnowledgeTrue
    <3> QED
      BY <3>1, <3>2
  <2>3. PlacedOnce'
    BY <2>1 DEF Inv, PlacedOnce
  <2> QED
    BY <1>9, <1>w, <1>10, <1>11, <2>2, <2>3 DEF Inv
<1> QED
  BY <1>12, <1>13

\* An order that ends keeps the invariant.
LEMMA EndKeeps ==
    ASSUME Inv, NEW s \in {"Canceled", "Done"}, VenueEnds(s)
    PROVE  Inv'
<1>1. orders' \in Seq(Order) /\ Placed' = Placed
  BY EndKeepsPlaced DEF VenueEnds, Inv, Statuses, Placed
<1>2. call' = call /\ kind' = kind /\ late' = late /\ orders # <<>>
  BY DEF VenueEnds, Live, Newest
<1>3. TypeOK'
  BY <1>1, <1>2 DEF Inv, TypeOK
<1>4. OnePlace' /\ NothingUnasked'
  BY <1>2 DEF Inv, OnePlace, IsPlace, Idle, NothingUnasked
<1>w. WaitsForVenue'
  BY <1>2 DEF Inv, WaitsForVenue
<1>5. KnowledgeTrue' /\ PlacedOnce'
  BY <1>1, <1>2 DEF Inv, KnowledgeTrue, PlacedOnce
<1> QED
  BY <1>3, <1>w, <1>4, <1>5 DEF Inv

\* Inv is an invariant of the adapters.
THEOREM Invariance == Spec => []Inv
<1>1. Init => Inv
  <2> SUFFICES ASSUME Init PROVE Inv
    OBVIOUS
  <2>1. TypeOK
    BY CallTyped DEF Init, TypeOK
  <2>2. \A c \in Calls : call[c].pc = "idle"
    BY DEF Init, IdleCall
  <2>3. Placed = {}
    BY DEF Init, Placed, PlacedIn
  <2> QED
    BY <2>1, <2>2, <2>3 DEF Init, Inv, WaitsForVenue, OnePlace, IsPlace, Idle, NothingUnasked,
       KnowledgeTrue, PlacedOnce
<1>2. Inv /\ [Next]_vars => Inv'
  <2> SUFFICES ASSUME Inv, [Next]_vars PROVE Inv'
    OBVIOUS
  <2>1. CASE UNCHANGED vars
    BY <2>1 DEF vars, Inv, TypeOK, WaitsForVenue, OnePlace, IsPlace, Idle, NothingUnasked, KnowledgeTrue,
       PlacedOnce, Placed
  <2>2. CASE Next
    BY <2>2, BeginKeeps, CallStepKeeps, VenueKeeps, EndKeeps DEF Next
  <2> QED
    BY <2>1, <2>2
<1> QED
  BY <1>1, <1>2, PTL DEF Spec

\* The types of the adapters' state are kept.
THEOREM TypeCorrect == Spec => []TypeOK
  BY Invariance, PTL DEF Inv

\* A client order id is placed on the venue at most once, whatever is lost and
\* however often the place is sent.
THEOREM NoDoublePlace == Spec => []PlacedOnce
  BY Invariance, PTL DEF Inv

\* A place is reported as refused only when there is no such order.
THEOREM RefusalIsTrue == Spec => RefusedIsAbsent
<1> DEFINE Holds == \A c \in Calls :
                       Ended(c, "place", VenueCodes)' /\ call[c].pc # "done" => Placed = {}
<1>1. Inv /\ [Next]_vars => [Holds]_vars
  <2> SUFFICES ASSUME Inv, Next, NEW c \in Calls,
                      Ended(c, "place", VenueCodes)', call[c].pc # "done"
               PROVE  Placed = {}
    BY DEF Holds
  <2>0. call \in [Calls -> Call] /\ \A d \in Calls : call[d] \in Call
    BY DEF Inv, TypeOK
  <2>1. CASE \E d \in Calls : CallStep(d)
    <3>1. PICK d \in Calls : CallStep(d)
      BY <2>1
    <3>2. PICK k \in Call : /\ call' = [call EXCEPT ![d] = k]
                            /\ k.op = call[d].op
                            /\ k.pc = "done" /\ k.op = "place" /\ k.result.code \in VenueCodes
                                 => KnowsAbsent(call[d])
      BY <3>1, CallStepShape DEF Inv
    <3>3. d = c
      BY <2>0, <3>2 DEF Ended
    <3>4. KnowsAbsent(call[c]) /\ call[c].op = "place"
      BY <2>0, <3>2, <3>3 DEF Ended
    <3> QED
      BY <3>4 DEF Inv, KnowledgeTrue
  <2>2. CASE ~\E d \in Calls : CallStep(d)
    <3>1. call'[c].pc # "done"
      <4>1. ASSUME NEW d \in Calls, NEW op \in Ops, NEW v \in Values, NEW b \in BOOLEAN,
                   Begin(d, op, v, b)
            PROVE  call'[c].pc # "done"
        BY <2>0, <4>1 DEF Begin, Call
      <4>2. ASSUME NEW d \in Calls, VenueExecutes(d)
            PROVE  call'[c].pc # "done"
        BY <2>0, <4>2 DEF VenueExecutes, Call
      <4>3. ASSUME NEW s, VenueEnds(s)
            PROVE  call'[c].pc # "done"
        BY <4>3 DEF VenueEnds
      <4> QED
        BY <2>2, <4>1, <4>2, <4>3 DEF Next
    <3> QED
      BY <3>1 DEF Ended
  <2> QED
    BY <2>1, <2>2
<1> QED
  BY <1>1, Invariance, PTL DEF Spec, RefusedIsAbsent, Holds

-----------------------------------------------------------------------------
(* Cancels and amends *)

Running(c) == call[c].pc \notin {"idle", "done"}

\* The registry cancels and amends what has been placed, and amends one at a
\* time.
PlaceOver ==
    (\E c \in Calls : call[c].op # "place" /\ ~Idle(c)) => \A c \in Calls : call[c].op = "place" => ~Running(c)
OneAmend ==
    \A c, d \in Calls :
        call[c].op = "amend" /\ call[d].op = "amend" /\ Running(c) /\ Running(d) => c = d

\* What a cancel knows: it has been executed, has seen the order canceled or
\* has been reported as successful.
KnowsDead(k) ==
    /\ k.op = "cancel"
    /\ \/ k.pc = "wait" /\ k.answer.code = "ok"
       \/ k.pc = "decide" /\ k.found.outcome = "Found" /\ k.found.status = "Canceled"
       \/ k.pc = "done" /\ k.result.code = "ok"

DeathTrue == \A c \in Calls : KnowsDead(call[c]) => ~Live

\* What an amend knows: the order it has been answered with or has found, and
\* its value.
Holds(o, i, v) == i \in 1..Len(o) /\ o[i].value = v
AmendTrue ==
    \A c \in Calls : call[c].op = "amend" =>
        /\ call[c].pc = "wait" /\ call[c].answer.code = "ok" => Holds(orders, call[c].answer.order, call[c].value)
        /\ call[c].pc = "decide" /\ call[c].found.outcome = "Found"
             => Holds(orders, call[c].found.order, call[c].found.value)

Later == PlaceOver /\ OneAmend /\ DeathTrue /\ AmendTrue

\* An order that ends keeps its value.
LEMMA EndKeepsValues ==
    ASSUME TypeOK, Live, NEW s \in Statuses
    PROVE  LET p == [orders EXCEPT ![Newest].status = s] IN
           /\ p \in Seq(Order) /\ Len(p) = Newest /\ p[Newest].status = s
           /\ \A i \in 1..Newest : p[i].value = orders[i].value
<1> DEFINE p == [orders EXCEPT ![Newest].status = s]
           x == [orders[Newest] EXCEPT !.status = s]
<1>1. orders \in Seq(Order) /\ Newest \in 1..Newest /\ orders[Newest] \in Order
  BY DEF TypeOK, Live, Newest
<1>2. x \in Order /\ x.status = s /\ x.value = orders[Newest].value
  BY <1>1 DEF Order
<1>3. p = [orders EXCEPT ![Newest] = x]
  BY <1>1
<1>4. p \in Seq(Order) /\ Len(p) = Newest
  BY EndKeepsPlaced
<1>5. p[Newest] = x /\ \A i \in 1..Newest : i # Newest => p[i] = orders[i]
  BY <1>1, <1>3 DEF Newest
<1> HIDE DEF p, x
<1>6. \A i \in 1..Newest : p[i].value = orders[i].value
  BY <1>2, <1>5
<1> QED
  BY <1>2, <1>4, <1>5, <1>6 DEF p

\* What a request does to the orders that are there: only an amend changes a
\* value, only a place makes a dead id live, and a cancel leaves it dead.
LEMMA ExecuteOrders ==
    ASSUME TypeOK, NEW op \in Ops, NEW v \in Values, NEW a \in Answers, Execute(op, v, a)
    PROVE  /\ \A i, w : op # "amend" /\ Holds(orders, i, w) => Holds(orders', i, w)
           /\ op = "cancel" => ~Live'
           /\ op # "place" /\ ~Live => ~Live'
           /\ op = "amend" /\ a.code = "ok" => Holds(orders', a.order, v)
<1>0. orders \in Seq(Order) /\ Newest \in Nat
  BY DEF TypeOK, Newest
<1>s. ASSUME orders' = orders
      PROVE  Live' = Live /\ \A i, w : Holds(orders, i, w) => Holds(orders', i, w)
  BY <1>s DEF Live, Newest, Holds
<1>1. CASE op = "place" /\ ExecutePlace(v, a)
  <2>1. CASE orders' = Append(orders, NewOrder("place", v))
    <3>1. Newest' = Newest + 1 /\ \A i \in 1..Newest : orders'[i] = orders[i]
      BY <1>0, <2>1 DEF Newest
    <3>2. \A i, w : Holds(orders, i, w) => Holds(orders', i, w)
      BY <1>0, <3>1 DEF Holds, Newest
    <3> QED
      BY <1>1, <3>2
  <2>2. CASE orders' = orders
    BY <1>1, <1>s, <2>2
  <2> QED
    BY <1>1, <2>1, <2>2 DEF ExecutePlace
<1>2. CASE op = "cancel" /\ ExecuteCancel(a)
  <2>1. CASE Live /\ orders' = [orders EXCEPT ![Newest].status = "Canceled"]
    <3>1. /\ Newest' = Newest /\ orders'[Newest].status = "Canceled"
          /\ \A i \in 1..Newest : orders'[i].value = orders[i].value
      BY <2>1, EndKeepsValues DEF Statuses, Newest
    <3>2. ~Live' /\ \A i, w : Holds(orders, i, w) => Holds(orders', i, w)
      BY <3>1 DEF Live, Newest, Holds
    <3> QED
      BY <1>2, <3>2
  <2>2. CASE ~Live /\ orders' = orders
    BY <1>2, <1>s, <2>2
  <2> QED
    BY <1>2, <2>1, <2>2 DEF ExecuteCancel
<1>3. CASE op = "amend" /\ ExecuteAmend(v, a)
  <2>a. ~Live => orders' = orders
    BY <1>3 DEF ExecuteAmend
  <2>b. ~Live => ~Live'
    BY <1>s, <2>a
  <2>c. a.code = "ok" => Holds(orders', a.order, v)
    <3>1. CASE Live /\ orders' = [orders EXCEPT ![Newest].value = v] /\ a = Ack(Newest)
      <4>0. orders # <<>> /\ Newest \in 1..Newest
        BY <1>0, <3>1 DEF Live, Newest
      <4>a. orders' \in Seq(Order)
        BY <3>1, AmendKeepsPlaced
      <4>1. Newest \in 1..Newest /\ orders[Newest] \in Order
        BY <1>0, <4>0 DEF Newest
      <4>2. Newest' = Newest /\ orders'[Newest].value = v
        BY <1>0, <3>1, <4>a, <4>1 DEF Order, Newest
      <4> QED
        BY <3>1, <4>1, <4>2 DEF Holds, Newest, Ack
    <3>2. ASSUME NEW rest, Live, rest = [orders EXCEPT ![Newest].status = "Canceled"],
                 orders' = Append(rest, NewOrder("amend", v)), a = Ack(Newest + 1)
          PROVE  Holds(orders', a.order, v)
      <4>1. rest \in Seq(Order) /\ Len(rest) = Newest
        BY <3>2, EndKeepsValues DEF Statuses
      <4>2. Len(orders') = Newest + 1 /\ orders'[Newest + 1] = NewOrder("amend", v)
        BY <3>2, <4>1
      <4>3. Newest' = Newest + 1 /\ orders'[Newest + 1].value = v
        BY <4>2 DEF Newest, NewOrder
      <4>4. a.order = Newest + 1 /\ Newest + 1 \in 1..(Newest + 1)
        BY <1>0, <3>2 DEF Ack
      <4> QED
        BY <4>3, <4>4 DEF Holds, Newest
    <3>3. CASE a \in {Failure("venue:other"), Failure(AlreadyDone)}
      BY <3>3 DEF Failure, AlreadyDone
    <3> QED
      BY <1>3, <3>1, <3>2, <3>3 DEF ExecuteAmend
  <2> QED
    BY <1>3, <2>b, <2>c
<1> QED
  BY <1>1, <1>2, <1>3 DEF Execute

\* A verdict of success on a cancel is that of an order found canceled, one on
\* an amend that of an order found with the value asked for.
LEMMA VerdictOk ==
    ASSUME kind \in Venues, NEW k \in Call, Verdict(k).result.code = "ok"
    PROVE  /\ k.op = "cancel" => k.found.outcome = "Found" /\ k.found.status = "Canceled"
           /\ k.op = "amend" => /\ k.found.outcome = "Found" /\ k.found.value = k.value
                                /\ Verdict(k).result.order = k.found.order
<1>1. kind \in {"binance", "okx"}
  BY VenuesAssumption
<1> DEFINE e == k.answer.code
           f == k.found
<1>2. /\ \A x : Final(Failure(x)).result.code = x
      /\ \A i : Final(Ack(i)).result.order = i
      /\ Resend.result.code # "ok" /\ Unresolved.result.code # "ok"
  BY DEF Final, Failure, Ack, Resend, Unresolved
<1>3. CASE k.op = "cancel"
  <2>1. binance_resilient_cancel(e, f).result.code = "ok" => Found(f) /\ f.status = "Canceled"
    BY <1>2 DEF binance_resilient_cancel
  <2>2. resilient_cancel(e, f).result.code = "ok" => Found(f) /\ f.status = "Canceled"
    BY <1>2 DEF resilient_cancel
  <2> QED
    BY <1>1, <1>3, <2>1, <2>2 DEF Verdict, Found
<1>4. CASE k.op = "amend"
  <2>1. binance_resilient_amend(k.value, f).result.code = "ok" =>
          /\ Found(f) /\ f.value = k.value
          /\ binance_resilient_amend(k.value, f).result.order = f.order
    BY <1>2 DEF binance_resilient_amend, value_matches
  <2>2. resilient_amend(k.value, k.verbatim, f).result.code = "ok" =>
          /\ Found(f) /\ f.value = k.value
          /\ resilient_amend(k.value, k.verbatim, f).result.order = f.order
    BY <1>2 DEF resilient_amend, matches_request
  <2> QED
    BY <1>1, <1>4, <2>1, <2>2 DEF Verdict, Found
<1> QED
  BY <1>3, <1>4

\* What a call has learned by a step.
Learned(m, k) ==
    /\ KnowsDead(k) => KnowsDead(m) \/ ~Live
    /\ k.op = "amend" =>
         /\ k.pc = "wait" /\ k.answer.code = "ok" =>
              m.pc = "wait" /\ m.answer = k.answer /\ m.value = k.value
         /\ k.pc = "decide" /\ k.found.outcome = "Found" => Holds(orders, k.found.order, k.found.value)
         /\ k.pc = "done" /\ k.result.code = "ok" => Holds(orders, k.result.order, m.value)

\* A call that returns success has been told of it, or has inferred it.
LEMMA ReturnLearns ==
    ASSUME TypeOK, NEW c \in Calls, NEW o \in Outcome, call' = Return(c, o),
           o.code = "ok" /\ call[c].op = "cancel" => KnowsDead(call[c]) \/ ~Live,
           o.code = "ok" /\ call[c].op = "amend" => Holds(orders, o.order, call[c].value)
    PROVE  Learned(call[c], call'[c])
<1> DEFINE m == call[c]
           k == [IdleCall EXCEPT !.op = m.op, !.pc = "done", !.result = Kept(m.op, o)]
<1>1. call \in [Calls -> Call] /\ m \in Call
  BY DEF TypeOK
<1>2. call'[c] = k
  BY <1>1 DEF Return
<1>3. k.op = m.op /\ k.pc = "done" /\ k.result = Kept(m.op, o)
  BY DEF IdleCall
<1> HIDE DEF k
<1>4. m.op # "place" /\ k.result.code = "ok" => o.code = "ok" /\ k.result = o
  BY <1>3 DEF Kept, Failure
<1>5. KnowsDead(k) => KnowsDead(m) \/ ~Live
  BY <1>3, <1>4 DEF KnowsDead
<1> QED
  BY <1>2, <1>3, <1>4, <1>5 DEF Learned

LEMMA CallStepLearns ==
    ASSUME TypeOK, WaitsForVenue, AmendTrue, NEW c \in Calls, CallStep(c)
    PROVE  Running(c) /\ Learned(call[c], call'[c])
<1> DEFINE m == call[c]
<1>0. call \in [Calls -> Call] /\ m \in Call /\ kind \in Kinds
  BY VenuesAssumption DEF TypeOK, Kinds
<1>w. ASSUME m.pc = "wait"
      PROVE  /\ m.resigned \in BOOLEAN /\ m.answer \in Outcome
             /\ \A r \in Arriving(c) :
                   /\ r.code \in VenueCodes \cup {"ok", "transport", "protocol"}
                   /\ r.item \in VenueCodes \cup {"ok"}
                   /\ r.code = "ok" => (m.answer.code = "ok" <=> r.item = "ok")
  <2>1. m.resigned \in BOOLEAN /\ m.answer \in Outcome /\ m.answer.code \in VenueAnswers
    BY <1>0, <1>w DEF Call, WaitsForVenue
  <2> QED
    BY <1>0, <2>1, ToldTruly DEF Arriving
<1>1. CASE Send(c)
  <2> DEFINE k == [m EXCEPT !.pc = "wait", !.tries = @ + 1, !.answer = NoOutcome,
                            !.resigned = FALSE]
  <2>1. call'[c] = k
    BY <1>0, <1>1 DEF Send, Call
  <2>2. k.pc = "wait" /\ k.answer.code = "none"
    BY <1>0 DEF Call, NoOutcome
  <2> HIDE DEF k
  <2> QED
    BY <1>1, <2>1, <2>2 DEF Send, Running, Learned, KnowsDead
<1>2. CASE Acknowledged(c)
  <2>1. PICK r \in Arriving(c) :
           /\ r.code = "ok"
           /\ call' = Return(c, IF r.item = "ok" THEN m.answer ELSE Failure(r.item))
    BY <1>2 DEF Acknowledged
  <2> DEFINE o == IF r.item = "ok" THEN m.answer ELSE Failure(r.item)
  <2>2. m.pc = "wait"
    BY <1>2 DEF Acknowledged
  <2>3. o \in Outcome /\ (o.code = "ok" => o = m.answer)
    <3>1. CASE r.item = "ok"
      BY <1>w, <2>2, <3>1
    <3>2. CASE r.item # "ok"
      BY <1>w, <2>2, <3>2, CallTyped DEF Codes, Failure, VenueCodes
    <3> QED
      BY <3>1, <3>2
  <2>4. call' = Return(c, o)
    BY <2>1
  <2> HIDE DEF o
  <2>5. o.code = "ok" /\ m.op = "cancel" => KnowsDead(m)
    BY <2>2, <2>3 DEF KnowsDead
  <2>6. o.code = "ok" /\ m.op = "amend" => Holds(orders, o.order, m.value)
    BY <2>2, <2>3 DEF AmendTrue
  <2> QED
    BY <2>2, <2>3, <2>4, <2>5, <2>6, ReturnLearns DEF Running
<1>3. CASE Refused(c)
  <2>1. PICK r \in Arriving(c) : r.code # "ok" /\ call' = Return(c, Failure(r.code))
    BY <1>3 DEF Refused
  <2>2. m.pc = "wait"
    BY <1>3 DEF Refused
  <2>3. Failure(r.code) \in Outcome /\ Failure(r.code).code # "ok"
    BY <1>w, <2>1, <2>2, CallTyped DEF Codes, Failure
  <2> QED
    BY <2>1, <2>2, <2>3, ReturnLearns DEF Running
<1>4. CASE Unclear(c)
  <2>1. m.pc = "wait" /\ call'[c].pc = "lookup"
    BY <1>0, <1>4 DEF Unclear, Resolve, Call
  <2> QED
    BY <2>1 DEF Running, Learned, KnowsDead
<1>5. CASE Resigns(c)
  <2> DEFINE k == [m EXCEPT !.resigned = TRUE]
  <2>1. call'[c] = k /\ m.pc = "wait"
    BY <1>0, <1>5 DEF Resigns, Call
  <2>2. k.pc = m.pc /\ k.op = m.op /\ k.answer = m.answer /\ k.value = m.value
    BY <1>0 DEF Call
  <2> HIDE DEF k
  <2> QED
    BY <2>1, <2>2 DEF Running, Learned, KnowsDead
<1>6. CASE LookupAnswered(c)
  <2>0. PICK o \in {"Found", "Absent"} \cap Findings[kind][orders # <<>>] :
           call' = [call EXCEPT ![c].pc = "decide", ![c].looks = 0,
                      ![c].found = IF o = "Absent" THEN Blank("Absent")
                                   ELSE [outcome |-> "Found", order |-> Newest,
                                         status |-> orders[Newest].status,
                                         value |-> orders[Newest].value]]
    BY <1>6 DEF LookupAnswered
  <2> DEFINE f == IF o = "Absent" THEN Blank("Absent")
                  ELSE [outcome |-> "Found", order |-> Newest,
                        status |-> orders[Newest].status, value |-> orders[Newest].value]
             k == [m EXCEPT !.pc = "decide", !.looks = 0, !.found = f]
  <2>1. call'[c] = k
    BY <1>0, <2>0 DEF Call
  <2>2. k.pc = "decide" /\ k.op = m.op /\ k.found = f
    BY <1>0 DEF Call
  <2>3. o = "Found" => orders # <<>>
    BY <1>0, <2>0, LookupTrue
  <2>4. f.outcome = "Found" =>
          orders # <<>> /\ f.order = Newest /\ f.status = orders[Newest].status
                        /\ f.value = orders[Newest].value
    BY <2>0, <2>3 DEF Blank
  <2> HIDE DEF f, k
  <2>5. f.outcome = "Found" => Holds(orders, f.order, f.value)
    BY <2>4 DEF Holds, Newest, TypeOK
  <2>6. f.outcome = "Found" /\ f.status = "Canceled" => ~Live
    BY <2>4 DEF Live
  <2>7. m.pc = "lookup"
    BY <1>6 DEF LookupAnswered
  <2> QED
    BY <2>1, <2>2, <2>5, <2>6, <2>7 DEF Running, Learned, KnowsDead
<1>7. CASE LookupRetried(c)
  <2>1. m.pc = "lookup" /\ call'[c].pc = "lookup"
    BY <1>0, <1>7 DEF LookupRetried, Call
  <2> QED
    BY <2>1 DEF Running, Learned, KnowsDead
<1>8. CASE LookupInconclusive(c)
  <2> DEFINE k == [m EXCEPT !.pc = "decide", !.looks = 0, !.found = Blank("Inconclusive")]
  <2>1. call'[c] = k
    BY <1>0, <1>8 DEF LookupInconclusive, Call
  <2>2. m.pc = "lookup" /\ k.pc = "decide" /\ k.found.outcome = "Inconclusive"
    BY <1>0, <1>8 DEF LookupInconclusive, Call, Blank
  <2> HIDE DEF k
  <2> QED
    BY <2>1, <2>2 DEF Running, Learned, KnowsDead
<1>9. CASE Retry(c)
  <2>1. m.pc = "decide" /\ call'[c].pc = "send"
    BY <1>0, <1>9 DEF Retry, Call
  <2> QED
    BY <2>1 DEF Running, Learned, KnowsDead
<1>10. CASE Decide(c)
  <2> DEFINE o == Verdict(m).result
  <2>1. m.pc = "decide" /\ o \in Outcome /\ call' = Return(c, o)
    BY <1>0, <1>10, VerdictOfCall DEF TypeOK, Decide
  <2>2. o.code = "ok" /\ m.op = "cancel" => KnowsDead(m)
    BY <1>0, <2>1, VerdictOk DEF TypeOK, KnowsDead
  <2>3. o.code = "ok" /\ m.op = "amend" => Holds(orders, o.order, m.value)
    BY <1>0, <2>1, VerdictOk DEF TypeOK, AmendTrue
  <2> HIDE DEF o
  <2> QED
    BY <2>1, <2>2, <2>3, ReturnLearns DEF Running
<1> QED
  BY <1>1, <1>2, <1>3, <1>4, <1>5, <1>6, <1>7, <1>8, <1>9, <1>10 DEF CallStep

LEMMA CallStepKeepsLater ==
    ASSUME Inv, Later, NEW c \in Calls, CallStep(c)
    PROVE  Later'
<1>0. TypeOK /\ WaitsForVenue /\ AmendTrue /\ call \in [Calls -> Call]
  BY DEF Inv, Later, TypeOK
<1>1. PICK k \in Call : call' = [call EXCEPT ![c] = k] /\ k.op = call[c].op /\ k.pc # "idle"
  BY <1>0, CallStepShape
<1>2. orders' = orders
  BY <1>0, CallStepShape
<1>3. Running(c) /\ Learned(call[c], call'[c])
  BY <1>0, CallStepLearns
<1>4. call'[c] = k /\ \A d \in Calls : d # c => call'[d] = call[d]
  BY <1>0, <1>1
<1>5. PlaceOver'
  BY <1>1, <1>3, <1>4 DEF Later, PlaceOver, Running, Idle
<1>6. OneAmend'
  BY <1>1, <1>3, <1>4 DEF Later, OneAmend, Running
<1>7. DeathTrue'
  <2> SUFFICES ASSUME NEW d \in Calls, KnowsDead(call'[d])
               PROVE  ~Live
    BY <1>2 DEF DeathTrue, Live, Newest
  <2> QED
    BY <1>3, <1>4 DEF Later, DeathTrue, Learned
<1>8. \A i, v : Holds(orders', i, v) = Holds(orders, i, v)
  BY <1>2 DEF Holds, Newest
<1>9. AmendTrue'
  <2> SUFFICES ASSUME NEW d \in Calls, call'[d].op = "amend"
               PROVE  /\ call'[d].pc = "wait" /\ call'[d].answer.code = "ok"
                           => Holds(orders, call'[d].answer.order, call'[d].value)
                      /\ call'[d].pc = "decide" /\ call'[d].found.outcome = "Found"
                           => Holds(orders, call'[d].found.order, call'[d].found.value)
    BY <1>8 DEF AmendTrue
  <2>1. CASE d = c
    BY <1>0, <1>1, <1>3, <1>4, <2>1 DEF AmendTrue, Learned
  <2>2. CASE d # c
    BY <1>0, <1>4, <2>2 DEF AmendTrue
  <2> QED
    BY <2>1, <2>2
<1> QED
  BY <1>5, <1>6, <1>7, <1>9 DEF Later

LEMMA BeginKeepsLater ==
    ASSUME Inv, Later, NEW c \in Calls, NEW op \in Ops, NEW v \in Values, NEW b \in BOOLEAN,
           Begin(c, op, v, b)
    PROVE  Later'
<1> DEFINE k == [call[c] EXCEPT !.op = op, !.pc = "send", !.value = v, !.verbatim = b]
<1>1. call \in [Calls -> Call] /\ call[c] \in Call
  BY DEF Inv, TypeOK
<1>2. k.op = op /\ k.pc = "send"
  BY <1>1 DEF Call
<1>3. call'[c] = k /\ orders' = orders /\ \A d \in Calls : d # c => call'[d] = call[d]
  BY <1>1 DEF Begin, Call
<1> HIDE DEF k
<1>4. MayBegin(c, op) /\ Idle(c)
  BY DEF Begin, Idle
<1>5. PlaceOver'
  <2>1. CASE op = "place"
    BY <1>2, <1>3, <1>4, <2>1 DEF MayBegin, PlaceOver, Idle
  <2>2. CASE op # "place"
    <3>1. \A d \in Calls : call[d].op = "place" => ~Running(d)
      BY <1>4, <2>2 DEF MayBegin, Inv, OnePlace, IsPlace, Idle, Running
    <3> QED
      BY <1>2, <1>3, <2>2, <3>1 DEF PlaceOver, Running
  <2> QED
    BY <2>1, <2>2
<1>6. OneAmend'
  <2>1. CASE op = "amend"
    <3>1. \A d \in Calls : call[d].op = "amend" => ~Running(d)
      BY <1>4, <2>1 DEF MayBegin, Running
    <3> QED
      BY <1>3, <3>1 DEF OneAmend, Running
  <2>2. CASE op # "amend"
    BY <1>2, <1>3, <2>2 DEF Later, OneAmend, Running
  <2> QED
    BY <2>1, <2>2
<1>7. Live' = Live /\ \A i, w : Holds(orders', i, w) = Holds(orders, i, w)
  BY <1>3 DEF Holds, Live, Newest
<1>8. DeathTrue'
  BY <1>2, <1>3, <1>7 DEF Later, DeathTrue, KnowsDead
<1>9. AmendTrue'
  BY <1>2, <1>3, <1>7 DEF Later, AmendTrue
<1> QED
  BY <1>5, <1>6, <1>8, <1>9 DEF Later

LEMMA VenueKeepsLater ==
    ASSUME Inv, Later, NEW c \in Calls, VenueExecutes(c)
    PROVE  Later'
<1> DEFINE m == call[c]
<1>1. call \in [Calls -> Call] /\ m \in Call /\ m.pc = "wait" /\ m.op \in Ops /\ m.value \in Values
  BY DEF Inv, TypeOK, Call, VenueExecutes
<1>2. PICK a \in Answers : Execute(m.op, m.value, a) /\ call' = [call EXCEPT ![c].answer = a]
  BY DEF VenueExecutes
<1> DEFINE k == [m EXCEPT !.answer = a]
<1>3. k.op = m.op /\ k.pc = "wait" /\ k.answer = a /\ k.value = m.value
  BY <1>1 DEF Call
<1>4. call'[c] = k /\ \A d \in Calls : d # c => call'[d] = call[d]
  BY <1>1, <1>2 DEF Call
<1> HIDE DEF k
<1>5. /\ \A i, w : m.op # "amend" /\ Holds(orders, i, w) => Holds(orders', i, w)
      /\ m.op = "cancel" => ~Live'
      /\ m.op # "place" /\ ~Live => ~Live'
      /\ m.op = "amend" /\ a.code = "ok" => Holds(orders', a.order, m.value)
  BY <1>1, <1>2, ExecuteOrders DEF Inv
<1>6. PlaceOver'
  BY <1>1, <1>3, <1>4 DEF Later, PlaceOver, Running, Idle
<1>7. OneAmend'
  BY <1>1, <1>3, <1>4 DEF Later, OneAmend, Running
<1>8. ASSUME NEW d \in Calls, KnowsDead(call'[d])
      PROVE  ~Live'
  <2>1. CASE d = c
    BY <1>3, <1>4, <1>5, <1>8, <2>1 DEF KnowsDead
  <2>2. CASE d # c
    <3>1. KnowsDead(call[d])
      BY <1>4, <1>8, <2>2
    <3>2. m.op # "place"
      BY <1>1, <3>1 DEF Later, PlaceOver, KnowsDead, Running, Idle
    <3> QED
      BY <1>5, <3>1, <3>2 DEF Later, DeathTrue
  <2> QED
    BY <2>1, <2>2
<1>9. ASSUME NEW d \in Calls, call'[d].op = "amend"
      PROVE  /\ call'[d].pc = "wait" /\ call'[d].answer.code = "ok"
                  => Holds(orders', call'[d].answer.order, call'[d].value)
             /\ call'[d].pc = "decide" /\ call'[d].found.outcome = "Found"
                  => Holds(orders', call'[d].found.order, call'[d].found.value)
  <2>1. CASE d = c
    BY <1>3, <1>4, <1>5, <1>9, <2>1
  <2>2. CASE d # c
    <3>1. call'[d] = call[d]
      BY <1>4, <2>2
    <3>2. Running(d) => m.op # "amend"
      BY <1>1, <1>9, <2>2, <3>1 DEF Later, OneAmend, Running
    <3> QED
      BY <1>5, <1>9, <3>1, <3>2 DEF Later, AmendTrue, Running
  <2> QED
    BY <2>1, <2>2
<1> QED
  BY <1>6, <1>7, <1>8, <1>9 DEF Later, DeathTrue, AmendTrue

LEMMA EndKeepsLater ==
    ASSUME Inv, Later, NEW s \in {"Canceled", "Done"}, VenueEnds(s)
    PROVE  Later'
<1>1. call' = call /\ Live /\ orders' = [orders EXCEPT ![Newest].status = s]
  BY DEF VenueEnds
<1>2. /\ Newest' = Newest /\ orders'[Newest].status = s
      /\ \A i \in 1..Newest : orders'[i].value = orders[i].value
  BY <1>1, EndKeepsValues DEF Inv, Statuses, Newest
<1>3. ~Live' /\ \A i, w : Holds(orders, i, w) => Holds(orders', i, w)
  BY <1>2 DEF Live, Newest, Holds
<1> QED
  BY <1>1, <1>3 DEF Later, PlaceOver, OneAmend, Running, Idle, DeathTrue, AmendTrue

LEMMA LaterInvariant == Spec => [](Inv /\ Later)
<1>1. Init => Later
  <2> SUFFICES ASSUME Init
               PROVE  Later
    OBVIOUS
  <2>1. \A c \in Calls : call[c].op = "place" /\ call[c].pc = "idle"
    BY DEF Init, IdleCall
  <2> QED
    BY <2>1 DEF Later, PlaceOver, OneAmend, DeathTrue, AmendTrue, KnowsDead, Idle, Running
<1>2. Inv /\ Later /\ [Next]_vars => Later'
  <2> SUFFICES ASSUME Inv, Later, [Next]_vars
               PROVE  Later'
    OBVIOUS
  <2>1. CASE UNCHANGED vars
    BY <2>1 DEF vars, Later, PlaceOver, OneAmend, DeathTrue, AmendTrue, KnowsDead, Idle, Running,
       Live, Newest, Holds
  <2>2. CASE Next
    BY <2>2, BeginKeepsLater, CallStepKeepsLater, VenueKeepsLater, EndKeepsLater DEF Next
  <2> QED
    BY <2>1, <2>2
<1> QED
  BY <1>1, <1>2, Invariance, PTL DEF Spec

\* After a cancel that is reported as successful nothing is live under the id,
\* whatever amends replace the order meanwhile.
THEOREM CancelIsFinal == Spec => []CanceledIsDead
<1>1. Later => CanceledIsDead
  BY DEF Later, DeathTrue, KnowsDead, CanceledIsDead, Ended
<1> QED
  BY <1>1, LaterInvariant, PTL

\* An amend is reported as successful only with its value in effect.
THEOREM AmendIsTrue == Spec => AmendInEffect
<1> DEFINE InEffect == \A c \in Calls : Ended(c, "amend", {"ok"})' /\ call[c].pc # "done"
                          => orders[call'[c].result.order].value = call[c].value
<1>1. Inv /\ Later /\ [Next]_vars => [InEffect]_vars
  <2> SUFFICES ASSUME Inv, Later, Next, NEW c \in Calls,
                      Ended(c, "amend", {"ok"})', call[c].pc # "done"
               PROVE  orders[call'[c].result.order].value = call[c].value
    BY DEF InEffect
  <2>0. TypeOK /\ WaitsForVenue /\ AmendTrue /\ call \in [Calls -> Call]
    BY DEF Inv, Later, TypeOK
  <2>1. ASSUME NEW d \in Calls, CallStep(d)
        PROVE  orders[call'[c].result.order].value = call[c].value
    <3>1. \A e \in Calls : e # d => call'[e] = call[e]
      BY <2>0, <2>1, CallStepShape
    <3>2. c = d
      BY <3>1 DEF Ended
    <3>3. Learned(call[c], call'[c])
      BY <2>0, <2>1, <3>2, CallStepLearns
    <3> QED
      BY <3>3 DEF Learned, Ended, Holds
  <2>2. ASSUME NEW d \in Calls, NEW op \in Ops, NEW v \in Values, NEW b \in BOOLEAN,
               Begin(d, op, v, b)
        PROVE  FALSE
    BY <2>0, <2>2, ZenonT(60) DEF Begin, Call, Ended
  <2>3. ASSUME NEW d \in Calls, VenueExecutes(d)
        PROVE  FALSE
    BY <2>0, <2>3 DEF VenueExecutes, Call, Ended
  <2>4. ASSUME NEW s, VenueEnds(s)
        PROVE  FALSE
    BY <2>4 DEF VenueEnds, Ended
  <2> QED
    BY <2>1, <2>2, <2>3, <2>4 DEF Next
<1> QED
  BY <1>1, LaterInvariant, PTL DEF Spec, AmendInEffect, InEffect

=============================================================================
