----------------------------- MODULE JsonParser -----------------------------
(***************************************************************************)
(* JsonParser::parse (transport/json_parser.cpp): which messages a frame   *)
(* becomes.  A frame has the length of its text, what the text is and the  *)
(* objects in it; an object has its event type and the fields that are     *)
(* missing, or not of the JSON type the parser asks for.                   *)
(*                                                                         *)
(* simdjson reads on demand: of a text it refuses at once only what it     *)
(* cannot cut into tokens (text "broken": nothing at all, an open string,  *)
(* bytes that are not UTF-8).  All else it finds when the parser gets      *)
(* there, and value() throws: a text that is no object or array ("other",  *)
(* such as PONG, which the transports do not keep back), an element of the *)
(* array that is no object ("element"), a field that is missing or of the  *)
(* wrong type, and text that ends or goes wrong inside of any of them.     *)
(* Numbers are strings in the text; one that does not parse becomes 0 and  *)
(* is not missing.                                                         *)
(***************************************************************************)
EXTENDS Naturals, Sequences

CONSTANT Padding   \* SIMDJSON_PADDING: what simdjson wants behind the text

ASSUME PaddingAssumption == Padding \in Nat

\* What each parse_*_message asks for, the fields of nested objects included.
Required ==
    [book |-> {"asset_id", "market", "timestamp", "bids", "asks", "price", "size"},
     price_change |-> {"market", "timestamp", "price_changes", "asset_id", "price", "size",
                       "side", "best_bid", "best_ask"},
     last_trade_price |-> {"asset_id", "market", "price", "side", "size", "fee_rate_bps",
                           "timestamp"},
     tick_size_change |-> {"asset_id", "market", "old_tick_size", "new_tick_size",
                           "timestamp"},
     market_resolved |-> {"market", "winning_asset_id", "winning_outcome", "timestamp",
                          "assets_ids"}]

Handled == DOMAIN Required

\* get_object() and parse_object: best_bid_ask, new_market, unknown types and
\* objects without a type ("none") yield nothing; a type that is not a string
\* ("number") throws, and so does an element that is no object ("element").
Throws(object) ==
    \/ object.type \in {"number", "element"}
    \/ object.type \in Handled /\ object.missing \cap Required[object.type] # {}

IsMessage(object) == object.type \in Handled

\* The text is copied into padded_buffer_, which grows to twice the length of a
\* text it cannot hold; its size is passed as the capacity, padding and all.
Grown(buffer, length) == IF buffer < length THEN 2 * length ELSE buffer

\* iterate() refuses a text with too little behind it, and one without tokens.
Refused(buffer, frame) ==
    frame.text = "broken" \/ Grown(buffer, frame.length) < frame.length + Padding

\* doc.type(), get_array(), get_object() and the fields, each with value().
ParseThrows(frame) ==
    frame.text = "other" \/ \E i \in DOMAIN frame.objects : Throws(frame.objects[i])

\* Mutant of Parsed: the array ends at the first object that is no message.
ParsedUpToFirst(frame) ==
    {i \in DOMAIN frame.objects : \A j \in 1 .. i : IsMessage(frame.objects[j])}

\* The positions of the objects that become messages, in the order of the array.
Parsed(frame) == {i \in DOMAIN frame.objects : IsMessage(frame.objects[i])}
=============================================================================
