------------------------ MODULE MC_MessagePipeline ------------------------
(* Texts shorter than the buffer, too near to its size, and longer than it; *)
(* an array that overflows the ring, with an object that is no message; and *)
(* texts that are no JSON, or none that the parser expects.                 *)
EXTENDS MessagePipeline

Object(type, missing) == [type |-> type, missing |-> missing]
Text(text, length, objects) == [text |-> text, length |-> length, objects |-> objects]
Frame(length, objects) == Text("json", length, objects)

Book == Object("book", {})
Quote == Object("best_bid_ask", {})

MCFrames ==
    {Frame(1, <<Book>>), Frame(2, <<Book>>), Frame(3, <<Book, Quote, Book, Book>>),
     Frame(1, <<Quote>>), Frame(1, <<Book, Object("price_change", {"size"})>>),
     Frame(1, <<Book, Object("element", {})>>), Text("broken", 1, <<>>), Text("other", 1, <<>>)}
=============================================================================
