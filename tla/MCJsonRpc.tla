----------------------------- MODULE MCJsonRpc -----------------------------
(* Instances of JsonRpc for TLC. *)
EXTENDS JsonRpc

\* The first id of the server, the least int, and the same number as a string.
MCClientIds == {IntId(1), IntId(-(IntMax + 1)), StringId("1")}

\* Every shape up to the test that decides what it is; then one of what is left.
MCVocabulary ==
  {shape \in Shapes :
     /\ shape.text # "object" => shape.jsonrpc = "1.0"
     /\ shape.jsonrpc # "2.0" => shape.method = "string"
     /\ shape.jsonrpc # "2.0" \/ shape.method = "number" => shape.id = IntId(1)
     /\ shape.method # "absent" => shape.result = (shape.id = IntId(1)) /\ ~shape.error
     /\ ~Readable(shape.id) => shape.result = shape.error}
=============================================================================
