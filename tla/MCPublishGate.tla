---------------------------- MODULE MCPublishGate ----------------------------
(* Instances of PublishGate for TLC. *)
EXTENDS PublishGate, TLC

CONSTANTS w1, w2, h1, h2

\* Two workflows of one product; the retries of the second move between the host
\* they share and one of its own.
SharedHost == {<<w1, h1>>, <<w2, h1>>, <<w2, h2>>}
\* One host each.
OneHostEach == {<<w1, h1>>, <<w2, h2>>}

\* The first workflow is not retried, the second once.
RetriesOfW2 == (w1 :> 1) @@ (w2 :> 2)

NothingOnSale == <<>>

\* FieldsFor's keys, and those liveFieldsOf reports back.
FieldsForKeys ==
  {"sku", "name", "short_description", "regular_price", "stock_quantity", "status"}
LiveFieldsOfKeys == {"name", "sku", "regular_price", "short_description"}
=============================================================================
