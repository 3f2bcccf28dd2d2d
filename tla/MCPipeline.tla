------------------------------ MODULE MCPipeline ------------------------------
(***************************************************************************)
(* Requests for two paths.  A match block matches one of them, and a       *)
(* rewriting rule leads there from the other.                              *)
(***************************************************************************)
EXTENDS Pipeline

CONSTANTS shared, tier

Request(p) == [method |-> "GET", host |-> "a", path |-> p, header |-> <<>>]

AnyRequest == [host |-> None, path |-> None, methods |-> {}, header |-> None]

Below(p) == [subtree |-> TRUE, prefix |-> p]

MCRequests == {Request(<<"v1">>), Request(<<"v2">>)}

MCSpecs == {AnyRequest, [AnyRequest EXCEPT !.path = Below(<<"v2">>)]}

MCRewriteFrom == Below(<<"v1">>)

MCRewriteTo == <<"v2">>

===============================================================================
