------------------------------ MODULE MCExchange ------------------------------
(***************************************************************************)
(* One exchange with headers of up to two Connection lines.                *)
(***************************************************************************)
EXTENDS Exchange

MCHeaders ==
    {[lines |-> <<>>, names |-> {"te", "x-app"}],
     [lines |-> <<{"x-hop"}>>, names |-> {"x-hop", "x-app"}],
     [lines |-> <<{"keep-alive", "upgrade"}>>, names |-> {"upgrade", "keep-alive"}],
     [lines |-> <<{"x-hop"}, {"upgrade"}>>, names |-> {"upgrade", "x-hop"}]}

===============================================================================
