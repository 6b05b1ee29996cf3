----------------------------- MODULE MCExchange -----------------------------
(* Exchange with short names only, up to two headers and four bodies.      *)
EXTENDS Exchange

MCUrls == {[scheme |-> <<"http">>, host |-> <<"host">>, port |-> "", path |-> <<>>]}
MCAtoi == <<>>   \* no URL has a port
MCStored == [k \in Keys |-> k]
MCBodies == {<<>>, <<"text">>, <<"text", "crlf", "crlf", "text">>, <<"crlf", "text">>}
MCStrays == {<<>>, <<"crlf">>, <<"text", "crlf", "crlf">>}
=============================================================================
