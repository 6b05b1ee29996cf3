------------------------------ MODULE MCRequest ------------------------------
(* Request with five names, one of them too long to be stored whole, and   *)
(* URLs some of which are cut: room for ten tokens in url, six in host.    *)
EXTENDS Request

MCStored == [k \in Keys |-> IF k = "long" THEN "cut" ELSE k]
MCAtoi == [t \in {"443", "70000"} |-> IF t = "443" THEN 443 ELSE 70000]
MCUrls ==
  [scheme : {<<>>, <<"https">>}, host : {<<>>, <<"host">>}, port : {"", "443"},
   path : {<<>>, <<"/", "a", ":", "b">>, <<"/", "a", ":", "/", "/", "b">>}]
  \cup [scheme : {<<"http">>, <<"a", "b">>}, host : {<<"host">>}, port : {"70000", "abc"},
        path : {<<>>, <<"/">>}]
=============================================================================
