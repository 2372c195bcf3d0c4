------------------------------ MODULE MCKHttp2 ------------------------------
(* Instances of KHttp2 for TLC.                                            *)
EXTENDS KHttp2

\* A response body of unknown length.
UnknownBody == {-1}
=============================================================================
