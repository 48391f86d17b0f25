---------------------------- MODULE MC_HttpServer ---------------------------
(* Requests for TLC: a url with a bare CR in it, and a body that looks like the end *)
(* of a header.                                                                   *)
EXTENDS HttpServer

MC_Urls == {<<"/", CR, "a">>}
MC_Bodies == {<< >>, CR_LF}
=============================================================================
