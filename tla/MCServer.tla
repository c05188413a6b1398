------------------------------- MODULE MCServer -------------------------------
(* Instances of module Server.  Lines of one and two units are answered,     *)
(* longer ones are not.                                                     *)
EXTENDS Server

Talk == {<<"q", "p", NL, "rebuild", NL>>,   \* two requests, one as long as can be
         <<"p", "q", "q", NL>>,             \* a line too long
         <<NL, "shutdown", NL, "q">>}       \* what follows shutdown
MCWiresOf(c) == IF c = "a" THEN Talk ELSE {<<>>, <<"q", NL, "q", NL>>}

RebuildWiresOf(c) == {<<"rebuild", NL>>, <<"shutdown", NL>>}
=============================================================================
