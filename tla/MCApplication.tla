----------------------------- MODULE MCApplication ----------------------------
(* Application with a few calls and runs for TLC.                           *)
EXTENDS Application

(* The second call: over the files of the first and its own, with one       *)
(* source and two, a header expected and none, and a name of no query.      *)
MCLater == {<<"Nexmark", "Query2_Map">>, <<"Nexmark", "Query3_JoinPersonAuction">>,
            <<"SecureStream", "FilterQuery">>, <<"Nexmark", "Query3">>}
===============================================================================
