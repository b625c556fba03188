--------------------------- MODULE MCInvestigation ---------------------------
(***************************************************************************)
(* An instance of Investigation for TLC. The mail names the same URL       *)
(* twice; the page holds a value that is no URL. Either may be imported,   *)
(* and either may be what the URL, or its redirect to itself, answers.     *)
(***************************************************************************)
EXTENDS Investigation, TLC

CONSTANTS case, u1, host, mail, page

MCIds == {case}
MCUrls == {u1}
MCValues == {u1, host}
MCContents == {mail, page}
MCFindings == (mail :> <<u1, u1>>) @@ (page :> <<host>>)
=============================================================================
