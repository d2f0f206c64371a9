---------------------------- MODULE MCGmailSync ----------------------------
(* Instances of GmailSync for TLC: what a full sync's query matches.        *)
EXTENDS GmailSync
AllMessages == {Message}
=============================================================================
