---------------------------- MODULE MCMailCodes ----------------------------
(***************************************************************************)
(* Two folders, a code mail of an earlier run, a mail without a code and   *)
(* the code; two letters at the mail APIs.                                 *)
(***************************************************************************)
EXTENDS MailCodes

CONSTANTS code1, code2

FoldersInOrder == <<"Inbox", "Junk">>
CodesInOrder == <<code1, code2>>

=============================================================================
