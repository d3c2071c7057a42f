------------------------------ MODULE MailCodes ------------------------------
(***************************************************************************)
(* get_oai_code, mail_service.py: the configured provider decides whether  *)
(* the code is waited for in an Outlook mailbox or at a mail API.          *)
(***************************************************************************)
EXTENDS OutlookCodes, MailPolling, TLC

\* The mailbox is not used by the other providers.
MailInit ==
    /\ PollInit
    /\ OutlookInit
    /\ provider # "outlook" => mode = "auto" /\ \A m \in OldMail : where[m] = Folders[1]

GetCode ==
    \/ provider = "outlook" /\ OutlookNext /\ UNCHANGED pollVars
    \/ provider # "outlook" /\ PollNext /\ UNCHANGED outlookVars

MailSpec == MailInit /\ [][GetCode]_<<outlookVars, pollVars>>

LetterSymmetry == Permutations(Letters)

=============================================================================
