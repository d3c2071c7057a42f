--------------------------- MODULE MCAccountStore ---------------------------
(* Small instances of AccountStore.                                        *)
EXTENDS AccountStore, TLC

CONSTANTS e1, e2, web

BothEmails == {e1, e2}
OneLegacy  == {e1}
WebThread == {web}
NoEmails == {}
OneOrBoth == {{1}, {1, 2}}
TwoOnce == (e1 :> 2 @@ e2 :> 1)
=============================================================================
