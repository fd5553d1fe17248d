--------------------------- MODULE MCRemoteSources ---------------------------
(***************************************************************************)
(* Instances of RemoteSources for TLC: mailboxes and shares that differ in *)
(* what their servers can do and what is done with what was filed.         *)
(***************************************************************************)
EXTENDS RemoteSources

C(policy, mark, srv) == [policy |-> policy, mark |-> mark, server |-> srv]
MailConfigs == {C("leave", TRUE, "plain"), C("move", FALSE, "move"), C("move", FALSE, "plain"),
                C("move", FALSE, "uidplus"), C("delete", FALSE, "uidplus"), C("delete", FALSE, "plain")}

S(policy, tags, conditional, head, twice) ==
  [policy |-> policy, tags |-> tags, conditional |-> conditional, head |-> head, twice |-> twice]
MCShares == {S("leave", "none", FALSE, FALSE, TRUE),
             S("move", "none", TRUE, TRUE, FALSE), S("move", "strong", TRUE, TRUE, TRUE),
             S("delete", "strong", FALSE, TRUE, FALSE), S("delete", "meta", TRUE, TRUE, FALSE),
             S("delete", "strong", TRUE, FALSE, FALSE)}
==============================================================================
