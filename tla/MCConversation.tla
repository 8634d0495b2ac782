---------------------------- MODULE MCConversation -----------------------------
(* Two start requests of one user, whose plan has room for one full session *)
(* and whose credits for half of another.                                   *)
EXTENDS ConversationSessions, TLC

CONSTANTS one, two, budget

MCKeys == {one, two}
MCBuckets == {budget}
MCLimit == budget :> 4
MCBackfill == budget :> 0
MCFaulty == {one}
NoKeys == {}
===============================================================================
