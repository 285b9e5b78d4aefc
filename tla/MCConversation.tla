---------------------------- MODULE MCConversation ----------------------------
(* Two storable updates of an allowed user, one in a private chat and one   *)
(* in the group whose id is its negative, so that both share one Markdown   *)
(* file; the refused kinds of updates are checked on their own.             *)
EXTENDS Conversation

CONSTANTS alice, mallory, u1, u2, u3, u4, u5

From(user, chat) == [from |-> user, chat |-> chat, blank |-> FALSE]

\* Two conversations that share a file.
MCTwoChats == [u \in Updates |-> From(alice, IF u = u1 THEN 7 ELSE -7)]

\* Two messages of one chat.
MCOneChat == [u \in Updates |-> From(alice, 7)]

\* One message of each kind the handler tells apart. The one that is stored
\* has a chat without an id, so the sender refuses its reply.
MCKinds == [u \in {u1, u2, u3, u4, u5} |->
  CASE u = u1 -> From(alice, 0)
    [] u = u2 -> From(mallory, 7)
    [] u = u3 -> NoMessage
    [] u = u4 -> [from |-> alice, chat |-> 7, blank |-> TRUE]
    [] u = u5 -> From(NoUser, 7)]
=============================================================================
