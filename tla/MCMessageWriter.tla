-------------------------- MODULE MCMessageWriter --------------------------
(* Small instances of MessageWriter: one set of inputs per question.       *)
EXTENDS MessageWriter

CONSTANTS a, b, c1, c2, t0, t1, t2, r1, r2, s1, heart

TwoIds == {a, b}
OneChat == {c1}
TwoChats == {c1, c2}
AllText == {t0, t1, t2}
AllRef == {r1, r2}
OneSender == {s1}
OneEmoji == {heart}
Nothing == {}
NoLid == [c \in {} |-> c]
LidAndPhone == [c \in {c1} |-> c2]

TextMessage(i, c, t) ==
    [id |-> i, chat |-> c, text |-> t, viewOnce |-> FALSE, path |-> FALSE,
     caption |-> FALSE, ref |-> None, location |-> NoLocation]
ViewOnceMessage(i, c) ==
    [id |-> i, chat |-> c, text |-> None, viewOnce |-> TRUE, path |-> FALSE,
     caption |-> TRUE, ref |-> r1, location |-> NoLocation]
LiveLocation(i, c, n) ==
    [id |-> i, chat |-> c, text |-> None, viewOnce |-> FALSE, path |-> FALSE,
     caption |-> FALSE, ref |-> None, location |-> n]

(* Replays, edits out of order, revocations and receipts of one message;   *)
(* a live location that moves and may be deleted; a vote.                  *)
ReplayMessages == {TextMessage(a, c1, t0), LiveLocation(b, c1, 1), LiveLocation(b, c1, 2)}
ReplayMutations ==
    {[kind |-> "edit", id |-> a, at |-> 1, text |-> t1],
     [kind |-> "edit", id |-> a, at |-> 2, text |-> t2],
     [kind |-> "revoke", id |-> a, at |-> 1],
     [kind |-> "delivery", id |-> a, rank |-> 1],
     [kind |-> "delivery", id |-> a, rank |-> 3],
     [kind |-> "localDelete", id |-> b]}
ReplayVotes == {[id |-> a, sender |-> s1, chat |-> c1, emoji |-> heart, at |-> 1]}

(* A view-once photo and a text that can be hidden, in a chat that is known *)
(* by its LID and its phone number, one reaction, and a text elsewhere.     *)
MediaMessages == {ViewOnceMessage(a, c1), TextMessage(b, c2, t0)}
MediaMutations ==
    {[kind |-> "mediaPath", id |-> a], [kind |-> "viewOnce", id |-> a],
     [kind |-> "revoke", id |-> b, at |-> 1]}
MediaReactions == {[id |-> a, sender |-> s1, chat |-> c1, emoji |-> heart, at |-> 1]}
=============================================================================
