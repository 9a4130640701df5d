------------------------------ MODULE Messages ------------------------------
(***************************************************************************)
(* One message, which requests read, change in memory and save: edits, the *)
(* deletion that leaves the document, reactions with one emoji, bookmarks. *)
(* Mongoose saves the paths that changed.  A path inside an array's entry, *)
(* or an array that is assigned, is saved over the version it was read in  *)
(* and makes a new one; a push to an array of the document only makes a    *)
(* new one; the other paths do neither.  After its save a request tells    *)
(* the sockets in the channel's room, from the document it holds.          *)
(*                                                                         *)
(* Nothing depends on the order of the users who react or keep a bookmark: *)
(* an array of them is how many times it holds each.                       *)
(***************************************************************************)
EXTENDS Integers, Sequences, Functions, FiniteSets

CONSTANTS
    Readers,            \* the users who react and keep bookmarks
    MessageCalls,       \* the requests, numbered in the order they begin
    HistoryKept         \* the 5 of the code

ASSUME MessageAssumption ==
    /\ MessageCalls \subseteq Nat \ {0} /\ IsFiniteSet(MessageCalls)
    /\ IsFiniteSet(Readers)
    /\ HistoryKept \in Nat \ {0}

VARIABLES
    message,            \* the document
    msgCall,            \* msgCall[r]: a request with the document it holds
    shown               \* what a client in the room shows, and by which
                        \* request's events

messageVars == <<message, msgCall, shown>>

EmptyList == [u \in Readers |-> 0]
HowMany(users) == SumFunctionOnSet(users, Readers)

Tombstone == -1
Original == 0
IdleMessageCall == [op |-> "none", pc |-> "idle", by |-> CHOOSE u \in Readers : TRUE,
                    doc |-> 0, overDeleted |-> FALSE, overNewer |-> FALSE,
                    crossed |-> FALSE]

MessagesInit ==
    /\ message = [content |-> Original, isDeleted |-> FALSE, editHistory |-> <<>>,
                  reactions |-> <<>>, bookmarkedBy |-> EmptyList, version |-> 0]
    /\ msgCall = [r \in MessageCalls |-> IdleMessageCall]
    /\ shown = [content |-> Original, isDeleted |-> FALSE, reactions |-> <<>>,
                text |-> 0, marks |-> 0]

(* findOne: a deleted message is found only to delete or bookmark it.      *)
Finds(op) == ~message.isDeleted \/ op \in {"delete", "bookmark"}

Mine(entry, u) == entry.userIds[u] > 0

(* What a request checks of the document before it changes it.             *)
Accepts(op, u) ==
    CASE op = "react" ->
             IF message.reactions = <<>> THEN TRUE ELSE ~Mine(message.reactions[1], u)
      [] op = "unreact" -> message.reactions # <<>>
      [] op = "bookmark" -> message.bookmarkedBy[u] = 0
      [] OTHER -> TRUE

BeginMessageCall(r) ==
    /\ msgCall[r].pc = "idle"
    /\ \A s \in MessageCalls : s < r => msgCall[s].pc # "idle"
    /\ \E op \in {"edit", "delete", "react", "unreact", "bookmark"}, u \in Readers :
         /\ op \in {"edit", "delete"} => u = IdleMessageCall.by
         /\ Finds(op) /\ Accepts(op, u)
         /\ msgCall' = [msgCall EXCEPT ![r] =
                 [@ EXCEPT !.op = op, !.pc = "save", !.by = u, !.doc = message]]
    /\ UNCHANGED <<message, shown>>

SaveOver(r, pc, doc) ==
    [msgCall EXCEPT ![r] = [@ EXCEPT !.pc = pc, !.doc = doc,
                               !.overDeleted = message.isDeleted,
                               !.overNewer = msgCall[r].doc.version # message.version]]

(* A request that has nothing to tell, or a save that failed.              *)
Finish(r, pc) == msgCall' = SaveOver(r, pc, 0) /\ UNCHANGED shown

(* Saved, and yet to tell of it.  Another one in that place is crossed.    *)
Changed(r, doc) ==
    /\ msgCall' = [q \in MessageCalls |->
           IF q # r /\ msgCall[q].pc = "tell" THEN [msgCall[q] EXCEPT !.crossed = TRUE]
           ELSE SaveOver(r, "tell", doc)[q]]
    /\ UNCHANGED shown

(* What the room is told: MESSAGE_UPDATED with the whole of the document   *)
(* in memory, MESSAGE_DELETED, or REACTION_UPDATED with its reactions.     *)
EmitToRoom(r) ==
    LET c == msgCall[r] IN
    /\ c.pc = "tell"
    /\ shown' =
         CASE c.op = "edit" ->
                [content |-> r, isDeleted |-> FALSE, reactions |-> c.doc.reactions,
                 text |-> r, marks |-> r]
           [] c.op = "delete" -> [shown EXCEPT !.isDeleted = TRUE, !.text = r]
           [] OTHER -> [shown EXCEPT !.reactions = c.doc.reactions, !.marks = r]
    /\ msgCall' = [msgCall EXCEPT ![r].pc = "done", ![r].doc = 0]
    /\ UNCHANGED message

Saving(r, op) == msgCall[r].pc = "save" /\ msgCall[r].op = op

(* Mutant: an edit saves the document as a whole.                          *)
SaveEditMutant(r) ==
    /\ Saving(r, "edit")
    /\ message' = [msgCall[r].doc EXCEPT !.content = r, !.version = message.version + 1]
    /\ Changed(r, msgCall[r].doc)

(* editMessage pushes the content it read to the history, which it assigns *)
(* when the oldest goes, assigns the mentions, if they are others, and     *)
(* sets the content; deleted since or not.                                 *)
SaveEdit(r) ==
    LET doc == msgCall[r].doc
        full == Len(doc.editHistory) >= HistoryKept
    IN
    /\ Saving(r, "edit")
    /\ \E others \in BOOLEAN :
       IF (full \/ others) /\ doc.version # message.version
       THEN Finish(r, "failed") /\ UNCHANGED message
       ELSE /\ message' = [message EXCEPT
                 !.content = r,
                 !.version = @ + 1,
                 !.editHistory = Append(IF full THEN Tail(@) ELSE @, doc.content)]
            /\ Changed(r, doc)

(* deleteMessage sets isDeleted and the tombstone, over any version.       *)
SaveDelete(r) ==
    /\ Saving(r, "delete")
    /\ message' = [message EXCEPT !.isDeleted = TRUE, !.content = Tombstone]
    /\ Changed(r, msgCall[r].doc)

(* The first entry of the emoji, with u and its count one more.            *)
WithUser(reactions, u, count) ==
    IF reactions = <<>>
    THEN <<[userIds |-> [EmptyList EXCEPT ![u] = 1], count |-> 1]>>
    ELSE LET users == reactions[1].userIds IN
         [reactions EXCEPT ![1] = [userIds |-> [users EXCEPT ![u] = @ + 1],
                                   count |-> count + 1]]

(* Mutant: the count is $set whatever the version.                         *)
SaveReactionMutant(r) ==
    LET c == msgCall[r]
        first == c.doc.reactions = <<>>
    IN
    /\ Saving(r, "react")
    /\ message' = [message EXCEPT
         !.reactions = IF first THEN @ \o WithUser(<<>>, c.by, 0)
                       ELSE WithUser(@, c.by, c.doc.reactions[1].count),
         !.version = @ + 1]
    /\ Changed(r, c.doc)

(* addReaction: to the first entry of the emoji, its count with it, or a   *)
(* push of a first entry, which asks for no version.                       *)
SaveReaction(r) ==
    LET c == msgCall[r]
        first == c.doc.reactions = <<>>
        mine == WithUser(c.doc.reactions, c.by,
                         IF first THEN 0 ELSE c.doc.reactions[1].count)
    IN
    /\ Saving(r, "react")
    /\ IF ~first /\ c.doc.version # message.version
       THEN Finish(r, "failed") /\ UNCHANGED message
       ELSE /\ message' = [message EXCEPT
                 !.reactions = IF first THEN @ \o mine ELSE mine,
                 !.version = @ + 1]
            /\ Changed(r, [c.doc EXCEPT !.reactions = mine])

(* removeReaction takes the user out of the first entry of the emoji.  An  *)
(* entry left empty takes every entry of the emoji with it.  If he was not *)
(* in it nothing is saved, and the room is told what was read.             *)
SaveUnreaction(r) ==
    LET c == msgCall[r]
        left == [c.doc.reactions[1].userIds EXCEPT ![c.by] = 0]
        others == IF left = EmptyList THEN <<>>
                  ELSE [c.doc.reactions EXCEPT ![1] = [userIds |-> left,
                                                       count |-> HowMany(left)]]
    IN
    /\ Saving(r, "unreact")
    /\ IF ~Mine(c.doc.reactions[1], c.by)
       THEN msgCall' = SaveOver(r, "tell", c.doc) /\ UNCHANGED <<message, shown>>
       ELSE IF c.doc.version # message.version
       THEN Finish(r, "failed") /\ UNCHANGED message
       ELSE /\ message' = [message EXCEPT !.reactions = others, !.version = @ + 1]
            /\ Changed(r, [c.doc EXCEPT !.reactions = others])

(* bookmarkMessage pushes, over any version.                               *)
SaveBookmark(r) ==
    /\ Saving(r, "bookmark")
    /\ message' = [message EXCEPT !.bookmarkedBy[msgCall[r].by] = @ + 1,
                                  !.version = @ + 1]
    /\ Finish(r, "done")

(* removeBookmark is a $pull: every entry of the user at once.             *)
RemoveBookmark(u) ==
    /\ message.bookmarkedBy[u] > 0
    /\ message' = [message EXCEPT !.bookmarkedBy[u] = 0]
    /\ UNCHANGED <<msgCall, shown>>

MessagesNext ==
    \/ \E r \in MessageCalls :
         \/ BeginMessageCall(r) \/ SaveEdit(r) \/ SaveDelete(r)
         \/ SaveReaction(r) \/ SaveUnreaction(r) \/ SaveBookmark(r)
         \/ EmitToRoom(r)
    \/ \E u \in Readers : RemoveBookmark(u)

MessagesSpec == MessagesInit /\ [][MessagesNext]_messageVars

-----------------------------------------------------------------------------
Saved(op) == {r \in MessageCalls : msgCall[r].op = op
                                      /\ msgCall[r].pc \in {"tell", "done"}}

(* Deleted is deleted, whatever is saved after; what a deleted message     *)
(* holds in place of the tombstone is an edit saved over the deletion; and *)
(* its history is longer than five edits only by those saved at once.      *)
(* (deleteMessage, editMessage.)                                           *)
TombstoneHolds ==
    /\ Saved("delete") # {} => message.isDeleted
    /\ message.isDeleted =>
         message.content = Tombstone
         \/ message.content \in {r \in Saved("edit") : msgCall[r].overDeleted}
    /\ Len(message.editHistory) <=
          HistoryKept + Cardinality({r \in Saved("edit") : msgCall[r].overNewer})

(* The count of an emoji is that of its users, nobody is lost from it by a *)
(* save at the same time, and a user is in it twice only where two first   *)
(* reactions made two entries.  (addReaction, removeReaction.)             *)
ReactionsCounted ==
    /\ \A i \in DOMAIN message.reactions :
         LET entry == message.reactions[i] IN
         entry.count = HowMany(entry.userIds) /\ \A u \in Readers : entry.userIds[u] <= 1
    /\ Saved("unreact") = {} =>
         {msgCall[r].by : r \in Saved("react")} =
            {u \in Readers : \E i \in DOMAIN message.reactions :
                               Mine(message.reactions[i], u)}

(* Once nobody has anything to tell, a client shows the message that is    *)
(* stored.  But for what was told by a request another one crossed between *)
(* its save and its event, by an edit saved over the deletion, which shows *)
(* the message again, and, of the reactions, by one that had read an older *)
(* document.  (The events of message.service.js; the sockets of a process  *)
(* that stops are gone with its events.)                                   *)
ShownIsStored ==
    LET Sure(r) == r = 0 \/ ~msgCall[r].crossed
        Over(r, flaw) == r # 0 /\ msgCall[r][flaw]
    IN
    (\A r \in MessageCalls : msgCall[r].pc # "tell") =>
        /\ Sure(shown.text) =>
             /\ shown.isDeleted = message.isDeleted \/ Over(shown.text, "overDeleted")
             /\ message.isDeleted \/ shown.content = message.content
        /\ Sure(shown.marks) /\ ~Over(shown.marks, "overNewer") =>
             shown.reactions = message.reactions

(* What a message holds is what its requests made of it, and what a client *)
(* shows of it what it holds.                                              *)
MessageSound == TombstoneHolds /\ ReactionsCounted /\ ShownIsStored
=============================================================================
