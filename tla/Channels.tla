------------------------------ MODULE Channels ------------------------------
(***************************************************************************)
(* A channel: the arrays of its members and its pinned messages, which a   *)
(* request reads and Mongoose saves, and the messages sent to it with the  *)
(* counts kept of them.  An array that is assigned is saved only over the  *)
(* version it was read in; a push asks for no version and makes a new one. *)
(*                                                                         *)
(* Nothing depends on the order of an array: it is how many of each entry  *)
(* it holds.                                                               *)
(***************************************************************************)
EXTENDS Integers, Functions, FiniteSets

CONSTANTS
    Joiners,            \* users who join and leave
    Pinnable,           \* messages that are pinned and unpinned
    PinLimit,           \* the 10 of the code
    ChannelCalls        \* the requests, numbered in the order they begin

ASSUME ChannelAssumption ==
    /\ PinLimit \in Nat /\ ChannelCalls \subseteq Nat /\ IsFiniteSet(ChannelCalls)
    /\ IsFiniteSet(Joiners) /\ IsFiniteSet(Pinnable)

VARIABLES
    channel,            \* the document
    due,                \* history variable: what the saves so far add up to
    chCall              \* chCall[r]: a request

channelVars == <<channel, due, chCall>>

Arrays == {"members", "pinnedMessages"}
Entries(a) == IF a = "members" THEN Joiners ELSE Pinnable
NoArrays == [a \in Arrays |-> [x \in Entries(a) |-> 0]]
OfList(list) == {x \in DOMAIN list : list[x] > 0}
Size(list) == SumFunctionOnSet(list, DOMAIN list)

IdleCall == [op |-> "none", pc |-> "idle", array |-> "members", x |-> 0,
             seen |-> NoArrays["members"], version |-> 0, late |-> FALSE]

ChannelsInit ==
    /\ channel \in [lists : {NoArrays}, version : {0}, isDefault : BOOLEAN,
                    isArchived : {FALSE}, messageCount : {0}, threadCount : {0},
                    roots : {1}, replies : {0}]
    /\ due = [a \in Arrays |-> {}]
    /\ chCall = [r \in ChannelCalls |-> IdleCall]

CanBegin(r) ==
    /\ chCall[r].pc = "idle"
    /\ \A s \in ChannelCalls : s < r => chCall[s].pc # "idle"

ChannelAt(r, pc) == chCall' = [chCall EXCEPT ![r].pc = pc]

Read(r, op, a, x) ==
    chCall' = [chCall EXCEPT ![r] =
        [@ EXCEPT !.op = op, !.pc = "save", !.array = a, !.x = x,
                  !.seen = channel.lists[a], !.version = channel.version]]

(* joinChannel and pinMessage read the document and check it.  What they   *)
(* refuse, and what is there already, ends here.                           *)
BeginAdd(r) ==
    /\ CanBegin(r)
    /\ \E a \in Arrays : \E x \in Entries(a) :
         /\ channel.lists[a][x] = 0
         /\ a = "pinnedMessages" => Size(channel.lists[a]) < PinLimit
         /\ Read(r, "add", a, x)
    /\ UNCHANGED <<channel, due>>

(* leaveChannel, for a channel that is not a default one, and unpinMessage *)
(* assign the array without x.  With no x in it nothing is saved.          *)
BeginTake(r) ==
    /\ CanBegin(r)
    /\ \E a \in Arrays : \E x \in OfList(channel.lists[a]) :
         /\ a = "members" => ~channel.isDefault
         /\ Read(r, "take", a, x)
    /\ UNCHANGED <<channel, due>>

Store(c, list) ==
    /\ channel' = [channel EXCEPT !.lists = [channel.lists EXCEPT ![c.array] = list],
                                  !.version = channel.version + 1]
    /\ due' = [due EXCEPT ![c.array] = IF c.op = "add" THEN @ \cup {c.x} ELSE @ \ {c.x}]

(* The push adds to whatever is there now.                                 *)
SaveAdd(r) ==
    LET c == chCall[r] IN
    /\ c.pc = "save" /\ c.op = "add"
    /\ Store(c, [channel.lists[c.array] EXCEPT ![c.x] = @ + 1])
    /\ chCall' = [chCall EXCEPT ![r] =
                    [@ EXCEPT !.pc = "done", !.late = c.seen # channel.lists[c.array]]]

Without(c) == [c.seen EXCEPT ![c.x] = 0]

(* Mutant: documents without a version key.                                *)
SaveTakeMutant(r) ==
    /\ chCall[r].pc = "save" /\ chCall[r].op = "take"
    /\ Store(chCall[r], Without(chCall[r]))
    /\ ChannelAt(r, "done")

(* The array as it was read, without x, over the same version or not.      *)
SaveTake(r) ==
    LET c == chCall[r] IN
    /\ c.pc = "save" /\ c.op = "take"
    /\ IF c.version = channel.version
       THEN Store(c, Without(c)) /\ ChannelAt(r, "done")
       ELSE ChannelAt(r, "failed") /\ UNCHANGED <<channel, due>>

(* deleteChannel archives a channel that is not a default one.             *)
Archive ==
    /\ ~channel.isDefault /\ ~channel.isArchived
    /\ channel' = [channel EXCEPT !.isArchived = TRUE]
    /\ UNCHANGED <<due, chCall>>

(* sendMessage: the channel is not archived, then the message is created,  *)
BeginSend(r) ==
    /\ CanBegin(r) /\ ~channel.isArchived
    /\ \E op \in {"root", "reply"} :
         chCall' = [chCall EXCEPT ![r] = [@ EXCEPT !.op = op, !.pc = "create"]]
    /\ UNCHANGED <<channel, due>>

CreateMessage(r) ==
    /\ chCall[r].pc = "create"
    /\ channel' = IF chCall[r].op = "root" THEN [channel EXCEPT !.roots = @ + 1]
                  ELSE [channel EXCEPT !.replies = @ + 1]
    /\ ChannelAt(r, IF chCall[r].op = "root" THEN "count" ELSE "thread")
    /\ UNCHANGED due

(* the thread of a reply counted on its root,                              *)
CountThread(r) ==
    /\ chCall[r].pc = "thread"
    /\ channel' = [channel EXCEPT !.threadCount = @ + 1]
    /\ ChannelAt(r, "count")
    /\ UNCHANGED due

(* and the message on its channel, archived since or not.                  *)
CountOnChannel(r) ==
    /\ chCall[r].pc = "count"
    /\ channel' = [channel EXCEPT !.messageCount = @ + 1]
    /\ ChannelAt(r, "sent")
    /\ UNCHANGED due

(* The process stops between two writes of a sendMessage.                  *)
CutSend(r) ==
    /\ chCall[r].pc \in {"thread", "count"}
    /\ chCall' = [chCall EXCEPT ![r] =
                    [@ EXCEPT !.pc = "cut", !.late = chCall[r].pc = "thread"]]
    /\ UNCHANGED <<channel, due>>

ChannelsNext ==
    \/ Archive
    \/ \E r \in ChannelCalls :
         \/ BeginAdd(r) \/ BeginTake(r) \/ SaveAdd(r) \/ SaveTake(r)
         \/ BeginSend(r) \/ CreateMessage(r) \/ CountThread(r)
         \/ CountOnChannel(r) \/ CutSend(r)

ChannelsSpec == ChannelsInit /\ [][ChannelsNext]_channelVars

-----------------------------------------------------------------------------
(* Pins and joins saved over an array that was not the one they checked.   *)
Late(a) == Cardinality({r \in ChannelCalls :
                          chCall[r].op = "add" /\ chCall[r].pc = "done"
                          /\ chCall[r].array = a /\ chCall[r].late})

(* More than ten pins, or an entry twice, come only of requests saved over *)
(* an array that had changed since they checked it, one too many for each; *)
(* and no request's save undoes another's.  (pinMessage, unpinMessage,     *)
(* joinChannel, leaveChannel, Mongoose's version check.)                   *)
PinLimitHeld ==
    /\ Size(channel.lists["pinnedMessages"]) <= PinLimit + Late("pinnedMessages")
    /\ \A a \in Arrays :
         /\ Size(channel.lists[a]) <= Cardinality(due[a]) + Late(a)
         /\ OfList(channel.lists[a]) = due[a]

Sending(pcs) == {r \in ChannelCalls : chCall[r].op \in {"root", "reply"}
                                      /\ chCall[r].pc \in pcs}
Cut(before) == {r \in Sending({"cut"}) : chCall[r].late = before}

(* The count of a channel is that of the messages ever sent to it, and of  *)
(* a root that of its replies ever sent, but for those between their       *)
(* writes or stopped there.  (sendMessage.)                                *)
SentCounted ==
    /\ channel.messageCount =
          channel.roots - 1 + channel.replies
          - Cardinality(Sending({"thread", "count", "cut"}))
    /\ channel.threadCount =
          channel.replies - Cardinality(Sending({"thread"})) - Cardinality(Cut(TRUE))

(* What a channel document holds is what its requests made of it.          *)
ChannelSound == PinLimitHeld /\ SentCounted
=============================================================================
