--------------------------- MODULE DirectMessages ---------------------------
(***************************************************************************)
(* Conversations of two to eight members: opened by any of them, written   *)
(* to, and closed by each for himself.  Opening one finds the document     *)
(* with these participants or creates it; no index keeps it single.        *)
(***************************************************************************)
EXTENDS Integers, Sequences, FiniteSets

CONSTANTS
    Participants,       \* members of the workspace
    ParticipantLimit,   \* the 8 of the code
    DmCalls             \* the requests, numbered in the order they begin

ASSUME DmAssumption ==
    ParticipantLimit \in Nat /\ DmCalls \subseteq Nat /\ IsFiniteSet(DmCalls)

VARIABLES
    conversations,      \* the documents, in the order of their creation
    dmCall              \* dmCall[r]: a request

dmVars == <<conversations, dmCall>>

Ids == DOMAIN conversations
IdleDmCall == [op |-> "none", pc |-> "idle", by |-> CHOOSE u \in Participants : TRUE,
               among |-> {}, id |-> 0, closed |-> {}, version |-> 0,
               read |-> 0, late |-> FALSE]

(* closedBy is an array of which all that is asked is who is in it.        *)
NewConversation(among) ==
    [participants |-> among, closedBy |-> {}, version |-> 0,
     messageCount |-> 0, messages |-> 0]

(* Without a conversation, or with one, which all have closed.             *)
DmInit ==
    /\ \E among \in SUBSET Participants :
         /\ Cardinality(among) \in 2..ParticipantLimit
         /\ conversations \in
              {<<>>, <<[NewConversation(among) EXCEPT !.closedBy = among]>>}
    /\ dmCall = [r \in DmCalls |-> IdleDmCall]

(* What a findOne of getOrCreateDM, or of getDM, gives the request.        *)
Holding(c, id) == [c EXCEPT !.id = id, !.closed = conversations[id].closedBy,
                            !.version = conversations[id].version,
                            !.read = conversations[id].messageCount]

(* A conversation of exactly these, without and with the other condition.  *)
OfThemMutant(id, among) == among \subseteq conversations[id].participants
OfThem(id, among) == conversations[id].participants = among

(* getOrCreateDM, when all are known to be members: the first there is.    *)
OpenConversation(r, u) ==
    \E among \in SUBSET Participants :
        LET found == {id \in Ids : OfThem(id, among)}
            c == [dmCall[r] EXCEPT !.op = "open", !.by = u, !.among = among]
        IN
        /\ u \in among /\ Cardinality(among) \in 2..ParticipantLimit
        /\ dmCall' = [dmCall EXCEPT ![r] =
              IF found = {} THEN [c EXCEPT !.pc = "create"]
              ELSE LET id == CHOOSE i \in found : \A j \in found : i <= j IN
                   [Holding(c, id) EXCEPT !.pc =
                       IF u \in conversations[id].closedBy THEN "save" ELSE "done"]]

(* sendDMMessage and closeDM begin with a conversation of the user.        *)
UseConversation(r, u) ==
    \E id \in Ids, op \in {"send", "close"} :
        /\ u \in conversations[id].participants
        /\ op = "close" => u \notin conversations[id].closedBy
        /\ dmCall' = [dmCall EXCEPT ![r] =
              Holding([@ EXCEPT !.op = op, !.by = u,
                                !.pc = IF op = "send" THEN "message" ELSE "save"], id)]

BeginDmCall(r) ==
    /\ dmCall[r].pc = "idle"
    /\ \A s \in DmCalls : s < r => dmCall[s].pc # "idle"
    /\ \E u \in Participants : OpenConversation(r, u) \/ UseConversation(r, u)
    /\ UNCHANGED conversations

DmAt(r, pc) == dmCall' = [dmCall EXCEPT ![r].pc = pc]

(* Nobody asks whether another call has created it meanwhile.              *)
CreateConversation(r) ==
    LET c == dmCall[r] IN
    /\ c.pc = "create"
    /\ conversations' = Append(conversations, NewConversation(c.among))
    /\ dmCall' = [dmCall EXCEPT ![r] =
          [@ EXCEPT !.pc = "done", !.id = Len(conversations) + 1,
                    !.late = \E id \in Ids : OfThem(id, c.among)]]

(* Saving closedBy without the user, over the version it was read in: one  *)
(* that a message's update does not change.                                *)
SaveReopen(r) ==
    LET c == dmCall[r]
        v == conversations[c.id]
    IN
    /\ c.pc = "save" /\ c.op = "open"
    /\ IF c.version = v.version
       THEN /\ conversations' = [conversations EXCEPT ![c.id] =
                 [v EXCEPT !.closedBy = c.closed \ {c.by}, !.version = v.version + 1]]
            /\ dmCall' = [dmCall EXCEPT ![r] =
                 [@ EXCEPT !.pc = "done",
                           !.late = c.read # v.messageCount]]
       ELSE DmAt(r, "failed") /\ UNCHANGED conversations

(* closeDM pushes the user, over any version.                              *)
SaveClose(r) ==
    LET c == dmCall[r]
        v == conversations[c.id]
    IN
    /\ c.pc = "save" /\ c.op = "close"
    /\ conversations' = [conversations EXCEPT ![c.id] =
          [v EXCEPT !.closedBy = v.closedBy \cup {c.by}, !.version = v.version + 1]]
    /\ dmCall' = [dmCall EXCEPT ![r] =
          [@ EXCEPT !.pc = "done", !.late = c.read # v.messageCount]]

CreateDmMessage(r) ==
    /\ dmCall[r].pc = "message"
    /\ conversations' = [conversations EXCEPT ![dmCall[r].id].messages = @ + 1]
    /\ DmAt(r, "update")

(* A message counts, and opens the conversation to all, in one update.     *)
UpdateConversation(r) ==
    /\ dmCall[r].pc = "update"
    /\ conversations' = [conversations EXCEPT ![dmCall[r].id] =
          [@ EXCEPT !.messageCount = conversations[dmCall[r].id].messageCount + 1,
                    !.closedBy = {}]]
    /\ DmAt(r, "notify")

(* The others' notifications; that they failed is not said.                *)
NotifyOthers(r) ==
    /\ dmCall[r].pc = "notify"
    /\ \E pc \in {"done", "unnotified"} : DmAt(r, pc)
    /\ UNCHANGED conversations

(* The process stops, or the store fails, after the message's creation.    *)
CutDmSend(r) ==
    /\ dmCall[r].pc = "update"
    /\ DmAt(r, "cut")
    /\ UNCHANGED conversations

DmNext ==
    \E r \in DmCalls :
        \/ BeginDmCall(r) \/ CreateConversation(r) \/ SaveReopen(r) \/ SaveClose(r)
        \/ CreateDmMessage(r) \/ UpdateConversation(r) \/ NotifyOthers(r) \/ CutDmSend(r)

DmSpec == DmInit /\ [][DmNext]_dmVars

-----------------------------------------------------------------------------
DmDone(op) == {r \in DmCalls : dmCall[r].op = op /\ dmCall[r].pc = "done"}

(* Those who open a conversation get the one of exactly these members, and *)
(* there are two of it only where two created it at once.                  *)
OpenedIsTheirs ==
    /\ \A r \in DmDone("open") : conversations[dmCall[r].id].participants = dmCall[r].among
    /\ \A id \in Ids :
         LET among == conversations[id].participants IN
         Cardinality({j \in Ids : OfThem(j, among)}) <=
            1 + Cardinality({r \in DmDone("open") : dmCall[r].late /\ dmCall[r].among = among})

(* A conversation is hidden from a member only by what he has closed: by a *)
(* call that knew of every message counted, or one, his or that of another *)
(* who opened it again, saved over a message that came since it read it.   *)
NothingHidden ==
    \A id \in Ids : \A u \in conversations[id].closedBy :
        \/ conversations[id].messageCount = 0
        \/ \E r \in DmDone("close") \cup DmDone("open") :
             /\ dmCall[r].id = id
             /\ \/ dmCall[r].late
                \/ dmCall[r].op = "close" /\ dmCall[r].by = u
                   /\ dmCall[r].read = conversations[id].messageCount

(* getOrCreateDM, closeDM and sendDMMessage together: one conversation for *)
(* its members, hidden from none of them who has a message to read, but    *)
(* where calls overlapped.                                                 *)
OneConversation == OpenedIsTheirs /\ NothingHidden
=============================================================================
